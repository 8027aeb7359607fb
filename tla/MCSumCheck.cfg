\* prove and prove_rounds end with a proof or an error: no step follows.
CONSTANTS
  P = 7
  MaxDegree = 3
  MaxVars = 3
  G <- MCG
  Inputs <- MCInputs
SPECIFICATION Spec
INVARIANTS
  TypeOK
  RoundPolyMatchesReference
  HonestClaimReduces
CHECK_DEADLOCK FALSE
