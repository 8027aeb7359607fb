------------------------------ MODULE SumCheck ------------------------------
(***************************************************************************)
(* The sum-check prover of the virtual bus                                 *)
(* (processor/src/trace/virtual_bus/sum_check/prover/mod.rs): prove and    *)
(* prove_rounds over multilinear polynomials given by their evaluations   *)
(* on the hypercube, with one round of the protocol per step.              *)
(*                                                                         *)
(* The field is the prime field of P elements.  The random coin is a       *)
(* random oracle, so each challenge it draws is any field element; its     *)
(* reseeding is left out.  A round polynomial is kept as its evaluations  *)
(* at 0..MaxDegree, which determine its coefficients.  MultiLinearPoly,    *)
(* UnivariatePolyEvals::to_poly and reduce_claim are defined outside src/  *)
(* and are modelled from the protocol they implement.                      *)
(***************************************************************************)
EXTENDS Naturals, Sequences, FiniteSets, Functions, FiniteSetsExt

CONSTANTS
  P,          \* the field modulus, a prime greater than MaxDegree
  MaxDegree,  \* composition_poly.max_degree()
  G(_),       \* composition_poly.evaluate over a sequence of field elements
  Inputs,     \* the sequences of multilinears the prover may be given
  MaxVars     \* a bound on their number of variables

F == 0..(P - 1)

VARIABLES
  entry,      \* "prove" or "prove_rounds": the function that was called
  mls,        \* the multilinears, folded by every challenge so far
  num_rounds, \* the rounds to prove
  rclaim,     \* current_round_claim: [eval_point, claim]
  proofs,     \* round_proofs: the round polynomials sent so far
  phase,      \* "rounds", "done", "panicked" or the error returned
  openings    \* what prove hands to the final claim builder

vars == <<entry, mls, num_rounds, rclaim, proofs, phase, openings>>

-----------------------------------------------------------------------------
(* Multilinears and round polynomials.                                     *)

Size(t) == Cardinality(DOMAIN t)
NumVars(t) == CHOOSE n \in 0..MaxVars : 2^n = Size(t)
\* Fault variant: a difference of field elements taken over the integers.
Sub_unreduced(a, b) == a - b

\* Subtraction in the field.
Sub(a, b) == (a + P - b) % P

\* MultiLinearPoly::bind: fixing the lowest variable to r halves the table.
Bind(t, r) == [i \in 0..(Size(t) \div 2 - 1) |-> (t[2 * i] + r * Sub(t[2 * i + 1], t[2 * i])) % P]

\* The sum over the hypercube of w = g(f_0, ..., f_c).
HypercubeSum(ms) == MapThenSumSet(LAMBDA x : G([j \in DOMAIN ms |-> ms[j][x]]), DOMAIN ms[1]) % P

Inverse_(a) == CHOOSE b \in F : (a * b) % P = 1

\* The round polynomial with evaluations s at 0..MaxDegree, at the point r.
EvalAt(s, r) ==
  LET basis(k) == FoldFunction(LAMBDA a, b : (a * b) % P, 1,
                    [j \in (0..MaxDegree) \ {k} |-> Sub(r, j) * Inverse_(Sub(k, j))])
  IN MapThenSumSet(LAMBDA k : s[k] * basis(k), 0..MaxDegree) % P

\* UnivariatePolyEvals::to_poly: s(0) is recovered as claim - s(1).
ToPoly(evals, claim) == [k \in 0..MaxDegree |-> IF k = 0 THEN Sub(claim, evals[1]) ELSE evals[k]]

\* reduce_claim: the new claim is the round polynomial at the challenge.
ReduceClaim(s, rc, r) == [eval_point |-> Append(rc.eval_point, r), claim |-> EvalAt(s, r)]

\* Fault variant: evals_x starts from the evaluation at 0.
ShiftFrom_zero(a0, a1) == a0

\* evals_x starts at the evaluation at 1.
ShiftFrom(a0, a1) == a1

\* The evaluation at x of the folded multilinear through a0 (at 0) and a1
\* (at 1): evals_one for x = 1, then one delta added per further point.
RECURSIVE EvalStep(_, _, _)
EvalStep(a0, a1, x) ==
  IF x = 1 THEN ShiftFrom(a0, a1) ELSE (EvalStep(a0, a1, x - 1) + Sub(a1, a0)) % P

\* sumcheck_round: the evaluations of s_i at 1..max_degree, summed over the
\* pairs (2i, 2i + 1) of every multilinear.
SumcheckRound(ms) ==
  LET pairs == 0..(Size(ms[1]) \div 2 - 1)
      at(i, x) == G([j \in DOMAIN ms |-> EvalStep(ms[j][2 * i], ms[j][2 * i + 1], x)])
  IN [x \in 1..MaxDegree |-> MapThenSumSet(LAMBDA i : at(i, x), pairs) % P]

\* The early returns of prove_rounds, in the order they are tested.
ValidationError(ms, n) ==
  CASE ms = <<>> -> "NoMlsProvided"
    [] n = 0 -> "NumRoundsZero"
    [] n > NumVars(ms[1]) -> "TooManyRounds"
    [] NumVars(ms[1]) < 1 -> "AtLeastOneVariable"
    [] \E j \in DOMAIN ms : NumVars(ms[j]) # NumVars(ms[1]) -> "MlesDifferentArities"
    [] OTHER -> "ok"

-----------------------------------------------------------------------------
(* The prover.                                                             *)

\* The claim an honest caller passes: the true sum, where there is one.
HonestClaim(ms) ==
  IF ms # <<>> /\ \A j \in DOMAIN ms : Size(ms[j]) = Size(ms[1]) THEN HypercubeSum(ms) ELSE 0

\* prove(claim, mls, coin) or prove_rounds(claim, mls, num_rounds, coin),
\* called by an honest caller with the true sum as claim; prove takes the
\* number of rounds from mls[0], which panics on an empty slice.  The
\* checks of prove_rounds and its first round follow.
Init ==
  \E ms \in Inputs, e \in {"prove", "prove_rounds"}, n \in 0..(MaxVars + 1) :
    /\ entry = e
    /\ mls = ms
    /\ num_rounds = IF e = "prove" /\ ms # <<>> THEN NumVars(ms[1]) ELSE n
    /\ rclaim = [eval_point |-> <<>>, claim |-> HonestClaim(ms)]
    /\ openings = <<>>
    /\ CASE e = "prove" /\ ms = <<>> ->
              phase = "panicked" /\ proofs = <<>>
         [] ValidationError(ms, num_rounds) # "ok" ->
              phase = ValidationError(ms, num_rounds) /\ proofs = <<>>
         [] OTHER ->
              phase = "rounds" /\ proofs = <<ToPoly(SumcheckRound(ms), rclaim.claim)>>

\* One iteration of the loop over 1..num_rounds: draw r_i, reduce the
\* claim with the last round polynomial, fold every multilinear, and send
\* the next round polynomial.
prove_round ==
  \E r \in F :
    LET new_claim == ReduceClaim(proofs[Len(proofs)], rclaim, r)
        folded == [j \in DOMAIN mls |-> Bind(mls[j], r)]
    IN /\ phase = "rounds"
       /\ Len(proofs) < num_rounds
       /\ mls' = folded
       /\ rclaim' = new_claim
       /\ proofs' = Append(proofs, ToPoly(SumcheckRound(folded), new_claim.claim))
       /\ UNCHANGED <<entry, num_rounds, phase, openings>>

\* Fault variant: the multilinears are not folded by the last challenge.
FinalFold_skipped(t, r) == t

\* Each multilinear is folded by the last challenge.
FinalFold(t, r) == Bind(t, r)

\* The last challenge: fold, reduce with the last round polynomial, and,
\* in prove, read the openings off the folded multilinears.
final_round ==
  \E r \in F :
    LET folded == [j \in DOMAIN mls |-> FinalFold(mls[j], r)]
    IN /\ phase = "rounds"
       /\ Len(proofs) = num_rounds
       /\ mls' = folded
       /\ rclaim' = ReduceClaim(proofs[num_rounds], rclaim, r)
       /\ phase' = "done"
       /\ openings' = IF entry = "prove" THEN [j \in DOMAIN mls |-> folded[j][0]] ELSE <<>>
       /\ UNCHANGED <<entry, num_rounds, proofs>>

\* coin.draw() fails: FailedToGenerateChallenge is returned.
draw_fails ==
  /\ phase = "rounds"
  /\ phase' = "FailedToGenerateChallenge"
  /\ UNCHANGED <<entry, mls, num_rounds, rclaim, proofs, openings>>

Next == prove_round \/ final_round \/ draw_fails

Spec == Init /\ [][Next]_vars

-----------------------------------------------------------------------------
(* Properties.                                                              *)

Errors == {"NoMlsProvided", "NumRoundsZero", "TooManyRounds", "AtLeastOneVariable",
           "MlesDifferentArities", "FailedToGenerateChallenge"}

TypeOK ==
  /\ entry \in {"prove", "prove_rounds"}
  /\ phase \in {"rounds", "done", "panicked"} \cup Errors
  /\ rclaim.claim \in F
  /\ \A k \in 1..Len(proofs) : proofs[k] \in [0..MaxDegree -> F]

\* The round polynomial s_i over the folded multilinears, from its
\* definition: the sum over the hypercube of w with X_i at x.
ReferenceRound(ms) ==
  [x \in 0..MaxDegree |->
     MapThenSumSet(LAMBDA i : G([j \in DOMAIN ms |-> (Sub(1, x) * ms[j][2 * i] + x * ms[j][2 * i + 1]) % P]),
                   0..(Size(ms[1]) \div 2 - 1)) % P]

\* Every round polynomial the prover sends is s_i of the protocol, at
\* every point 0..max_degree: the incremental evaluation of sumcheck_round
\* and the recovery of s_i(0) from the claim agree with the definition.
RoundPolyMatchesReference ==
  phase = "rounds" => proofs[Len(proofs)] = ReferenceRound(mls)

\* Completeness: from an honest claim every reduced claim is the sum of w
\* over the hypercube that is left, so the claim prove ends with is g at
\* the openings, the check the verifier makes.
HonestClaimReduces ==
  /\ phase \in {"rounds", "done"} => rclaim.claim = HypercubeSum(mls)
  /\ phase = "done" /\ entry = "prove" => rclaim.claim = G(openings) % P

=============================================================================
