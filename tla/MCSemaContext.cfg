\* Constants, immediates and diagnostics of one module's analysis.
CONSTANTS
  Names <- MCNames
  Exprs <- MCExprs
  ProcNames = {"p"}
  ImmIds <- MCImmIds
  ImmOf <- MCImmOf
  P = 257
  MaxDefines = 3
  MaxReports = 2
SPECIFICATION Spec
INVARIANTS
  TypeOK
  ConstantValuesCorrect
  DiagnosticsDeliveredOnce
\* The analysis ends: ok, failed and panicked states have no successor.
CHECK_DEADLOCK FALSE
