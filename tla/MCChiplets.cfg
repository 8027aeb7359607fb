CONSTANTS
  p1 = p1
  p2 = p2
  Procs <- MCProcs
  MaxDepth <- MCMaxDepth
  MaxSpanBatches <- MCMaxSpanBatches
  MaxHasherLen <- MCMaxHasherLen
  MaxBitwiseLen <- MCMaxBitwiseLen
  MaxMemoryLen <- MCMaxMemoryLen
  MaxKernelCalls <- MCMaxKernelCalls
  MaxClk <- MCMaxClk
  MaxRandRows <- MCMaxRandRows
SPECIFICATION Spec
SYMMETRY MCSymmetry
INVARIANT TypeOK
INVARIANT TraceMatchesLayout
\* into_trace consumes the chiplets, and a panic or an execution error ends
\* the program: those states have no successor.
CHECK_DEADLOCK FALSE
