CONSTANTS
  Ops <- HasherNoopOps
  Kernel = {}
  Procs = {}
  MaxRows = 6
  MaxNesting = 2
  MaxSpanBatches = 2
  MaxDepth = 2
  U32Vals = {}
  MemAddrs = {}
  Vals = {1}
SPECIFICATION Spec
INVARIANT SiblingTableBalanced
\* A program ends at HALT or a failed operation: no step follows it.
CHECK_DEADLOCK FALSE
