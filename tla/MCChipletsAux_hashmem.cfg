\* A program ends at HALT or a failed operation: no step follows it.
CONSTANTS
  Ops <- HasherMemOps
  Kernel = {}
  Procs = {}
  MaxRows = 6
  MaxNesting = 2
  MaxSpanBatches = 1
  MaxDepth = 2
  U32Vals = {3, 5}
  MemAddrs = {0, 1}
  Vals = {1, 2}
SPECIFICATION Spec
INVARIANT BusBalanced
CHECK_DEADLOCK FALSE
