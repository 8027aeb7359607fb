CONSTANTS
  Ops <- SpanOps
  Kernel = {}
  Procs = {}
  MaxRows = 6
  MaxNesting = 2
  MaxSpanBatches = 2
  MaxDepth = 1
  U32Vals = {}
  MemAddrs = {}
  Vals = {1}
SPECIFICATION Spec
INVARIANT BusBalanced
\* A program ends at HALT: no step follows it.
CHECK_DEADLOCK FALSE
