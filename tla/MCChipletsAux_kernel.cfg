CONSTANTS
  Ops <- KernelStoreOps
  Kernel = {1, 2}
  Procs = {1, 2, 3}
  MaxRows = 7
  MaxNesting = 2
  MaxSpanBatches = 1
  MaxDepth = 1
  U32Vals = {}
  MemAddrs = {0, 1}
  Vals = {2, 3}
SPECIFICATION Spec
INVARIANT BusBalanced
\* A program ends at HALT or at a SYSCALL outside the kernel: no step follows.
CHECK_DEADLOCK FALSE
