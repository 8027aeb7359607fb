CONSTANTS
  Ops <- KernelOps
  Kernel = {1}
  Procs = {1, 2, 3}
  MaxRows = 7
  MaxNesting = 2
  MaxSpanBatches = 1
  MaxDepth = 1
  U32Vals = {}
  MemAddrs = {}
  Vals = {1}
SPECIFICATION Spec
INVARIANT KernelProcsIncludedOnce
\* A program ends at HALT or at a SYSCALL outside the kernel: no step follows.
CHECK_DEADLOCK FALSE
