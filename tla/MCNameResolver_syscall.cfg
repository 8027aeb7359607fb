\* Resolution over a two-module graph with two pending modules.
CONSTANTS
  NONE = NONE
  LOCAL_PROC = LOCAL_PROC
  Paths <- MCPaths
  ProcNames <- MCProcNames
  ImportNames <- MCImportNames
  Digests <- MCDigests
  Graph <- MCGraph
  Kernel = "kern"
  Defs <- MCDefs
  Imports <- MCImports
  MastRoots <- MCMastRoots
  DigestIndex <- MCDigestIndex
  CallerKinds <- MCAllKinds
  Targets <- MCTargets
SPECIFICATION Spec
INVARIANT SyscallResolvesInKernel
