\* Rewrite checks over a three-module graph with one pending module.
CONSTANTS
  NONE = NONE
  LOCAL_PROC = LOCAL_PROC
  Paths <- MCPaths
  ProcNames <- MCProcNames
  ImportNames <- MCImportNames
  Digests <- MCDigests
  Graph <- MCCheckGraph
  Kernel = "kern"
  Defs <- MCDefs
  Imports <- MCImports
  MastRoots <- MCMastRoots
  DigestIndex <- MCDigestIndex
  CallerKinds <- MCExecCallKinds
  Targets <- MCCheckTargets
  Body <- MCBody
SPECIFICATION CheckSpec
INVARIANTS
  CheckTypeOK
PROPERTIES
  ResolverImplementsResolution
  CheckTerminates
  CheckAnswerMatchesBody
