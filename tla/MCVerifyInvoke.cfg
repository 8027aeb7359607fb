\* One module, kernel or not, with two procedures and two aliases.
CONSTANTS
  NONE = NONE
  Procs <- MCProcs
  Bodies <- MCBodies
  Aliases <- MCAliases
  ImportNames <- MCImportNames
  Imports <- MCImports
SPECIFICATION Spec
INVARIANTS
  TypeOK
  InvokedMatchesBody
\* The pass ends once every procedure and alias has been visited.
CHECK_DEADLOCK FALSE
