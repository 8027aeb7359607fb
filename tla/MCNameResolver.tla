--------------------------- MODULE MCNameResolver ---------------------------
(* A kernel and a library in the graph; two modules still pending.  The   *)
(* kernel re-exports a library procedure, the library and the app          *)
(* re-export each other's `g` (a recursive alias), the app reaches a       *)
(* definition through two aliases, and one name is defined nowhere.        *)
EXTENDS NameResolver

MCPaths == {"kern", "lib", "app", "ext"}
MCProcNames == {"f", "g"}
MCImportNames == {"x", "y"}
MCDigests == {"d1", "d2"}
MCGraph == {"kern", "lib"}

MCDefs ==
  [m \in MCPaths |-> [n \in MCProcNames |->
     CASE m = "kern" /\ n = "f" -> LOCAL_PROC
       [] m = "kern" /\ n = "g" -> <<"lib", "f">>
       [] m = "lib" /\ n = "f" -> LOCAL_PROC
       [] m = "lib" /\ n = "g" -> <<"app", "g">>
       [] m = "app" /\ n = "f" -> <<"ext", "f">>
       [] m = "app" /\ n = "g" -> <<"lib", "g">>
       [] m = "ext" /\ n = "f" -> LOCAL_PROC
       [] OTHER -> NONE]]

\* app imports lib as x and ext as y; kern imports lib as x.
MCImports ==
  [m \in MCPaths |-> [i \in MCImportNames |->
     CASE m \in {"app", "kern"} /\ i = "x" -> "lib"
       [] m = "app" /\ i = "y" -> "ext"
       [] OTHER -> NONE]]

MCMastRoots == {<<"kern", "f">>}
MCDigestIndex == [d \in MCDigests |-> IF d = "d1" THEN <<"kern", "f">> ELSE NONE]

\* Callers of every invoke kind, or exec and call callers only.
MCAllKinds == Kinds
MCExecCallKinds == {"Exec", "Call"}

MCTargets ==
  { MastRoot("d1"), MastRoot("d2"),
    ProcedureName("f"), ProcedureName("g"),
    ProcedurePath("x", "f"), ProcedurePath("x", "g"), ProcedurePath("y", "g"),
    AbsoluteProcedurePath("app", "f"), AbsoluteProcedurePath("kern", "g"),
    AbsoluteProcedurePath("lib", "f") }
=============================================================================
