--------------------------- MODULE MCRewriteCheck ---------------------------
(* The resolver's graph of MCNameResolver with app also in the graph, and *)
(* a body for each module of it.  The kernel's body needs ext to resolve   *)
(* and then asks for a rewrite through a cached syscall target; the        *)
(* library's body needs ext to resolve and is then already exact; app's    *)
(* body names its re-export app::g, which runs into the app::g -> lib::g   *)
(* -> app::g cycle.                                                        *)
EXTENDS MCNameResolver, RewriteCheck

\* The targets of a body.
BodyTargets(s) == {s[i].target : i \in DOMAIN s}

Inv(kind, t) == [kind |-> kind, target |-> t]

MCCheckGraph == MCGraph \cup {"app"}

MCBody ==
  [m \in MCCheckGraph |->
     CASE m = "kern" ->
            << Inv("Exec", MastRoot("d2")),
               Inv("Exec", AbsoluteProcedurePath("ext", "f")),
               Inv("SysCall", ProcedureName("f")) >>
       [] m = "lib" ->
            << Inv("Exec", ProcedureName("f")),
               Inv("Call", MastRoot("d1")),
               Inv("Exec", AbsoluteProcedurePath("app", "f")) >>
       [] m = "app" -> << Inv("Exec", ProcedureName("g")) >>]

\* The targets callers resolve include every target of the bodies.
MCCheckTargets ==
  MCTargets \cup UNION {BodyTargets(MCBody[m]) : m \in MCCheckGraph}
=============================================================================
