---------------------------- MODULE RewriteCheck ----------------------------
(***************************************************************************)
(* MaybeRewriteCheck (assembly/src/assembler/module_graph/analysis/        *)
(* rewrite_check.rs) composed with the NameResolver it borrows: for a      *)
(* module already in the graph, the visitor hands every invocation target  *)
(* of the module's body, in visit order, to resolve_target, and stops at   *)
(* the first result that shows a rewrite is due, or at the first error.    *)
(*                                                                         *)
(* The resolver keeps its own steps (find runs one loop iteration per      *)
(* step), so a check spans many steps of the resolver.  The module body is *)
(* abstracted to the sequence of <<kind, target>> pairs the Visit trait    *)
(* hands to visit_syscall, visit_call and visit_invoke_target.             *)
(***************************************************************************)
EXTENDS NameResolver, Naturals, Sequences

CONSTANTS
  Body   \* Graph -> Seq([kind : Kinds, target : Targets]), in visit order

VARIABLES
  rc_module,   \* the module_id of the check in progress, or NONE
  rc_pos,      \* index into Body[rc_module] of the next target
  rc_waiting,  \* resolve_target was called and its result not yet matched
  rc_answer    \* "pending", or what check returned: "true", "false", "error"

rc_vars == <<rc_module, rc_pos, rc_waiting, rc_answer>>
all_vars == <<vars, rc_vars>>

Checking == rc_answer = "pending"

CheckInit ==
  /\ Init
  /\ rc_module = NONE
  /\ rc_pos = 1
  /\ rc_waiting = FALSE
  /\ rc_answer = "none"

\* MaybeRewriteCheck::check: a fresh RewriteCheckVisitor over the module.
check ==
  \E m \in Graph :
    /\ ~Checking
    /\ pc # "find"
    /\ rc_module' = m
    /\ rc_pos' = 1
    /\ rc_waiting' = FALSE
    /\ rc_answer' = "pending"
    /\ UNCHANGED vars

\* visit_syscall / visit_call / visit_invoke_target: RewriteCheckVisitor::
\* resolve_target builds the CallerInfo and calls the resolver.
visit_target ==
  LET inv == Body[rc_module][rc_pos]
  IN /\ Checking
     /\ ~rc_waiting
     /\ rc_pos <= Len(Body[rc_module])
     /\ ResolveTarget([module |-> rc_module, kind |-> inv.kind], inv.target)
     /\ rc_waiting' = TRUE
     /\ UNCHANGED <<rc_module, rc_pos, rc_answer>>

\* Fault variant: a cached procedure never asks for a rewrite.
Verdict_cached_continue(r, t) ==
  CASE r.res = "error" -> "error"
    [] r.res = "Resolved" -> "true"
    [] OTHER -> "continue"

\* The match on the resolver's answer: an error or a Resolved target
\* breaks; Exact and Phantom continue; Cached breaks with true unless the
\* target was already a MAST root.
Verdict(r, t) ==
  CASE r.res = "error" -> "error"
    [] r.res = "Resolved" -> "true"
    [] r.res = "Cached" /\ t.tag # "MastRoot" -> "true"
    [] OTHER -> "continue"

\* The default Visit walk moves on to the next invocation.
NextPos(p) == p + 1

\* The resolver returned: ControlFlow::Break ends visit_module and becomes
\* the check's answer; Continue lets the walk go on.
visit_result ==
  LET v == Verdict(result, Body[rc_module][rc_pos].target)
  IN /\ Checking
     /\ rc_waiting
     /\ pc = "done"
     /\ rc_waiting' = FALSE
     /\ IF v = "continue"
        THEN /\ rc_pos' = NextPos(rc_pos)
             /\ UNCHANGED rc_answer
        ELSE /\ rc_answer' = v
             /\ UNCHANGED rc_pos
     /\ UNCHANGED <<vars, rc_module>>

\* visit_module returned ControlFlow::Continue: check answers Ok(false).
module_done ==
  /\ Checking
  /\ ~rc_waiting
  /\ rc_pos > Len(Body[rc_module])
  /\ rc_answer' = "false"
  /\ UNCHANGED <<vars, rc_module, rc_pos, rc_waiting>>

\* The checker borrows the resolver immutably: pending modules are pushed,
\* and other resolutions made, only between checks.
resolver_step ==
  /\ ~Checking
  /\ push_pending \/ resolve_target
  /\ UNCHANGED rc_vars

CheckNext ==
  \/ resolver_step
  \/ find_step /\ UNCHANGED rc_vars
  \/ check
  \/ visit_target
  \/ visit_result
  \/ module_done

\* Neither find nor the visitor's walk ever blocks once started.
CheckSpec ==
  /\ CheckInit
  /\ [][CheckNext]_all_vars
  /\ WF_all_vars(find_step /\ UNCHANGED rc_vars)
  /\ WF_all_vars(visit_target)
  /\ WF_all_vars(visit_result)
  /\ WF_all_vars(module_done)

-----------------------------------------------------------------------------
(* Properties.                                                              *)

CheckTypeOK ==
  /\ TypeOK
  /\ rc_module \in Graph \cup {NONE}
  /\ rc_waiting \in BOOLEAN
  /\ rc_answer \in {"none", "pending", "true", "false", "error"}

\* What resolving t for caller c comes to, computed from the alias graph in
\* one step: "continue" when the target already names the procedure it
\* resolves to (or a MAST root), "true" when it resolves through an alias,
\* an import or a cached MAST root, "error" when no definition is reached.
RefClass(c, t) ==
  LET Through(f, exact) ==
        IF Definitions(f) = {} THEN "error"
        ELSE IF exact /\ \A g \in Definitions(f) : g \notin MastRoots
             THEN "continue" ELSE "true"
      loc == resolve_local(c, t.name)
  IN CASE t.tag = "MastRoot" -> "continue"
       [] t.tag = "AbsoluteProcedurePath" -> Through(<<t.path, t.name>>, TRUE)
       [] t.tag = "ProcedurePath" ->
            IF resolve_import(c, t.module) = NONE THEN "error"
            ELSE Through(<<resolve_import(c, t.module), t.name>>, FALSE)
       [] loc = LOCAL_PROC -> Through(<<LocalModule(c), t.name>>, TRUE)
       [] loc \in Fqns -> Through(loc, FALSE)
       [] OTHER -> "error"

\* The verdict of the first target of m's body that does not continue.
ExpectedAnswer(m) ==
  LET cls == [i \in 1..Len(Body[m]) |->
                RefClass([module |-> m, kind |-> Body[m][i].kind], Body[m][i].target)]
      stops == {i \in DOMAIN cls : cls[i] # "continue"}
  IN IF stops = {} THEN "false"
     ELSE cls[CHOOSE i \in stops : \A j \in stops : i <= j]

\* The check answers true exactly when the first target of the body, in
\* visit order, that is not already exact resolves through an alias, an
\* import or a cached root; it answers with the error when that target
\* does not resolve, and false when every target is already exact: the
\* early breaks of the visitor, over the resolver's multi-step find, give
\* the verdict of the whole body at the set of modules known to the check.
CheckAnswerMatchesBody ==
  [][Checking /\ ~Checking' => rc_answer' = ExpectedAnswer(rc_module)']_all_vars

\* Every check that starts returns an answer, whatever the body and the
\* aliases it resolves through: a body target that runs into a cycle of
\* re-exports (app::g -> lib::g -> app::g) still ends find, through the
\* recursive-alias check on the visited set, and so ends the walk.
CheckTerminates == Checking ~> ~Checking

=============================================================================
