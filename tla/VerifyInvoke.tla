---------------------------- MODULE VerifyInvoke ----------------------------
(***************************************************************************)
(* The invoke-target verification pass of semantic analysis                *)
(* (assembly/src/sema/passes/verify_invoke.rs) over the procedures and     *)
(* aliases of one module: every exec, call, syscall and procref target is  *)
(* checked, a ProcedurePath through an import is rewritten to the absolute *)
(* path and counted as a use of the import, and each procedure records the *)
(* set of invokes in its body.  Diagnostics go to AnalysisContext::error.  *)
(* A visitor is created per procedure (VerifyInvokeTargets::new with the   *)
(* current procedure); the module's visit order is left open.              *)
(***************************************************************************)
EXTENDS Integers, Sequences, FiniteSets, Functions

CONSTANTS
  Procs,        \* the module's procedure names (the `procedures` set)
  Bodies,       \* Procs -> the sequence of instructions of each body
  Aliases,      \* the names (alias.name()) of the module's procedure aliases
  ImportNames,  \* identifiers that may name an import
  Imports,      \* ImportNames -> the imported path, or NONE
  NONE

VARIABLES
  is_kernel,     \* Module::is_kernel
  bodies,        \* the instructions, with targets as rewritten so far
  cur,           \* current_procedure, or NONE between procedures
  pos,           \* the next instruction of cur's body
  invoked,       \* the visitor's `invoked` set
  proc_invoked,  \* Procs -> the invokes each procedure has recorded
  done,          \* procedures visited
  aliases_done,  \* aliases visited
  uses,          \* ImportNames -> Import::uses
  errors         \* kinds of the diagnostics reported, in order

vars == <<is_kernel, bodies, cur, pos, invoked, proc_invoked, done, aliases_done, uses,
          errors>>

ProcedureName(n) == [tag |-> "ProcedureName", name |-> n]
ProcedurePath(m, n) == [tag |-> "ProcedurePath", module |-> m, name |-> n]
AbsoluteProcedurePath(p, n) == [tag |-> "AbsoluteProcedurePath", path |-> p, name |-> n]
MastRoot(d) == [tag |-> "MastRoot", digest |-> d]

\* The InvokeKind an invoking instruction records.
InvokeKindOf == [exec |-> "Exec", procref |-> "Exec", call |-> "Call", syscall |-> "SysCall"]
Invoking == DOMAIN InvokeKindOf

-----------------------------------------------------------------------------

\* import.uses += 1
UseCount(u) == u + 1

\* Fault variant: a path is rewritten through the import table without
\* checking that the import exists.
InvokeTarget_unchecked_import(t) ==
  CASE t.tag \in {"MastRoot", "AbsoluteProcedurePath"} ->
         [target |-> t, errs |-> <<>>, use |-> NONE]
    [] t.tag = "ProcedureName" /\ t.name = cur ->
         [target |-> t, errs |-> <<"SelfRecursive">>, use |-> NONE]
    [] t.tag = "ProcedureName" ->
         [target |-> t, errs |-> IF t.name \in Procs THEN <<>> ELSE <<"SymbolUndefined">>,
          use |-> NONE]
    [] OTHER ->
         [target |-> AbsoluteProcedurePath(Imports[t.module], t.name), errs |-> <<>>,
          use |-> t.module]

\* visit_mut_invoke_target with resolve_local / resolve_external: the new
\* target, the diagnostics, and the import used.
InvokeTarget(t) ==
  CASE t.tag \in {"MastRoot", "AbsoluteProcedurePath"} ->
         [target |-> t, errs |-> <<>>, use |-> NONE]
    [] t.tag = "ProcedureName" /\ t.name = cur ->
         [target |-> t, errs |-> <<"SelfRecursive">>, use |-> NONE]
    [] t.tag = "ProcedureName" ->
         [target |-> t, errs |-> IF t.name \in Procs THEN <<>> ELSE <<"SymbolUndefined">>,
          use |-> NONE]
    [] Imports[t.module] # NONE ->
         [target |-> AbsoluteProcedurePath(Imports[t.module], t.name), errs |-> <<>>,
          use |-> t.module]
    [] OTHER -> [target |-> t, errs |-> <<"MissingImport">>, use |-> NONE]

\* visit_mut_syscall leaves a local name alone: it is resolved later
\* against the kernel.
Checked(op, t) ==
  IF op = "syscall" /\ t.tag = "ProcedureName"
  THEN [target |-> t, errs |-> <<>>, use |-> NONE]
  ELSE InvokeTarget(t)

\* Diagnostics about where the instruction appears.
PlacementErrs(op) ==
  CASE op = "caller" /\ ~is_kernel -> <<"CallerInKernel">>
    [] op = "syscall" /\ is_kernel -> <<"SyscallInKernel">>
    [] op = "call" /\ is_kernel -> <<"CallInKernel">>
    [] OTHER -> <<>>

\* Fault variant: the invoke is recorded with the target as it was before
\* the visit rewrote it.
Recorded_before_rewrite(old, new) == old

\* `self.invoked.insert(Invoke::new(kind, target.clone()))` after the visit.
Recorded(old, new) == new

Init ==
  /\ is_kernel \in BOOLEAN
  /\ bodies = Bodies
  /\ cur = NONE
  /\ pos = 1
  /\ invoked = {}
  /\ proc_invoked = [p \in Procs |-> {}]
  /\ done = {}
  /\ aliases_done = {}
  /\ uses = [i \in ImportNames |-> 0]
  /\ errors = <<>>

\* VerifyInvokeTargets::new for a procedure not visited yet.
new ==
  \E p \in Procs \ done :
    /\ cur = NONE
    /\ cur' = p
    /\ pos' = 1
    /\ invoked' = {}
    /\ UNCHANGED <<is_kernel, bodies, proc_invoked, done, aliases_done, uses, errors>>

\* visit_mut_inst and the visit_mut_{exec,call,syscall,procref} handlers
\* for the next instruction of the current procedure.
visit_inst ==
  /\ cur # NONE
  /\ pos <= Len(bodies[cur])
  /\ LET i == bodies[cur][pos]
         v == Checked(i.op, i.target)
     IN IF i.op \in Invoking
        THEN /\ bodies' = [bodies EXCEPT ![cur][pos].target = v.target]
             /\ invoked' = invoked \cup {<<InvokeKindOf[i.op], Recorded(i.target, v.target)>>}
             /\ uses' = IF v.use = NONE THEN uses
                        ELSE [uses EXCEPT ![v.use] = UseCount(@)]
             /\ errors' = errors \o PlacementErrs(i.op) \o v.errs
        ELSE /\ errors' = errors \o PlacementErrs(i.op)
             /\ UNCHANGED <<bodies, invoked, uses>>
  /\ pos' = pos + 1
  /\ UNCHANGED <<is_kernel, cur, proc_invoked, done, aliases_done>>

\* visit_mut_procedure, after the body: extend_invoked(mem::take(invoked)).
visit_procedure_end ==
  /\ cur # NONE
  /\ pos > Len(bodies[cur])
  /\ proc_invoked' = [proc_invoked EXCEPT ![cur] = @ \cup invoked]
  /\ invoked' = {}
  /\ done' = done \cup {cur}
  /\ cur' = NONE
  /\ UNCHANGED <<is_kernel, bodies, pos, aliases_done, uses, errors>>

\* visit_mut_procedure_alias: an alias whose name resolves to an import
\* counts as a use of it.
visit_procedure_alias ==
  \E a \in Aliases \ aliases_done :
    /\ cur = NONE
    /\ aliases_done' = aliases_done \cup {a}
    /\ uses' = IF a \in ImportNames /\ Imports[a] # NONE
               THEN [uses EXCEPT ![a] = UseCount(@)] ELSE uses
    /\ UNCHANGED <<is_kernel, bodies, cur, pos, invoked, proc_invoked, done, errors>>

Next == new \/ visit_inst \/ visit_procedure_end \/ visit_procedure_alias

Spec == Init /\ [][Next]_vars

-----------------------------------------------------------------------------
(* Properties.                                                              *)

\* The target an invoke denotes once its import is applied.
Rewrite(t) ==
  IF t.tag = "ProcedurePath" /\ Imports[t.module] # NONE
  THEN AbsoluteProcedurePath(Imports[t.module], t.name) ELSE t

\* The targets of the module's bodies, before and after rewriting.
BodyTargets == UNION {{Bodies[p][k].target : k \in 1..Len(Bodies[p])} : p \in Procs}
Targets == BodyTargets \cup {Rewrite(t) : t \in BodyTargets}

TypeOK ==
  /\ is_kernel \in BOOLEAN
  /\ cur \in Procs \cup {NONE}
  /\ done \subseteq Procs /\ aliases_done \subseteq Aliases
  /\ uses \in [ImportNames -> Nat]
  /\ \A p \in Procs : proc_invoked[p] \subseteq Range(InvokeKindOf) \X Targets
  /\ invoked \subseteq Range(InvokeKindOf) \X Targets

\* Every procedure the pass has visited records exactly the invokes of its
\* own body, each with its target as rewritten through the imports (so the
\* call graph built from them names absolute paths), and the body itself
\* holds the rewritten targets.
InvokedMatchesBody ==
  \A p \in done :
    /\ proc_invoked[p] =
         {<<InvokeKindOf[Bodies[p][k].op], Rewrite(Bodies[p][k].target)>> :
            k \in {j \in 1..Len(Bodies[p]) : Bodies[p][j].op \in Invoking}}
    /\ \A k \in 1..Len(Bodies[p]) :
         Bodies[p][k].op \in Invoking => bodies[p][k].target = Rewrite(Bodies[p][k].target)

=============================================================================
