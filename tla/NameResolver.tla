---------------------------- MODULE NameResolver ----------------------------
(***************************************************************************)
(* The assembler's NameResolver                                            *)
(* (assembly/src/assembler/module_graph/name_resolver.rs): resolving an    *)
(* invocation target to the procedure that defines it, following the      *)
(* re-exports (aliases) of the modules in the graph and of the pending     *)
(* modules pushed so far.                                                  *)
(*                                                                         *)
(* A module is known by its path, and a procedure by <<path, name>>; the   *)
(* index arithmetic over graph.modules ++ pending (pending_offset) selects *)
(* which of two tables holds a module's resolver, and both answer the same *)
(* way, so it is abstracted to the set of known paths.  The `find` loop   *)
(* runs one iteration per step.                                            *)
(***************************************************************************)
EXTENDS ResolverTypes

VARIABLES
  pending,  \* paths of the modules pushed by push_pending
  pc,       \* "idle", "find" (inside the find loop) or "done"
  caller,   \* the CallerInfo of the current resolution: [module, kind]
  post,     \* the result kind find's caller builds when no MAST root is cached
  cur_kind, \* current_caller.kind inside find
  callee,   \* current_callee inside find
  visited,  \* the aliases find has followed
  start,    \* the procedure find was asked for
  result    \* the ResolvedTarget or error returned

vars == <<pending, pc, caller, post, cur_kind, callee, visited, start, result>>

Known == Graph \cup pending

-----------------------------------------------------------------------------

Init ==
  /\ pending = {}
  /\ pc = "idle"
  /\ caller = [module |-> NONE, kind |-> "Exec"]
  /\ post = NONE
  /\ cur_kind = "Exec"
  /\ callee = NONE
  /\ visited = {}
  /\ start = NONE
  /\ result = NONE

\* push_pending: a module being added to the graph becomes visible to
\* resolution.  It is a &mut call, so no resolution is in progress.
push_pending ==
  \E m \in Paths \ Known :
    /\ pc # "find"
    /\ pending' = pending \cup {m}
    /\ pc' = "idle"
    /\ result' = NONE
    /\ UNCHANGED <<caller, post, cur_kind, callee, visited, start>>

\* Returning from the resolver without entering find.
Finish(r) ==
  /\ pc' = "done"
  /\ result' = r
  /\ post' = NONE
  /\ start' = NONE
  /\ UNCHANGED <<cur_kind, callee, visited>>

\* Entering find: a syscall caller is turned into an exec caller "until we
\* have resolved the procedure".
StartFind(c, fqn, kind) ==
  /\ pc' = "find"
  /\ cur_kind' = IF c.kind = "SysCall" THEN "Exec" ELSE c.kind
  /\ callee' = fqn
  /\ visited' = {}
  /\ start' = fqn
  /\ post' = kind
  /\ result' = NONE

\* resolve: a local definition is the kernel's (syscall) or the caller's
\* module's procedure; an alias is chased by find.
resolve(c, n) ==
  LET r == resolve_local(c, n)
  IN CASE r = LOCAL_PROC ->
            Finish(Mast(<<LocalModule(c), n>>, "Exact"))
       [] r \in Fqns -> StartFind(c, r, "Resolved")
       [] OTHER -> Finish(Fail("undefined procedure"))

\* resolve_target: one call of the resolver by the assembler.
ResolveTarget(c, t) ==
  /\ pc # "find"
  /\ caller' = c
  /\ CASE t.tag = "MastRoot" ->
            Finish(ByDigest(t.digest))
       [] t.tag = "ProcedureName" -> resolve(c, t.name)
       [] t.tag = "ProcedurePath" ->
            IF resolve_import(c, t.module) = NONE
            THEN Finish(Fail("UndefinedModule"))
            ELSE StartFind(c, <<resolve_import(c, t.module), t.name>>, "Resolved")
       [] t.tag = "AbsoluteProcedurePath" ->
            StartFind(c, <<t.path, t.name>>, "Exact")
  /\ UNCHANGED pending

\* Any caller of a known module resolving any target.
resolve_target ==
  \E m \in Known, kind \in CallerKinds, t \in Targets :
    ResolveTarget([module |-> m, kind |-> kind], t)

\* The body of find's loop, for the module the current callee names:
\* the definition found, an alias followed, or an error.
FindDone(r) ==
  /\ pc' = "done"
  /\ result' = r
  /\ UNCHANGED <<post, cur_kind, callee, visited, start>>

FollowAlias(fqn) ==
  /\ visited' = visited \cup {fqn}
  /\ callee' = fqn
  /\ UNCHANGED <<pc, result, post, cur_kind, start>>

\* Fault variant: no check for a recursive alias.
Revisits_unchecked(fqn) == FALSE

\* `!visited.insert(fqn)`: the alias was followed before.
Revisits(fqn) == fqn \in visited

\* Fault variant: the aliased name is looked up again in the module that
\* re-exports it instead of the module the alias names.
AliasTarget_same_module(m, fqn) == <<m, fqn[2]>>

\* current_callee becomes the aliased fully qualified name.
AliasTarget(m, fqn) == fqn

\* find: find_module_index, resolve_local_with_index, and the match on its
\* result; a found procedure is then given to get_mast_root by the caller
\* of find.
find_step ==
  LET m == callee[1]
      r == Defs[m][callee[2]]
  IN /\ pc = "find"
     /\ CASE m \notin Known -> FindDone(Fail("UndefinedModule"))
          [] r = LOCAL_PROC ->
               IF cur_kind = "SysCall" /\ Kernel # m
               THEN FindDone(Fail("InvalidSysCallTarget"))
               ELSE FindDone(Mast(callee, post))
          [] r \in Fqns /\ Revisits(AliasTarget(m, r)) -> FindDone(Fail("recursive alias"))
          [] r \in Fqns -> FollowAlias(AliasTarget(m, r))
          [] cur_kind = "SysCall" -> FindDone(Fail("undefined kernel procedure"))
          [] OTHER -> FindDone(Fail("undefined procedure"))
     /\ UNCHANGED <<pending, caller>>

Next ==
  \/ push_pending
  \/ resolve_target
  \/ find_step

\* find is a loop that never blocks, so once entered its iterations keep
\* being taken.
Spec == Init /\ [][Next]_vars /\ WF_vars(find_step)

-----------------------------------------------------------------------------
(* Properties.                                                              *)

Results ==
  [res : WithGid, gid : Fqns] \cup [res : {"Phantom"}, digest : Digests]
    \cup [res : {"error"}, why : STRING]

TypeOK ==
  /\ pending \subseteq Paths \ Graph
  /\ pc \in {"idle", "find", "done"}
  /\ caller \in [module : Paths \cup {NONE}, kind : Kinds]
  /\ cur_kind \in Kinds
  /\ visited \subseteq Fqns
  /\ callee \in Fqns \cup {NONE}
  /\ result \in Results \cup {NONE}

Definitions(f) == DefinitionsIn(Known, f)

\* The refinement mapping to Resolution: inside find a resolution is owed,
\* and what it may answer is read off the name find started from.
Owed == IF pc = "find" THEN AnswersIn(Known, start, post, caller.kind) ELSE {}

Abstract == INSTANCE Resolution WITH pc <- IF pc = "find" THEN "busy" ELSE pc, owed <- Owed

\* The resolver implements Resolution: every answer find gives, for any
\* caller, is the definition the re-export chain from the name it started
\* from reaches (an error exactly when it reaches none; aliases are never
\* mistaken for definitions, a chain is never cut short, the recursive-alias
\* check never rejects a chain that ends), every immediate answer is one a
\* call may give, and a resolution that enters find's loop is always given,
\* also when re-exports form a cycle.
ResolverImplementsResolution == Abstract!Spec

\* A syscall only ever resolves to a procedure of the kernel module: find
\* turns the syscall caller into an exec caller "until we have resolved the
\* procedure, then verify that it is in the kernel module".
SyscallResolvesInKernel ==
  (pc = "done" /\ caller.kind = "SysCall" /\ result.res \in WithGid) =>
    result.gid[1] = Kernel

=============================================================================
