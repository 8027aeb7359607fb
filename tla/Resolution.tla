----------------------------- MODULE Resolution -----------------------------
(***************************************************************************)
(* What NameResolver::resolve_target promises, stated without the find    *)
(* loop: a call either answers at once, or hands a fully qualified name    *)
(* and a result kind to a resolution that later answers atomically with   *)
(* the definition the re-export chain from that name reaches (for a      *)
(* syscall, only a definition of the kernel module), or with an error     *)
(* when the chain reaches none.  Which error is left open.  The           *)
(* resolver (NameResolver) implements it under a refinement mapping that  *)
(* hides find's cursor and visited set.                                     *)
(***************************************************************************)
EXTENDS ResolverTypes

VARIABLES
  pending,  \* paths of the modules pushed by push_pending
  pc,       \* "idle", "busy" (a resolution is owed) or "done"
  caller,   \* the CallerInfo of the current resolution
  owed,     \* the answers the owed resolution may give
  result    \* the ResolvedTarget or error returned

avars == <<pending, pc, caller, owed, result>>

Known == Graph \cup pending

\* What a target names for caller c: an immediate answer, or the procedure
\* to resolve through re-exports and the kind of result to build for it.
Denotation(c, t) ==
  LET loc == resolve_local(c, t.name)
  IN CASE t.tag = "MastRoot" -> [now |-> ByDigest(t.digest)]
       [] t.tag = "ProcedureName" /\ loc = LOCAL_PROC ->
            [fqn |-> <<LocalModule(c), t.name>>, kind |-> "Exact"]
       [] t.tag = "ProcedureName" /\ loc \in Fqns ->
            [fqn |-> <<LocalModule(c), t.name>>, kind |-> "Resolved"]
       [] t.tag = "ProcedureName" -> [now |-> Fail("undefined procedure")]
       [] t.tag = "ProcedurePath" /\ resolve_import(c, t.module) = NONE ->
            [now |-> Fail("UndefinedModule")]
       [] t.tag = "ProcedurePath" ->
            [fqn |-> <<resolve_import(c, t.module), t.name>>, kind |-> "Resolved"]
       [] t.tag = "AbsoluteProcedurePath" ->
            [fqn |-> <<t.path, t.name>>, kind |-> "Exact"]

Init ==
  /\ pending = {}
  /\ pc = "idle"
  /\ caller = [module |-> NONE, kind |-> "Exec"]
  /\ owed = {}
  /\ result = NONE

push_pending ==
  \E m \in Paths \ Known :
    /\ pc # "busy"
    /\ pending' = pending \cup {m}
    /\ pc' = "idle"
    /\ result' = NONE
    /\ UNCHANGED <<caller, owed>>

\* A call answers at once, or leaves a resolution owed.
call ==
  \E m \in Known, kind \in Kinds, t \in Targets :
    LET c == [module |-> m, kind |-> kind]
        d == Denotation(c, t)
    IN /\ pc # "busy"
       /\ caller' = c
       /\ IF "now" \in DOMAIN d
          THEN pc' = "done" /\ result' = d.now /\ owed' = {}
          ELSE \/ pc' = "done" /\ result' \in AnswersIn(Known, d.fqn, d.kind, kind) /\ owed' = {}
               \/ pc' = "busy" /\ result' = NONE /\ owed' = AnswersIn(Known, d.fqn, d.kind, kind)
       /\ UNCHANGED pending

\* The owed resolution answers.
answer ==
  /\ pc = "busy"
  /\ \E r \in owed : result' = r
  /\ pc' = "done"
  /\ owed' = {}
  /\ UNCHANGED <<pending, caller>>

Next == push_pending \/ call \/ answer

\* An owed resolution is eventually given.
Spec == Init /\ [][Next]_avars /\ WF_avars(answer)

=============================================================================
