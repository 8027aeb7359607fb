---------------------------- MODULE ResolverTypes ----------------------------
(***************************************************************************)
(* The constants of the assembler's NameResolver                           *)
(* (assembly/src/assembler/module_graph/name_resolver.rs) and what depends *)
(* on them alone: invocation targets, resolved targets, the lookups that  *)
(* read only the graph, and the procedures a re-export chain reaches.      *)
(* Shared by the resolver (NameResolver) and the specification of what it *)
(* promises (Resolution).                                                  *)
(***************************************************************************)
EXTENDS FiniteSets

CONSTANTS
  Paths,        \* library paths of modules
  ProcNames,    \* procedure names
  ImportNames,  \* the identifiers a module imports other modules as
  Digests,      \* MAST roots a target may name
  Graph,        \* modules already in the ModuleGraph
  Kernel,       \* graph.kernel_index: a module of Graph, or NONE
  Defs,         \* Paths -> ProcNames -> LOCAL_PROC, NONE, or an aliased <<path, name>>
  Imports,      \* Paths -> ImportNames -> a path or NONE
  MastRoots,    \* procedures whose MAST root the graph has (get_mast_root)
  DigestIndex,  \* Digests -> a procedure or NONE (get_procedure_index_by_digest)
  Targets,      \* invocation targets callers resolve
  CallerKinds,  \* the InvokeKinds of the CallerInfo callers pass
  NONE, LOCAL_PROC

Fqns == Paths \X ProcNames
Kinds == {"Exec", "Call", "SysCall"}

MastRoot(d) == [tag |-> "MastRoot", digest |-> d]
ProcedureName(n) == [tag |-> "ProcedureName", name |-> n]
ProcedurePath(m, n) == [tag |-> "ProcedurePath", module |-> m, name |-> n]
AbsoluteProcedurePath(p, n) == [tag |-> "AbsoluteProcedurePath", path |-> p, name |-> n]

Cached(gid) == [res |-> "Cached", gid |-> gid]
Exact(gid) == [res |-> "Exact", gid |-> gid]
Resolved(gid) == [res |-> "Resolved", gid |-> gid]
Phantom(d) == [res |-> "Phantom", digest |-> d]
Fail(why) == [res |-> "error", why |-> why]
WithGid == {"Cached", "Exact", "Resolved"}

\* The match on get_mast_root after a procedure is found.
Mast(gid, kind) == IF gid \in MastRoots THEN Cached(gid) ELSE [res |-> kind, gid |-> gid]

\* resolve_local: local names of a syscall resolve in the kernel module.
LocalModule(c) == IF c.kind = "SysCall" THEN Kernel ELSE c.module

resolve_local(c, n) == IF LocalModule(c) = NONE THEN NONE ELSE Defs[LocalModule(c)][n]

\* resolve_import: the path the caller's module imports under `name`, read
\* from the pending module's resolver or the graph's, or NONE.
resolve_import(c, name) == Imports[c.module][name]

\* Fault variant: the two arms of the digest lookup exchanged.
ByDigest_swapped(d) == IF DigestIndex[d] = NONE THEN Exact(DigestIndex[d]) ELSE Phantom(d)

\* The MastRoot arm of resolve_target.
ByDigest(d) == IF DigestIndex[d] = NONE THEN Phantom(d) ELSE Exact(DigestIndex[d])

\* The procedures reachable from the set S by following re-exports through
\* the modules of known, S included.
RECURSIVE AliasClosure(_, _)
AliasClosure(known, S) ==
  LET next == {Defs[g[1]][g[2]] : g \in {h \in S : h[1] \in known /\ Defs[h[1]][h[2]] \in Fqns}}
  IN IF next \subseteq S THEN S ELSE AliasClosure(known, S \cup next)

\* The definitions a re-export chain from f ends at.
DefinitionsIn(known, f) ==
  {g \in AliasClosure(known, {f}) : g[1] \in known /\ Defs[g[1]][g[2]] = LOCAL_PROC}

\* The errors find can return for an exec or call caller.
FindErrors == {"UndefinedModule", "recursive alias", "undefined procedure"}

\* What find promises a caller of kind ck, resolving the procedure f
\* through its re-exports, with kind the result built when no MAST root is
\* cached: the definition the chain reaches, which for a syscall must be
\* in the kernel module ("then verify that it is in the kernel module"),
\* or an error.
AnswersIn(known, f, kind, ck) ==
  LET defs == {g \in DefinitionsIn(known, f) : ck = "SysCall" => g[1] = Kernel}
      errs == IF ck = "SysCall"
              THEN FindErrors \cup {"InvalidSysCallTarget", "undefined kernel procedure"}
              ELSE FindErrors
  IN IF defs = {} THEN {Fail(w) : w \in errs} ELSE {Mast(g, kind) : g \in defs}

=============================================================================
