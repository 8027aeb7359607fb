--------------------------- MODULE MCVerifyInvoke ---------------------------
(* Two procedures whose bodies invoke local, imported, missing, absolute   *)
(* and self targets with every invoke kind; the same import is used twice  *)
(* by one body and once by the other, and by an alias.                     *)
EXTENDS VerifyInvoke

Instr(op, t) == [op |-> op, target |-> t]
NoTarget == MastRoot("none")

MCProcs == {"main", "helper"}
MCBodies ==
  [p \in MCProcs |->
     IF p = "main"
     THEN << Instr("exec", ProcedureName("helper")),
             Instr("call", ProcedurePath("std", "foo")),
             Instr("syscall", ProcedureName("kfn")),
             Instr("exec", ProcedurePath("std", "foo")),
             Instr("caller", NoTarget) >>
     ELSE << Instr("exec", ProcedureName("helper")),
             Instr("syscall", ProcedurePath("std", "bar")),
             Instr("procref", ProcedurePath("nope", "x")),
             Instr("exec", ProcedureName("missing")),
             Instr("call", AbsoluteProcedurePath("lib", "f")) >>]
MCImportNames == {"std", "nope"}
MCImports == [m \in MCImportNames |-> IF m = "std" THEN "lib" ELSE NONE]
MCAliases == {"std", "other"}
=============================================================================
