----------------------------- MODULE SemaContext -----------------------------
(***************************************************************************)
(* The semantic analysis context of one module                             *)
(* (assembly/src/sema/context.rs) and the constant evaluation pass over    *)
(* immediates (assembly/src/sema/passes/const_eval.rs).                    *)
(*                                                                         *)
(* The context keeps the module's constants, its procedure names and the  *)
(* diagnostics reported so far.  Field elements are integers modulo a     *)
(* small prime P that keeps the u8 boundary (P > 2^8); a diagnostic is its *)
(* kind, the name it is about, and a serial number that tells two reports  *)
(* apart.  The passes may call the context in any order.                   *)
(***************************************************************************)
EXTENDS Integers, Sequences, FiniteSets

CONSTANTS
  Names,       \* constant names the module defines or refers to
  Exprs,       \* constant expressions the module's definitions use
  ProcNames,   \* procedure names
  ImmIds,      \* immediates of instructions that the pass visits
  ImmOf,       \* ImmIds -> [type: ImmTypes, ref: Names]: the constant each names
  P,           \* the field modulus
  MaxDefines,  \* bound on define_constant calls
  MaxReports   \* bound on diagnostics other passes report

VARIABLES
  constants,          \* name -> value (the literal the constant was folded to)
  source,             \* name -> the expression the constant was defined by
  procedures,         \* registered procedure names
  errors,             \* pending diagnostics, in report order
  warnings_as_errors,
  imms,               \* immediate -> [const |-> name] or [value |-> v]
  visited,            \* immediates the visitor has been through
  delivered,          \* diagnostics returned inside a SyntaxError
  emitted,            \* warnings printed by into_result
  serial,             \* diagnostics reported so far
  defines,            \* define_constant calls so far
  status              \* "analyzing", "ok", "failed" or "panicked"

vars == <<constants, source, procedures, errors, warnings_as_errors, imms, visited,
          delivered, emitted, serial, defines, status>>

-----------------------------------------------------------------------------
(* Constant expressions and field arithmetic.                              *)

Ops == {"Add", "Sub", "Mul", "Div", "IntDiv"}
Literal(v) == [tag |-> "Literal", v |-> v]
Var(n) == [tag |-> "Var", name |-> n]
BinaryOp(op, lhs, rhs) == [tag |-> "BinaryOp", op |-> op, lhs |-> lhs, rhs |-> rhs]

\* Felt::inv maps ZERO to ZERO, so a Div by ZERO yields ZERO.
Inv(x) == IF x = 0 THEN 0 ELSE CHOOSE y \in 1..(P - 1) : (x * y) % P = 1

\* Immediate types, and the bit width of those T::try_from converts to.
ImmTypes == {"u8", "u16", "u32", "felt"}
Width == [u8 |-> 8, u16 |-> 16, u32 |-> 32]

\* v < 2^w, with 2^32 kept out of TLC's integers.
Below(w, v) == (v \div 2^(w \div 2)) \div 2^(w - w \div 2) = 0

\* Kinds of SemanticAnalysisError that other passes report; the variants
\* of Warning severity are UnusedImport, UnusedDocstring and ImportDocstring.
Kinds == {"SymbolUndefined", "UnusedImport", "MissingImport"}
Warnings == {"UnusedImport", "UnusedDocstring", "ImportDocstring"}
Diag(kind, name) == [kind |-> kind, name |-> name, id |-> serial]

-----------------------------------------------------------------------------
(* AnalysisContext::get_constant and const_eval.  A result is ok with a    *)
(* value, an error with its diagnostic (numbered `id`), or a panic.         *)

Ok(v) == [res |-> "ok", v |-> v]
Err(kind, name) == [res |-> "err", kind |-> kind, name |-> name]
PANIC == [res |-> "panic"]

get_constant(n) ==
  IF n \in DOMAIN constants THEN Ok(constants[n]) ELSE Err("SymbolUndefined", n)

\* Fault variant: integer arithmetic that is not reduced modulo P.
Apply_unreduced(op, lhs, rhs) ==
  CASE op = "Add" -> Ok(lhs + rhs)
    [] op = "Sub" -> Ok(lhs - rhs)
    [] op = "Mul" -> Ok(lhs * rhs)
    [] op = "Div" -> Ok((lhs * Inv(rhs)) % P)
    [] op = "IntDiv" -> IF rhs = 0 THEN PANIC ELSE Ok(lhs \div rhs)

\* Felt arithmetic wraps modulo P; IntDiv divides the canonical integers
\* (u64 division, which panics on a zero divisor).
Apply(op, lhs, rhs) ==
  CASE op = "Add" -> Ok((lhs + rhs) % P)
    [] op = "Sub" -> Ok((lhs - rhs) % P)
    [] op = "Mul" -> Ok((lhs * rhs) % P)
    [] op = "Div" -> Ok((lhs * Inv(rhs)) % P)
    [] op = "IntDiv" -> IF rhs = 0 THEN PANIC ELSE Ok(lhs \div rhs)

\* Fault variant: the operands of a binary operation taken the other way
\* round (the code evaluates rhs before lhs).
const_eval_swapped(e) ==
  LET RECURSIVE Ev(_)
      Ev(x) ==
        CASE x.tag = "Literal" -> Ok(x.v)
          [] x.tag = "Var" -> get_constant(x.name)
          [] OTHER ->
               LET r == Ev(x.rhs)
                   l == Ev(x.lhs)
               IN IF r.res # "ok" THEN r ELSE IF l.res # "ok" THEN l
                  ELSE Apply(x.op, r.v, l.v)
  IN Ev(e)

\* The right operand is evaluated first, so its error is the one returned.
const_eval(e) ==
  LET RECURSIVE Ev(_)
      Ev(x) ==
        CASE x.tag = "Literal" -> Ok(x.v)
          [] x.tag = "Var" -> get_constant(x.name)
          [] OTHER ->
               LET r == Ev(x.rhs)
                   l == Ev(x.lhs)
               IN IF r.res # "ok" THEN r ELSE IF l.res # "ok" THEN l
                  ELSE Apply(x.op, l.v, r.v)
  IN Ev(e)

has_errors(wae) ==
  IF wae THEN errors # <<>>
  ELSE \E i \in 1..Len(errors) : errors[i].kind \notin Warnings

-----------------------------------------------------------------------------
(* Operations of the context.                                               *)

Init ==
  /\ constants = [n \in {} |-> 0]
  /\ source = [n \in {} |-> Literal(0)]
  /\ procedures = {}
  /\ errors = <<>>
  /\ warnings_as_errors = FALSE
  /\ imms = [i \in ImmIds |-> [const |-> ImmOf[i].ref]]
  /\ visited = {}
  /\ delivered = <<>>
  /\ emitted = <<>>
  /\ serial = 0
  /\ defines = 0
  /\ status = "analyzing"

Analyzing == status = "analyzing"

set_warnings_as_errors ==
  \E yes \in BOOLEAN :
    /\ Analyzing
    /\ warnings_as_errors' = yes
    /\ UNCHANGED <<constants, source, procedures, errors, imms, visited, delivered,
                   emitted, serial, defines, status>>

register_procedure_name ==
  \E p \in ProcNames :
    /\ Analyzing
    /\ procedures' = procedures \cup {p}
    /\ UNCHANGED <<constants, source, errors, warnings_as_errors, imms, visited,
                   delivered, emitted, serial, defines, status>>

\* Fault variant: the error result carries only the evaluation error; the
\* diagnostics pending before it are dropped.
BindConstant_drop_pending(name, e) ==
  LET r == const_eval(e)
  IN CASE r.res = "ok" ->
            /\ constants' = [n \in DOMAIN constants \cup {name} |->
                               IF n = name THEN r.v ELSE constants[n]]
            /\ source' = [n \in DOMAIN source \cup {name} |->
                            IF n = name THEN e ELSE source[n]]
            /\ UNCHANGED <<errors, delivered, serial, status>>
       [] r.res = "err" ->
            /\ delivered' = delivered \o <<Diag(r.kind, r.name)>>
            /\ errors' = <<>>
            /\ serial' = serial + 1
            /\ status' = "failed"
            /\ UNCHANGED <<constants, source>>
       [] r.res = "panic" ->
            /\ status' = "panicked"
            /\ UNCHANGED <<constants, source, errors, delivered, serial>>

\* The folding half of define_constant: the folded value is bound, or the
\* evaluation error is pushed and every pending diagnostic is taken into
\* the returned SyntaxError, which the caller propagates.  IntDiv by ZERO
\* panics.
BindConstant(name, e) ==
  LET r == const_eval(e)
  IN CASE r.res = "ok" ->
            /\ constants' = [n \in DOMAIN constants \cup {name} |->
                               IF n = name THEN r.v ELSE constants[n]]
            /\ source' = [n \in DOMAIN source \cup {name} |->
                            IF n = name THEN e ELSE source[n]]
            /\ UNCHANGED <<errors, delivered, serial, status>>
       [] r.res = "err" ->
            /\ delivered' = delivered \o errors \o <<Diag(r.kind, r.name)>>
            /\ errors' = <<>>
            /\ serial' = serial + 1
            /\ status' = "failed"
            /\ UNCHANGED <<constants, source>>
       [] r.res = "panic" ->
            /\ status' = "panicked"
            /\ UNCHANGED <<constants, source, errors, delivered, serial>>

DefineStep ==
  /\ Analyzing
  /\ defines < MaxDefines
  /\ defines' = defines + 1

\* define_constant: a name defined before is a SymbolConflict, reported
\* with Ok returned, before the expression is evaluated.
define_constant ==
  \E name \in Names, e \in Exprs :
    /\ DefineStep
    /\ IF name \in DOMAIN constants
       THEN /\ errors' = Append(errors, Diag("SymbolConflict", name))
            /\ serial' = serial + 1
            /\ UNCHANGED <<constants, source, delivered, status>>
       ELSE BindConstant(name, e)
    /\ UNCHANGED <<procedures, warnings_as_errors, imms, visited, emitted>>

\* AnalysisContext::error, called by the other analysis passes.
error ==
  \E kind \in Kinds, name \in Names :
    /\ Analyzing
    /\ serial < MaxReports
    /\ errors' = Append(errors, Diag(kind, name))
    /\ serial' = serial + 1
    /\ UNCHANGED <<constants, source, procedures, warnings_as_errors, imms, visited,
                   delivered, emitted, defines, status>>

\* ConstEvalVisitor::eval_const (u8, u16, u32, error code) and
\* visit_mut_immediate_felt: a constant immediate is replaced by the
\* constant's value when it fits the immediate's type; otherwise the
\* diagnostic is reported and the immediate is left as it was.
\* Felt immediates take the field element as it is.
Fits(t, v) == t = "felt" \/ Below(Width[t], v)

eval_const ==
  \E i \in ImmIds \ visited :
    LET r == get_constant(ImmOf[i].ref)
    IN /\ Analyzing
       /\ visited' = visited \cup {i}
       /\ CASE r.res = "ok" /\ Fits(ImmOf[i].type, r.v) ->
                /\ imms' = [imms EXCEPT ![i] = [value |-> r.v]]
                /\ UNCHANGED <<errors, serial>>
            [] r.res = "ok" ->
                /\ errors' = Append(errors, Diag("ImmediateOverflow", ImmOf[i].ref))
                /\ serial' = serial + 1
                /\ UNCHANGED imms
            [] OTHER ->
                /\ errors' = Append(errors, Diag(r.kind, r.name))
                /\ serial' = serial + 1
                /\ UNCHANGED imms
       /\ UNCHANGED <<constants, source, procedures, warnings_as_errors, delivered,
                      emitted, defines, status>>

\* has_failed: with errors, all pending diagnostics go into the returned
\* SyntaxError, which the caller propagates; otherwise Ok.
has_failed ==
  /\ Analyzing
  /\ IF has_errors(warnings_as_errors)
     THEN /\ delivered' = delivered \o errors
          /\ errors' = <<>>
          /\ status' = "failed"
     ELSE UNCHANGED <<delivered, errors, status>>
  /\ UNCHANGED <<constants, source, procedures, warnings_as_errors, imms, visited,
                 emitted, serial, defines>>

\* into_result consumes the context: an error result carries every pending
\* diagnostic; an Ok result prints the pending warnings.
into_result ==
  /\ Analyzing
  /\ IF has_errors(warnings_as_errors)
     THEN /\ delivered' = delivered \o errors
          /\ status' = "failed"
          /\ UNCHANGED emitted
     ELSE /\ emitted' = errors
          /\ status' = "ok"
          /\ UNCHANGED delivered
  /\ errors' = <<>>
  /\ UNCHANGED <<constants, source, procedures, warnings_as_errors, imms, visited,
                 serial, defines>>

Next ==
  \/ set_warnings_as_errors
  \/ register_procedure_name
  \/ define_constant
  \/ error
  \/ eval_const
  \/ has_failed
  \/ into_result

Spec == Init /\ [][Next]_vars

-----------------------------------------------------------------------------
(* Properties.                                                              *)

Diagnostic == [kind : Kinds \cup {"SymbolConflict", "ImmediateOverflow"},
               name : Names, id : Nat]

TypeOK ==
  /\ DOMAIN constants = DOMAIN source
  /\ \A n \in DOMAIN constants : constants[n] \in 0..(P - 1)
  /\ procedures \subseteq ProcNames
  /\ \A d \in {errors, delivered, emitted} : d \in Seq(Diagnostic)
  /\ warnings_as_errors \in BOOLEAN
  /\ visited \subseteq ImmIds
  /\ serial \in Nat /\ defines \in 0..MaxDefines
  /\ status \in {"analyzing", "ok", "failed", "panicked"}

\* The value of a constant expression in ordinary arithmetic notation,
\* with every name it uses already bound.
RECURSIVE RefValue(_)
RefValue(x) ==
  CASE x.tag = "Literal" -> x.v
    [] x.tag = "Var" -> constants[x.name]
    [] x.op = "Add" -> (RefValue(x.lhs) + RefValue(x.rhs)) % P
    [] x.op = "Sub" -> (RefValue(x.lhs) - RefValue(x.rhs)) % P
    [] x.op = "Mul" -> (RefValue(x.lhs) * RefValue(x.rhs)) % P
    [] x.op = "Div" -> (RefValue(x.lhs) * Inv(RefValue(x.rhs))) % P
    [] x.op = "IntDiv" -> RefValue(x.lhs) \div RefValue(x.rhs)

\* define_constant folds a constant to the value its expression denotes,
\* each binary operation applied as lhs op rhs although const_eval
\* evaluates rhs first.
ConstantValuesCorrect ==
  \A n \in DOMAIN constants : constants[n] = RefValue(source[n])

\* Every diagnostic reported through error, define_constant or the
\* visitor reaches the user exactly once: it is pending, returned in a
\* SyntaxError (define_constant, has_failed, into_result) or printed as a
\* warning, never dropped by mem::take and never handed out twice.
AllDiagnostics == errors \o delivered \o emitted

DiagnosticsDeliveredOnce ==
  /\ Len(AllDiagnostics) = serial
  /\ {AllDiagnostics[k].id : k \in 1..Len(AllDiagnostics)} = 0..(serial - 1)

\* Constant evaluation reports its failures as diagnostics: define_constant
\* returns a SyntaxError, it does not panic.
NoPanic == status # "panicked"

=============================================================================
