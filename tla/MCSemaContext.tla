---------------------------- MODULE MCSemaContext ----------------------------
(* Instance of SemaContext: two constant names, three immediates (u8, u32  *)
(* and felt) and expressions that reach the u8 boundary, subtraction       *)
(* wrapping around the field, Felt division and integer division.          *)
EXTENDS SemaContext

MCNames == {"A", "B"}

MCExprs ==
  { Literal(255), Literal(0),
    BinaryOp("Add", Var("A"), Literal(1)),
    BinaryOp("Sub", Literal(1), Var("A")),
    BinaryOp("Div", Literal(1), Var("B")),
    BinaryOp("IntDiv", Literal(1), Var("B")) }

MCImmIds == {"i_u8", "i_u32", "i_felt"}

MCImmOf == [i \in MCImmIds |->
              CASE i = "i_u8" -> [type |-> "u8", ref |-> "B"]
                [] i = "i_u32" -> [type |-> "u32", ref |-> "A"]
                [] i = "i_felt" -> [type |-> "felt", ref |-> "A"]]
=============================================================================
