----------------------------- MODULE ChipletsAux -----------------------------
(***************************************************************************)
(* The chiplets auxiliary columns of processor/src/chiplets/aux_trace:     *)
(* the bus column b_chip (requests the main trace makes of the chiplets,   *)
(* responses the chiplets table gives) and the virtual table column t_chip *)
(* (Merkle sibling table and kernel procedure table), built over the       *)
(* traces of the ChipletsExec executor.                                    *)
(*                                                                         *)
(* A random linear combination alpha_0 + sum alpha_i * v_i is kept as its  *)
(* coefficient vector (index -1 is the constant term).  A column is a      *)
(* running product of such factors, so it balances for every draw of the  *)
(* alphas exactly when its request and response factors are equal as      *)
(* multisets: the bags of factors are compared, not sampled products.     *)
(***************************************************************************)
EXTENDS ChipletsExec, SequencesExt

-----------------------------------------------------------------------------
(* Linear forms over the challenges alpha_0 .. alpha_15.                   *)

FormIdx == -1..15
Term(i, v) == [k \in FormIdx |-> IF k = i THEN v ELSE 0]
FAdd(f, g) == [k \in FormIdx |-> f[k] + g[k]]
FSub(f, g) == [k \in FormIdx |-> f[k] - g[k]]
FScale(f, v) == [k \in FormIdx |-> f[k] * v]
ONE_FORM == Term(-1, 1)

RECURSIVE FSum(_)
FSum(fs) == IF fs = <<>> THEN Term(-1, 0) ELSE FAdd(Head(fs), FSum(Tail(fs)))

\* build_value: alphas[lo..] paired with the elements in order.
build_value(lo, elems) == FSum([k \in 1..Sz(elems) |-> Term(lo + k - 1, elems[k - 1])])

\* alphas[lo..hi].iter().rev().enumerate(): element i meets alpha_{hi-1-i}.
RevValue(lo, hi, elems) == FSum([k \in 1..(hi - lo) |-> Term(hi - k, elems[k - 1])])

\* alpha_0 + alpha_1 * label + alpha_2 * addr
Header(label, addr) == FSum(<<Term(0, 1), Term(1, label), Term(2, addr)>>)

\* v * s + (1 - s) as a list of non-unit factors.
Gated(v, s) ==
  CASE s = 1 -> <<v>>
    [] s = 0 -> <<>>
    [] OTHER -> <<FAdd(FScale(v, s), Term(-1, 1 - s))>>

-----------------------------------------------------------------------------
(* Labels (miden_air) and helper functions.                                *)

LINEAR_HASH_LABEL == 3
MP_VERIFY_LABEL == 11
MR_UPDATE_OLD_LABEL == 7
MR_UPDATE_NEW_LABEL == 15
RETURN_HASH_LABEL == 1
RETURN_STATE_LABEL == 9
MEMORY_WRITE_LABEL == 4
MEMORY_READ_LABEL == 12
KERNEL_PROC_LABEL == 8
NUM_HEADER_ALPHAS == 4

get_op_label(s0, s1, s2, s3) == s3 * 8 + s2 * 4 + s1 * 2 + s0 + 1
addr_to_row_index(addr) == addr - 1
addr_to_hash_cycle(addr) == (addr - 1) % HASH_CYCLE_LEN

\* +16 on the first row of a hash cycle, +32 on the last.
TransitionLabel(label, first_cycle_row) == IF first_cycle_row THEN label + 16 ELSE label + 32

-----------------------------------------------------------------------------
(* MainTrace column accessors.                                             *)

get_op_code(r) == MainAt(r).op
addr(r) == MainAt(r).addr
decoder_hasher_state(r) == MainAt(r).hs
stack_element(i, r) == MainAt(r).stk[i]
helper_register(i, r) == MainAt(r).hlp[i]
ctx(r) == MainAt(r).ctx
clk(r) == MainAt(r).clk

chiplet_selector(k, r) == ChipletCell(k, r)
chiplet_hasher_state(r) == [k \in 0..11 |-> ChipletCell(4 + k, r)]
chiplet_node_index(r) == ChipletCell(16, r)
chiplet_bitwise(k, r) == ChipletCell(3 + k, r)
chiplet_memory(k, r) == ChipletCell(4 + k, r)
chiplet_kernel_addr(r) == ChipletCell(5, r)
chiplet_kernel_root(r) == [k \in 0..3 |-> ChipletCell(6 + k, r)]

HasherFlag(r, cycle_row, sel) ==
  /\ r % HASH_CYCLE_LEN = cycle_row
  /\ chiplet_selector(0, r) = 0
  /\ <<chiplet_selector(1, r), chiplet_selector(2, r), chiplet_selector(3, r)>> = sel

f_mv(r) == HasherFlag(r, 0, <<1, 1, 0>>)
f_mva(r) == HasherFlag(r, HASH_CYCLE_LEN - 1, <<1, 1, 0>>)
f_mu(r) == HasherFlag(r, 0, <<1, 1, 1>>)
f_mua(r) == HasherFlag(r, HASH_CYCLE_LEN - 1, <<1, 1, 1>>)

is_kernel_row(r) ==
  <<chiplet_selector(0, r), chiplet_selector(1, r), chiplet_selector(2, r),
    chiplet_selector(3, r)>> = <<1, 1, 1, 0>>
is_addr_change(r) == chiplet_kernel_addr(r) # chiplet_kernel_addr(r + 1)

-----------------------------------------------------------------------------
(* Requests the main trace makes of the chiplets.  Each builder returns    *)
(* the factors of its product.                                             *)

build_control_block_request(r, op_code) ==
  LET addr_nxt == addr(r + 1)
      first_cycle_row == addr_to_row_index(addr_nxt) % HASH_CYCLE_LEN = 0
  IN << FSum(<<Header(TransitionLabel(LINEAR_HASH_LABEL, first_cycle_row), addr_nxt),
               build_value(8, decoder_hasher_state(r)),
               Term(5, op_code)>>) >>

build_syscall_block_request(r, op_code) ==
  LET state == decoder_hasher_state(r)
  IN build_control_block_request(r, op_code)
     \o << FSum(<<Term(0, 1), Term(1, KERNEL_PROC_LABEL), Term(2, state[0]),
                  Term(3, state[1]), Term(4, state[2]), Term(5, state[3])>>) >>

build_span_block_request(r) ==
  LET addr_nxt == addr(r + 1)
      first_cycle_row == addr_to_row_index(addr_nxt) % HASH_CYCLE_LEN = 0
  IN << FAdd(Header(TransitionLabel(LINEAR_HASH_LABEL, first_cycle_row), addr_nxt),
             build_value(8, decoder_hasher_state(r))) >>

\* The rate before and after the absorption is read from the chiplet
\* hasher state of the two main trace rows before the RESPAN row.
build_respan_block_request(r) ==
  LET addr_nxt == addr(r + 1)
      first_cycle_row == addr_to_row_index(addr_nxt - 1) % HASH_CYCLE_LEN = 0
      state == Slice(chiplet_hasher_state(r - 2), CAPACITY_LEN, STATE_WIDTH)
      state_nxt == Slice(chiplet_hasher_state(r - 1), CAPACITY_LEN, STATE_WIDTH)
  IN << FSub(FSum(<<Header(TransitionLabel(LINEAR_HASH_LABEL, first_cycle_row), addr_nxt - 1),
                    Term(3, 0), build_value(8, state_nxt)>>),
             build_value(8, state)) >>

build_end_block_request(r) ==
  LET a == addr(r) + NUM_ROUNDS
      first_cycle_row == addr_to_row_index(a) % HASH_CYCLE_LEN = 0
  IN << FAdd(Header(TransitionLabel(RETURN_HASH_LABEL, first_cycle_row), a),
             build_value(8, Slice(decoder_hasher_state(r), 0, 4))) >>

\* Fault variant: the operands read in stack order, a from s0 and b from s1.
build_bitwise_request_swapped(r, is_xor) ==
  << FSum(<<Term(0, 1), Term(1, get_op_label(1, 0, is_xor, 0)),
            Term(2, stack_element(0, r)), Term(3, stack_element(1, r)),
            Term(4, stack_element(0, r + 1))>>) >>

build_bitwise_request(r, is_xor) ==
  << FSum(<<Term(0, 1), Term(1, get_op_label(1, 0, is_xor, 0)),
            Term(2, stack_element(1, r)), Term(3, stack_element(0, r)),
            Term(4, stack_element(0, r + 1))>>) >>

compute_memory_request(r, op_label, a, value) ==
  FSum(<<Term(0, 1), Term(1, op_label), Term(2, ctx(r)), Term(3, a), Term(4, clk(r)),
         build_value(5, value)>>)

build_mem_request_element(r, op_label) ==
  LET word == Vec(<<stack_element(0, r + 1), helper_register(2, r),
                    helper_register(1, r), helper_register(0, r)>>)
  IN << compute_memory_request(r, op_label, stack_element(0, r), word) >>

\* Fault variant: the word taken in stack order, element 0 from s0.
build_mem_request_word_unreversed(r, op_label) ==
  << compute_memory_request(r, op_label, stack_element(0, r),
                            [k \in 0..3 |-> stack_element(k, r + 1)]) >>

build_mem_request_word(r, op_label) ==
  LET word == Vec(<<stack_element(3, r + 1), stack_element(2, r + 1),
                    stack_element(1, r + 1), stack_element(0, r + 1)>>)
  IN << compute_memory_request(r, op_label, stack_element(0, r), word) >>

build_mstream_request(r) ==
  LET word1 == Vec(<<stack_element(7, r + 1), stack_element(6, r + 1),
                     stack_element(5, r + 1), stack_element(4, r + 1)>>)
      word2 == Vec(<<stack_element(3, r + 1), stack_element(2, r + 1),
                     stack_element(1, r + 1), stack_element(0, r + 1)>>)
      a == stack_element(12, r)
  IN << compute_memory_request(r, MEMORY_READ_LABEL, a, word1),
        compute_memory_request(r, MEMORY_READ_LABEL, a + 1, word2) >>

build_rcomb_base_request(r) ==
  LET h(i) == helper_register(i, r)
  IN << compute_memory_request(r, MEMORY_READ_LABEL, stack_element(13, r),
                               Vec(<<h(0), h(1), h(2), h(3)>>)),
        compute_memory_request(r, MEMORY_READ_LABEL, stack_element(14, r),
                               Vec(<<h(4), h(5), 0, 0>>)) >>

\* Top twelve stack elements at row r, s0 first.
StackTop(r, n) == [k \in 0..(n - 1) |-> stack_element(k, r)]
StackWord(r, lo) == [k \in 0..3 |-> stack_element(lo + k, r)]

build_hperm_request(r) ==
  LET helper_0 == helper_register(0, r)
      in_label == IF addr_to_hash_cycle(helper_0) = 0 THEN LINEAR_HASH_LABEL + 16
                  ELSE LINEAR_HASH_LABEL + 32
      out_label == IF addr_to_hash_cycle(helper_0 + 7) = 0 THEN RETURN_STATE_LABEL + 16
                   ELSE RETURN_STATE_LABEL + 32
  IN << FAdd(Header(in_label, helper_0), RevValue(4, 16, StackTop(r, 12))),
        FAdd(Header(out_label, helper_0 + 7), RevValue(4, 16, StackTop(r + 1, 12))) >>

\* Fault variant: the result address one row past the last path cycle.
build_mpverify_request_late(r) ==
  LET helper_0 == helper_register(0, r)
      s4 == stack_element(4, r)
      s5 == stack_element(5, r)
      in_label == IF addr_to_hash_cycle(helper_0) = 0 THEN MP_VERIFY_LABEL + 16
                  ELSE MP_VERIFY_LABEL + 32
      out_label == IF helper_0 % 8 = 0 THEN RETURN_HASH_LABEL + 16
                   ELSE RETURN_HASH_LABEL + 32
  IN << FSum(<<Header(in_label, helper_0), Term(3, s5), RevValue(8, 12, StackWord(r, 0))>>),
        FAdd(Header(out_label, helper_0 + s4 * 8), RevValue(8, 12, StackWord(r, 6))) >>

build_mpverify_request(r) ==
  LET helper_0 == helper_register(0, r)
      s4 == stack_element(4, r)
      s5 == stack_element(5, r)
      in_label == IF addr_to_hash_cycle(helper_0) = 0 THEN MP_VERIFY_LABEL + 16
                  ELSE MP_VERIFY_LABEL + 32
      out_label == IF helper_0 % 8 = 0 THEN RETURN_HASH_LABEL + 16
                   ELSE RETURN_HASH_LABEL + 32
  IN << FSum(<<Header(in_label, helper_0), Term(3, s5), RevValue(8, 12, StackWord(r, 0))>>),
        FAdd(Header(out_label, helper_0 + s4 * 8 - 1), RevValue(8, 12, StackWord(r, 6))) >>

build_mrupdate_request(r) ==
  LET helper_0 == helper_register(0, r)
      s4 == stack_element(4, r)
      s5 == stack_element(5, r)
      Label(base, a) == IF addr_to_hash_cycle(a) = 0 THEN base + 16 ELSE base + 32
      old_out == helper_0 + s4 * 8 - 1
      new_in == helper_0 + s4 * 8
      new_out == helper_0 + s4 * 16 - 1
  IN << FSum(<<Header(Label(MR_UPDATE_NEW_LABEL, new_in), new_in), Term(3, s5),
               RevValue(8, 12, StackWord(r, 10))>>),
        FSum(<<Header(Label(MR_UPDATE_OLD_LABEL, helper_0), helper_0), Term(3, s5),
               RevValue(8, 12, StackWord(r, 0))>>),
        FAdd(Header(Label(RETURN_HASH_LABEL, new_out), new_out),
             RevValue(8, 12, StackWord(r + 1, 0))),
        FAdd(Header(Label(RETURN_HASH_LABEL, old_out), old_out),
             RevValue(8, 12, StackWord(r, 6))) >>

get_requests_at(r) ==
  LET op == get_op_code(r)
  IN CASE op \in ControlOps -> build_control_block_request(r, OpCode[op])
       [] op = "SYSCALL" -> build_syscall_block_request(r, OpCode[op])
       [] op = "SPAN" -> build_span_block_request(r)
       [] op = "RESPAN" -> build_respan_block_request(r)
       [] op = "END" -> build_end_block_request(r)
       [] op = "U32AND" -> build_bitwise_request(r, 0)
       [] op = "U32XOR" -> build_bitwise_request(r, 1)
       [] op = "MLOADW" -> build_mem_request_word(r, MEMORY_READ_LABEL)
       [] op = "MSTOREW" -> build_mem_request_word(r, MEMORY_WRITE_LABEL)
       [] op = "MLOAD" -> build_mem_request_element(r, MEMORY_READ_LABEL)
       [] op = "MSTORE" -> build_mem_request_element(r, MEMORY_WRITE_LABEL)
       [] op = "MSTREAM" -> build_mstream_request(r)
       [] op = "RCOMBBASE" -> build_rcomb_base_request(r)
       [] op = "HPERM" -> build_hperm_request(r)
       [] op = "MPVERIFY" -> build_mpverify_request(r)
       [] op = "MRUPDATE" -> build_mrupdate_request(r)
       [] OTHER -> <<>>

-----------------------------------------------------------------------------
(* Responses of the chiplets table.                                        *)

build_hasher_chiplet_responses(r, selector1, selector2, selector3) ==
  LET selector0 == chiplet_selector(0, r)
      op_label == get_op_label(selector0, selector1, selector2, selector3)
      state == chiplet_hasher_state(r)
      node_index == chiplet_node_index(r)
      H(transition_label) == FSum(<<Term(0, 1), Term(1, transition_label),
                                    Term(2, r + 1), Term(3, node_index)>>)
      v_all(label) == FAdd(H(label), build_value(NUM_HEADER_ALPHAS, state))
      bit == node_index % 2
      left_word == build_value(8, Slice(state, 4, 8))
      right_word == build_value(8, Slice(state, 8, 12))
      state_nxt == chiplet_hasher_state(r + 1)
      v_abp(label) == FSub(FAdd(H(label), build_value(8, Slice(state_nxt, 4, 12))),
                           build_value(8, Slice(state, 4, 12)))
      sel == <<selector1, selector2, selector3>>
  IN CASE r % HASH_CYCLE_LEN = 0 /\ sel = <<1, 0, 0>> ->
            << v_all(op_label + 16) >>
       [] r % HASH_CYCLE_LEN = 0 /\ selector1 = 1 /\ ~(selector2 = 0 /\ selector3 = 0) ->
            << FAdd(H(op_label + 16),
                    FAdd(FScale(left_word, 1 - bit), FScale(right_word, bit))) >>
       [] r % HASH_CYCLE_LEN = HASH_CYCLE_LEN - 1 /\ sel = <<0, 0, 0>> ->
            << FAdd(H(op_label + 32), build_value(8, Slice(state, 4, 8))) >>
       [] r % HASH_CYCLE_LEN = HASH_CYCLE_LEN - 1 /\ sel = <<0, 0, 1>> ->
            << v_all(op_label + 32) >>
       [] r % HASH_CYCLE_LEN = HASH_CYCLE_LEN - 1 /\ sel = <<1, 0, 0>> ->
            << v_abp(op_label + 32) >>
       [] OTHER -> <<>>

build_bitwise_chiplet_responses(r, is_xor) ==
  IF r % BITWISE_OP_CYCLE_LEN = BITWISE_OP_CYCLE_LEN - 1
  THEN << FSum(<<Term(0, 1), Term(1, get_op_label(1, 0, is_xor, 0)),
                 Term(2, chiplet_bitwise(0, r)), Term(3, chiplet_bitwise(1, r)),
                 Term(4, chiplet_bitwise(11, r))>>) >>
  ELSE <<>>

build_memory_chiplet_responses(r, is_read) ==
  << FSum(<<Term(0, 1), Term(1, get_op_label(1, 1, 0, is_read)),
            Term(2, chiplet_memory(0, r)), Term(3, chiplet_memory(1, r)),
            Term(4, chiplet_memory(2, r)),
            build_value(5, [k \in 0..3 |-> chiplet_memory(3 + k, r)])>>) >>

KernelProcValue(label_term, root) ==
  FSum(<<Term(0, 1), label_term, Term(2, root[0]), Term(3, root[1]),
         Term(4, root[2]), Term(5, root[3])>>)

\* Fault variant: every kernel ROM row answers, accessed or not.
build_kernel_chiplet_responses_ungated(r, kernel_chiplet_selector) ==
  << KernelProcValue(Term(1, KERNEL_PROC_LABEL), chiplet_kernel_root(r)) >>

build_kernel_chiplet_responses(r, kernel_chiplet_selector) ==
  Gated(KernelProcValue(Term(1, KERNEL_PROC_LABEL), chiplet_kernel_root(r)),
        kernel_chiplet_selector)

build_kernel_procedure_table_responses(r) ==
  LET a == chiplet_kernel_addr(r)
  IN Gated(KernelProcValue(Term(1, a), chiplet_kernel_root(r)),
           chiplet_kernel_addr(r + 1) - a)

\* Response factors tagged with the table they answer: "bus" for chiplet
\* operations, "kernel" for the kernel procedure table.
Tag(t, fs) == [k \in 1..Len(fs) |-> [table |-> t, f |-> fs[k]]]

get_responses_at(r) ==
  LET selector(k) == chiplet_selector(k, r)
  IN CASE selector(0) = 0 ->
            Tag("bus", build_hasher_chiplet_responses(r, selector(1), selector(2), selector(3)))
       [] selector(1) = 0 -> Tag("bus", build_bitwise_chiplet_responses(r, selector(2)))
       [] selector(2) = 0 -> Tag("bus", build_memory_chiplet_responses(r, selector(3)))
       [] selector(3) = 0 ->
            Tag("bus", build_kernel_chiplet_responses(r, selector(4)))
            \o Tag("kernel", build_kernel_procedure_table_responses(r))
       [] OTHER -> <<>>

-----------------------------------------------------------------------------
(* The chiplets virtual table column t_chip.                               *)

\* The sibling of the node whose index is read at the flagged row: the
\* right half of the rate when the index is even, the left half otherwise.
SiblingEntry(r, index) ==
  LET state == chiplet_hasher_state(r)
  IN IF index % 2 = 0
     THEN FSum(<<Term(0, 1), Term(3, index), build_value(12, Slice(state, 8, 12))>>)
     ELSE FSum(<<Term(0, 1), Term(3, index), build_value(8, Slice(state, 4, 8))>>)

chiplets_vtable_add_sibling(r) ==
  LET mva == r > 0 /\ f_mva(r - 1)
  IN IF f_mv(r) \/ mva
     THEN << SiblingEntry(r, IF mva THEN chiplet_node_index(r - 1) ELSE chiplet_node_index(r)) >>
     ELSE <<>>

\* Fault variant: only the first row of an update cycle (f_mu) withdraws a
\* sibling; the absorption row after f_mua is missed.
chiplets_vtable_remove_sibling_first_row_only(r) ==
  IF f_mu(r) THEN << SiblingEntry(r, chiplet_node_index(r)) >> ELSE <<>>

chiplets_vtable_remove_sibling(r) ==
  LET mua == r > 0 /\ f_mua(r - 1)
  IN IF f_mu(r) \/ mua
     THEN << SiblingEntry(r, IF mua THEN chiplet_node_index(r - 1) ELSE chiplet_node_index(r)) >>
     ELSE <<>>

chiplets_kernel_table_include(r) ==
  IF is_kernel_row(r) /\ is_addr_change(r)
  THEN << FSum(<<Term(0, 1), Term(1, addr(r)), Term(2, chiplet_kernel_root(r)[0]),
                 Term(3, chiplet_kernel_root(r)[1]), Term(4, chiplet_kernel_root(r)[2]),
                 Term(5, chiplet_kernel_root(r)[3])>>) >>
  ELSE <<>>

-----------------------------------------------------------------------------
(* Column builders: the factors of rows 0 .. n-2, each row with row+1.     *)

Rows == 0..(TraceLen - 2)
Collect(F(_)) == FlattenSeq([i \in 1..Cardinality(Rows) |-> F(i - 1)])

b_chip_requests == Collect(get_requests_at)
b_chip_responses == Collect(get_responses_at)
t_chip_requests == Collect(chiplets_vtable_remove_sibling)
t_chip_sibling_responses == Collect(chiplets_vtable_add_sibling)
t_chip_kernel_responses == Collect(chiplets_kernel_table_include)

Spec == Init /\ [][exec_next]_exec_vars

-----------------------------------------------------------------------------
(* Properties of a finished execution.                                     *)

Halted == phase = "halted"
Forms(tagged, t) == [k \in 1..Len(SelectSeq(tagged, LAMBDA x : x.table = t)) |->
                       SelectSeq(tagged, LAMBDA x : x.table = t)[k].f]

\* Spec: for any correct execution b_chip ends at ONE.  Every request the
\* decoder, stack and operation rows make (control block hashing, RESPAN
\* absorption, END digests, bitwise, memory, HPERM, MPVERIFY, MRUPDATE,
\* SYSCALL kernel lookups) is answered by exactly one chiplet response and
\* every chiplet response answers one request: the two multisets of
\* factors are equal.  Breaks on any mismatch of label, cycle-row offset,
\* address arithmetic, alpha index or operand order between a request
\* builder and the chiplet row layout it relies on.
BusBalanced ==
  Halted => ToBag(b_chip_requests) = ToBag(Forms(b_chip_responses, "bus"))

\* The Merkle sibling table of t_chip balances: every sibling MRUPDATE
\* deposits while hashing the old path (f_mv, f_mva one row back) is
\* withdrawn while hashing the new path (f_mu, f_mua), with the same node
\* index, so a depth-d update adds and removes d entries.
SiblingTableBalanced ==
  Halted => ToBag(t_chip_requests) = ToBag(t_chip_sibling_responses)

RootOf(f) == <<f[2], f[3], f[4], f[5]>>
RootSeq(p) == <<ProcRoot(p)[0], ProcRoot(p)[1], ProcRoot(p)[2], ProcRoot(p)[3]>>

\* Spec: the kernel procedure table receives exactly one inclusion term
\* for each kernel procedure, however often the procedure was called (the
\* address-change rows of the kernel ROM segment).
KernelProcsIncludedOnce ==
  Halted =>
    \A p \in Kernel :
      Cardinality({k \in 1..Len(t_chip_kernel_responses) :
                     RootOf(t_chip_kernel_responses[k]) = RootSeq(p)}) = 1

=============================================================================
