---------------------------- MODULE ChipletsExec ----------------------------
(***************************************************************************)
(* The program executor as the chiplet bus sees it: the rows it writes to  *)
(* the main trace (decoder address and hasher state, stack, helper         *)
(* registers, clock) and the rows the chiplets it calls through the        *)
(* Chiplets API append to their sub-traces, stacked into the chiplets      *)
(* table exactly as Chiplets::fill_trace lays them out.                    *)
(*                                                                         *)
(* The decoder, the stack, the hasher, bitwise, memory and kernel ROM      *)
(* chiplets are not in this repository's sources; their trace shapes are  *)
(* modelled from the chiplet specification.  Field elements are small      *)
(* integers, the hash permutation is an arbitrary fixed function, and a    *)
(* word or a state is a function from 0-based positions to elements, as    *)
(* the Rust slices index them.                                             *)
(***************************************************************************)
EXTENDS Integers, Sequences, FiniteSets, Bitwise

CONSTANTS
  Ops,            \* chiplet-using operations the programs may contain
  Kernel,         \* digests (integers) of the kernel procedures
  Procs,          \* digests a SYSCALL may name, Kernel \subseteq Procs
  MaxRows,        \* bound on the main trace rows before HALT
  MaxNesting,     \* bound on nested control blocks
  MaxSpanBatches, \* most operation batches in a basic block
  MaxDepth,       \* longest Merkle path
  U32Vals,        \* operands of u32and/u32xor
  MemAddrs,       \* memory addresses the programs touch
  Vals            \* element values the programs store and hash

ASSUME Kernel \subseteq Procs /\ Procs \subseteq Nat
ASSUME MaxDepth \in Nat \ {0} /\ MaxSpanBatches \in Nat \ {0}

VARIABLES
  main,     \* main trace rows written so far
  hcycles,  \* hasher trace, one record per 8-row permutation cycle
  bops,     \* bitwise trace, one record per 8-row operation cycle
  mrows,    \* memory trace rows, one per access
  mem,      \* memory contents: address -> word
  access,   \* kernel ROM access counts: digest -> accesses
  blocks,   \* decoder block stack
  phase     \* "running", "halted" or "failed"

exec_vars == <<main, hcycles, bops, mrows, mem, access, blocks, phase>>

-----------------------------------------------------------------------------
(* Words, states and the permutation.                                      *)

Sz(f) == Cardinality(DOMAIN f)
Vec(s) == [k \in 0..(Len(s) - 1) |-> s[k + 1]]
ZeroVec(n) == [k \in 0..(n - 1) |-> 0]
Cat(f, g) == [k \in 0..(Sz(f) + Sz(g) - 1) |->
                IF k < Sz(f) THEN f[k] ELSE g[k - Sz(f)]]
Slice(f, from, to) == [k \in 0..(to - from - 1) |-> f[from + k]]

STATE_WIDTH == 12
CAPACITY_LEN == 4
HASH_CYCLE_LEN == 8
NUM_ROUNDS == 7
BITWISE_OP_CYCLE_LEN == 8

\* Stand-in for the RPO permutation and its intermediate round states.
Perm(st) == [k \in 0..11 |-> (st[k] + 2 * st[(k + 1) % 12] + 3 * st[(k + 7) % 12] + k + 1) % 13]
RoundState(st, i) == [k \in 0..11 |-> (st[k] + i * (k + 2)) % 13]
DigestOf(st) == Slice(st, 4, 8)

-----------------------------------------------------------------------------
(* Hasher trace.  A cycle is written as its first row (selectors, state,   *)
(* node index), six round rows and a last row; round rows carry the        *)
(* selectors <<0, s1, s2>> of the first row and the shifted node index.    *)

LINEAR_HASH  == <<1, 0, 0>>
MP_VERIFY    == <<1, 0, 1>>
MR_UPDATE_OLD == <<1, 1, 0>>
MR_UPDATE_NEW == <<1, 1, 1>>
RETURN_HASH  == <<0, 0, 0>>
RETURN_STATE == <<0, 0, 1>>
Continue(sel) == <<0, sel[2], sel[3]>>

Cycle(sel0, selN, st, idx0, idxN) ==
  [sel0 |-> sel0, selN |-> selN, state |-> st, idx0 |-> idx0, idxN |-> idxN]

\* The hasher row at offset i of a cycle: selectors, state, node index.
CycleRow(cy, i) ==
  CASE i = 0 -> [sel |-> cy.sel0, state |-> cy.state, idx |-> cy.idx0]
    [] i = HASH_CYCLE_LEN - 1 ->
         [sel |-> cy.selN, state |-> Perm(cy.state), idx |-> cy.idxN]
    [] OTHER -> [sel |-> Continue(cy.sel0), state |-> RoundState(cy.state, i),
                 idx |-> cy.idxN]

\* Hasher address of the next operation: its first row index plus one.
NextHasherAddr == HASH_CYCLE_LEN * Len(hcycles) + 1

ControlCycles(h1, h2, domain) ==
  <<Cycle(LINEAR_HASH, RETURN_HASH, Cat(Vec(<<0, domain, 0, 0>>), Cat(h1, h2)), 0, 0)>>

PermuteCycles(st) == <<Cycle(LINEAR_HASH, RETURN_STATE, st, 0, 0)>>

\* Sequential hash of a basic block: batch j is absorbed into the rate at
\* the boundary between cycles j-1 and j (last row selectors f_abp).
RECURSIVE SpanCyclesFrom(_, _, _)
SpanCyclesFrom(batches, j, st) ==
  LET cy == Cycle(IF j = 1 THEN LINEAR_HASH ELSE Continue(LINEAR_HASH),
                  IF j = Len(batches) THEN RETURN_HASH ELSE LINEAR_HASH,
                  st, 0, 0)
  IN IF j = Len(batches) THEN <<cy>>
     ELSE <<cy>> \o SpanCyclesFrom(batches, j + 1,
                      Cat(Slice(Perm(st), 0, CAPACITY_LEN), batches[j + 1]))

SpanCycles(batches) == SpanCyclesFrom(batches, 1, Cat(ZeroVec(4), batches[1]))
LastDigest(cycles) == DigestOf(Perm(cycles[Len(cycles)].state))

\* Merkle path: node and sibling ordered by the index bit of the level.
RECURSIVE MerkleCyclesFrom(_, _, _, _, _)
MerkleCyclesFrom(node, path, index, sel, j) ==
  LET bit == (index \div 2^(j - 1)) % 2
      st == Cat(ZeroVec(4), IF bit = 0 THEN Cat(node, path[j]) ELSE Cat(path[j], node))
      cy == Cycle(IF j = 1 THEN sel ELSE Continue(sel),
                  IF j = Len(path) THEN RETURN_HASH ELSE sel,
                  st, index \div 2^(j - 1), index \div 2^j)
  IN IF j = Len(path) THEN <<cy>>
     ELSE <<cy>> \o MerkleCyclesFrom(DigestOf(Perm(st)), path, index, sel, j + 1)

MerkleCycles(value, path, index, sel) == MerkleCyclesFrom(value, path, index, sel, 1)

\* The sibling at level j of every Merkle path the advice provider returns.
Sibling(j) == Vec(<<j + 5, j, 0, 1>>)
MerklePath(depth) == [j \in 1..depth |-> Sibling(j)]

-----------------------------------------------------------------------------
(* Bitwise, memory and kernel ROM traces.                                  *)

\* Row i of a bitwise cycle holds the operands and the result shifted right
\* by 4 * (7 - i) bits, the nibble bits of the operands, and the previous z.
BitwiseRow(op, i) ==
  LET sh == 16^(BITWISE_OP_CYCLE_LEN - 1 - i)
      a == op.a \div sh
      b == op.b \div sh
      Bits(x) == [k \in 0..3 |-> ((x % 16) \div 2^k) % 2]
  IN Cat(Cat(Vec(<<op.is_xor, a, b>>), Cat(Bits(a), Bits(b))),
         Vec(<<op.z \div (sh * 16), op.z \div sh>>))

ProcRoot(p) == Vec(<<p, p + 1, 0, 0>>)
KernelIndex(p) == Cardinality({q \in Kernel : q < p})
KernelProc(i) == CHOOSE p \in Kernel : KernelIndex(p) = i

\* KernelRom::fill_trace: every kernel procedure in digest order gets one
\* row per access and at least one row; s is 1 on the rows of an accessed
\* procedure.
RECURSIVE KernelRowsFrom(_)
KernelRowsFrom(i) ==
  IF i = Cardinality(Kernel) THEN <<>>
  ELSE LET p == KernelProc(i)
           row == [s |-> IF access[p] > 0 THEN 1 ELSE 0, addr |-> i, root |-> ProcRoot(p)]
       IN [k \in 1..(IF access[p] > 1 THEN access[p] ELSE 1) |-> row]
          \o KernelRowsFrom(i + 1)

KernelRows == KernelRowsFrom(0)

-----------------------------------------------------------------------------
(* The chiplets table, laid out as Chiplets::fill_trace does it (the       *)
(* layout the Chiplets module checks): a unary selector prefix, then the   *)
(* chiplet's own columns, zeros elsewhere.                                 *)

hasher_len == HASH_CYCLE_LEN * Len(hcycles)
bitwise_len == BITWISE_OP_CYCLE_LEN * Len(bops)
memory_len == Len(mrows)
kernel_rom_len == Len(KernelRows)
bitwise_start == hasher_len
memory_start == bitwise_start + bitwise_len
kernel_rom_start == memory_start + memory_len
padding_start == kernel_rom_start + kernel_rom_len
chiplets_trace_len == padding_start + 1

HasherInternal(lr, j) ==
  LET row == CycleRow(hcycles[lr \div HASH_CYCLE_LEN + 1], lr % HASH_CYCLE_LEN)
  IN CASE j < 3 -> row.sel[j + 1]
       [] j < 15 -> row.state[j - 3]
       [] OTHER -> row.idx

MemoryInternal(lr, j) ==
  LET m == mrows[lr + 1]
  IN CASE j = 0 -> m.is_read
       [] j = 1 -> m.ctx
       [] j = 2 -> m.addr
       [] j = 3 -> m.clk
       [] j \in 4..7 -> m.word[j - 4]
       [] OTHER -> 0

KernelInternal(lr, j) ==
  LET k == KernelRows[lr + 1]
  IN CASE j = 0 -> k.s [] j = 1 -> k.addr [] OTHER -> k.root[j - 2]

\* Value of column c at row r of the chiplets table.
ChipletCell(c, r) ==
  LET Seg(ones, width, start, Internal(_, _)) ==
        IF c < ones THEN 1
        ELSE IF c > ones /\ c <= ones + width THEN Internal(r - start, c - ones - 1)
        ELSE 0
      Bw(lr, j) == BitwiseRow(bops[lr \div BITWISE_OP_CYCLE_LEN + 1],
                              lr % BITWISE_OP_CYCLE_LEN)[j]
  IN CASE r < bitwise_start -> Seg(0, 16, 0, HasherInternal)
       [] r < memory_start -> Seg(1, 13, bitwise_start, Bw)
       [] r < kernel_rom_start -> Seg(2, 15, memory_start, MemoryInternal)
       [] r < padding_start -> Seg(3, 6, kernel_rom_start, KernelInternal)
       [] OTHER -> IF c <= 3 THEN 1 ELSE 0

-----------------------------------------------------------------------------
(* Main trace rows.  The clock column is the row index; every context is   *)
(* the root context.                                                       *)

\* Operation codes; only their distinctness matters to the bus.
OpCode == [JOIN |-> 1, SPLIT |-> 2, LOOP |-> 3, DYN |-> 4, CALL |-> 5, SYSCALL |-> 6]
ControlOps == {"JOIN", "SPLIT", "LOOP", "DYN", "CALL"}

MainRow(op, addr, hs, stk, hlp, clk) ==
  [op |-> op, addr |-> addr, hs |-> hs, stk |-> stk, hlp |-> hlp, ctx |-> 0, clk |-> clk]

Stack(s) == [k \in 0..15 |-> IF k < Len(s) THEN s[k + 1] ELSE 0]
Helpers(s) == [k \in 0..5 |-> IF k < Len(s) THEN s[k + 1] ELSE 0]
Rev4(w) == <<w[3], w[2], w[1], w[0]>>

Top == blocks[Len(blocks)]
CurAddr == IF blocks = <<>> THEN 0 ELSE Top.addr
InSpan == blocks # <<>> /\ Top.kind = "span"

\* Main trace rows at and beyond the HALT row repeat it.
MainAt(r) == IF r < Len(main) THEN main[r + 1] ELSE main[Len(main)]

\* Length of the common trace: room for the main trace and the chiplets.
TraceLen == IF Len(main) > chiplets_trace_len THEN Len(main) ELSE chiplets_trace_len

MemDomain == MemAddrs \cup {a + 1 : a \in MemAddrs}
Words == {Vec(<<v, v + 1, v + 2, v + 3>>) : v \in Vals}

-----------------------------------------------------------------------------
(* Executor steps.                                                         *)

Init ==
  /\ main = <<>>
  /\ hcycles = <<>>
  /\ bops = <<>>
  /\ mrows = <<>>
  /\ mem = [a \in MemDomain |-> ZeroVec(4)]
  /\ access = [p \in Procs |-> 0]
  /\ blocks = <<>>
  /\ phase = "running"

CanStartBlock(rows) ==
  /\ phase = "running"
  /\ ~InSpan
  /\ Len(blocks) < MaxNesting
  /\ blocks = <<>> => main = <<>>
  /\ Len(main) + rows <= MaxRows

\* Decoding a control block: the decoder hashes the block through
\* hash_control_block and the next row runs inside it.
StartBlock(op, h1, h2) ==
  LET cycles == ControlCycles(h1, h2, OpCode[op])
  IN /\ main' = Append(main, MainRow(op, CurAddr, Cat(h1, h2), ZeroVec(16), ZeroVec(6), Len(main)))
     /\ hcycles' = hcycles \o cycles
     /\ blocks' = Append(blocks, [kind |-> "control", addr |-> NextHasherAddr,
                                  digest |-> LastDigest(cycles), batch |-> 0, batches |-> <<>>])

start_control_block ==
  \E op \in ControlOps \cap Ops :
    /\ CanStartBlock(1)
    /\ StartBlock(op, Vec(<<Len(main) + 1, 2, 0, 0>>), Vec(<<3, Len(main), 0, 0>>))
    /\ UNCHANGED <<bops, mrows, mem, access, phase>>

\* SYSCALL: the callee must be a kernel procedure (access_kernel_proc).
start_syscall_block ==
  \E p \in Procs :
    /\ "SYSCALL" \in Ops
    /\ CanStartBlock(1)
    /\ IF p \in Kernel
       THEN /\ StartBlock("SYSCALL", ProcRoot(p), ZeroVec(4))
            /\ access' = [access EXCEPT ![p] = @ + 1]
            /\ UNCHANGED phase
       ELSE /\ phase' = "failed"
            /\ UNCHANGED <<main, hcycles, blocks, access>>
    /\ UNCHANGED <<bops, mrows, mem>>

\* SPAN: the whole basic block is hashed through hash_span_block.
start_span_block ==
  \E k \in 1..MaxSpanBatches :
    LET batches == [j \in 1..k |-> Vec(<<Len(main), j, 1, 0, 2, 0, 0, j>>)]
        cycles == SpanCycles(batches)
    IN /\ CanStartBlock(1)
       /\ main' = Append(main, MainRow("SPAN", CurAddr, batches[1], ZeroVec(16), ZeroVec(6), Len(main)))
       /\ hcycles' = hcycles \o cycles
       /\ blocks' = Append(blocks, [kind |-> "span", addr |-> NextHasherAddr,
                                    digest |-> LastDigest(cycles), batch |-> 1,
                                    batches |-> batches])
       /\ UNCHANGED <<bops, mrows, mem, access, phase>>

\* RESPAN: the next batch, once the operations of the current one have
\* run; the decoder address moves to the next cycle.
respan ==
  /\ phase = "running"
  /\ InSpan
  /\ Top.batch < Len(Top.batches)
  /\ main[Len(main)].op \notin {"SPAN", "RESPAN"}
  /\ Len(main) + 1 <= MaxRows
  /\ main' = Append(main, MainRow("RESPAN", Top.addr, Top.batches[Top.batch + 1],
                                  ZeroVec(16), ZeroVec(6), Len(main)))
  /\ blocks' = [blocks EXCEPT ![Len(blocks)].addr = @ + HASH_CYCLE_LEN,
                              ![Len(blocks)].batch = @ + 1]
  /\ UNCHANGED <<hcycles, bops, mrows, mem, access, phase>>

\* END: the decoder state holds the digest of the block being closed.
end_block ==
  /\ phase = "running"
  /\ blocks # <<>>
  /\ Top.kind = "span" => Top.batch = Len(Top.batches)
  /\ Len(main) + 1 <= MaxRows
  /\ main' = Append(main, MainRow("END", Top.addr, Cat(Top.digest, ZeroVec(4)),
                                  ZeroVec(16), ZeroVec(6), Len(main)))
  /\ blocks' = SubSeq(blocks, 1, Len(blocks) - 1)
  /\ UNCHANGED <<hcycles, bops, mrows, mem, access, phase>>

halt ==
  /\ phase = "running"
  /\ blocks = <<>>
  /\ main # <<>>
  /\ main' = Append(main, MainRow("HALT", 0, ZeroVec(8), ZeroVec(16), ZeroVec(6), Len(main)))
  /\ phase' = "halted"
  /\ UNCHANGED <<hcycles, bops, mrows, mem, access, blocks>>

-----------------------------------------------------------------------------
(* Operations inside a basic block.  Each writes its own row (operands on  *)
(* the stack and in the helper registers) and the next row, whose stack    *)
(* holds the result.                                                       *)

CanRunOp(op) ==
  /\ phase = "running"
  /\ op \in Ops
  /\ InSpan
  /\ Len(main) + 2 <= MaxRows

OpRows(op, stk, hlp, stk_nxt) ==
  main' = main \o <<MainRow(op, Top.addr, ZeroVec(8), stk, hlp, Len(main)),
                    MainRow("NOOP", Top.addr, ZeroVec(8), stk_nxt, ZeroVec(6), Len(main) + 1)>>

MemRow(is_read, addr, word) ==
  [is_read |-> is_read, ctx |-> 0, addr |-> addr, clk |-> Len(main), word |-> word]

\* An operation of the batch that uses no chiplet (its bus factor is ONE).
noop ==
  /\ phase = "running"
  /\ "NOOP" \in Ops
  /\ InSpan
  /\ Len(main) + 1 <= MaxRows
  /\ main' = Append(main, MainRow("NOOP", Top.addr, ZeroVec(8), ZeroVec(16), ZeroVec(6), Len(main)))
  /\ UNCHANGED <<hcycles, bops, mrows, mem, access, blocks, phase>>

\* U32AND / U32XOR through Chiplets::u32and / u32xor: b on top, a below.
u32_bitwise ==
  \E op \in {"U32AND", "U32XOR"}, a \in U32Vals, b \in U32Vals :
    LET is_xor == IF op = "U32XOR" THEN 1 ELSE 0
        z == IF is_xor = 1 THEN a ^^ b ELSE a & b
    IN /\ CanRunOp(op)
       /\ OpRows(op, Stack(<<b, a>>), ZeroVec(6), Stack(<<z>>))
       /\ bops' = Append(bops, [is_xor |-> is_xor, a |-> a, b |-> b, z |-> z])
       /\ UNCHANGED <<hcycles, mrows, mem, access, blocks, phase>>

\* MLOAD / MSTORE: element 0 of the word at s0; the other three elements
\* of the word go to the helper registers in reverse order.
ElementHelpers(w) == Helpers(<<w[3], w[2], w[1]>>)

mload ==
  \E addr \in MemAddrs :
    LET word == mem[addr]
    IN /\ CanRunOp("MLOAD")
       /\ OpRows("MLOAD", Stack(<<addr>>), ElementHelpers(word), Stack(<<word[0]>>))
       /\ mrows' = Append(mrows, MemRow(1, addr, word))
       /\ UNCHANGED <<hcycles, bops, mem, access, blocks, phase>>

mstore ==
  \E addr \in MemAddrs, v \in Vals :
    LET old == mem[addr]
        word == [old EXCEPT ![0] = v]
    IN /\ CanRunOp("MSTORE")
       /\ OpRows("MSTORE", Stack(<<addr, v>>), ElementHelpers(old), Stack(<<v>>))
       /\ mrows' = Append(mrows, MemRow(0, addr, word))
       /\ mem' = [mem EXCEPT ![addr] = word]
       /\ UNCHANGED <<hcycles, bops, access, blocks, phase>>

\* MLOADW / MSTOREW: the word lies on the stack with element 3 on top.
mloadw ==
  \E addr \in MemAddrs :
    LET word == mem[addr]
    IN /\ CanRunOp("MLOADW")
       /\ OpRows("MLOADW", Stack(<<addr>>), ZeroVec(6), Stack(Rev4(word)))
       /\ mrows' = Append(mrows, MemRow(1, addr, word))
       /\ UNCHANGED <<hcycles, bops, mem, access, blocks, phase>>

mstorew ==
  \E addr \in MemAddrs, word \in Words :
    /\ CanRunOp("MSTOREW")
    /\ OpRows("MSTOREW", Stack(<<addr>> \o Rev4(word)), ZeroVec(6), Stack(Rev4(word)))
    /\ mrows' = Append(mrows, MemRow(0, addr, word))
    /\ mem' = [mem EXCEPT ![addr] = word]
    /\ UNCHANGED <<hcycles, bops, access, blocks, phase>>

\* MSTREAM: the words at s12 and s12 + 1 replace the top eight elements.
mstream ==
  \E addr \in MemAddrs :
    LET w1 == mem[addr]
        w2 == mem[addr + 1]
        s12(x) == [k \in 0..15 |-> IF k = 12 THEN x ELSE 0]
    IN /\ CanRunOp("MSTREAM")
       /\ OpRows("MSTREAM", s12(addr), ZeroVec(6),
                 [k \in 0..15 |-> CASE k < 4 -> w2[3 - k]
                                    [] k < 8 -> w1[7 - k]
                                    [] k = 12 -> addr + 2
                                    [] OTHER -> 0])
       /\ mrows' = mrows \o <<MemRow(1, addr, w1), MemRow(1, addr + 1, w2)>>
       /\ UNCHANGED <<hcycles, bops, mem, access, blocks, phase>>

\* RCOMBBASE: reads the words at z_ptr (s13) and a_ptr (s14) into the
\* helper registers.
rcomb_base ==
  \E z_ptr \in MemAddrs, a_ptr \in MemAddrs :
    LET wz == mem[z_ptr]
        wa == mem[a_ptr]
        stk == [k \in 0..15 |-> CASE k = 13 -> z_ptr [] k = 14 -> a_ptr [] OTHER -> 0]
    IN /\ CanRunOp("RCOMBBASE")
       /\ OpRows("RCOMBBASE", stk, Helpers(<<wz[0], wz[1], wz[2], wz[3], wa[0], wa[1]>>), stk)
       /\ mrows' = mrows \o <<MemRow(1, z_ptr, wz), MemRow(1, a_ptr, wa)>>
       /\ UNCHANGED <<hcycles, bops, mem, access, blocks, phase>>

\* HPERM through Chiplets::permute: s11..s0 form the hasher state, the
\* permuted state replaces them; h0 receives the hasher address.
hperm ==
  \E v \in Vals :
    LET stk == [k \in 0..15 |-> IF k < 12 THEN (v + k) % 5 ELSE 0]
        st == [k \in 0..11 |-> stk[11 - k]]
        out == Perm(st)
    IN /\ CanRunOp("HPERM")
       /\ OpRows("HPERM", stk, Helpers(<<NextHasherAddr>>),
                 [k \in 0..15 |-> IF k < 12 THEN out[11 - k] ELSE 0])
       /\ hcycles' = hcycles \o PermuteCycles(st)
       /\ UNCHANGED <<bops, mrows, mem, access, blocks, phase>>

\* The advice provider rejects an empty path or an index out of its range.
PathRejected(depth, index) == depth = 0 \/ index >= 2^depth

\* MPVERIFY through Chiplets::build_merkle_root: node value s0..s3,
\* depth s4, index s5, root s6..s9 (each word with element 3 on top); the
\* stack is left as it was.
mpverify ==
  \E depth \in 0..MaxDepth, index \in 0..(2^MaxDepth), v \in Vals :
    /\ CanRunOp("MPVERIFY")
    /\ IF PathRejected(depth, index)
       THEN /\ phase' = "failed"
            /\ UNCHANGED <<main, hcycles>>
       ELSE LET value == Vec(<<v, 0, v, 1>>)
                cycles == MerkleCycles(value, MerklePath(depth), index, MP_VERIFY)
                stk == Stack(Rev4(value) \o <<depth, index>> \o Rev4(LastDigest(cycles)))
            IN /\ OpRows("MPVERIFY", stk, Helpers(<<NextHasherAddr>>), stk)
               /\ hcycles' = hcycles \o cycles
               /\ UNCHANGED phase
    /\ UNCHANGED <<bops, mrows, mem, access, blocks>>

\* MRUPDATE through Chiplets::update_merkle_root: old value s0..s3, depth
\* s4, index s5, old root s6..s9, new value s10..s13; the new root replaces
\* s0..s3.  The old path is hashed first, then the new one.
mrupdate ==
  \E depth \in 0..MaxDepth, index \in 0..(2^MaxDepth), v \in Vals, nv \in Vals :
    /\ CanRunOp("MRUPDATE")
    /\ IF PathRejected(depth, index)
       THEN /\ phase' = "failed"
            /\ UNCHANGED <<main, hcycles>>
       ELSE LET old == Vec(<<v, 0, v, 1>>)
                new == Vec(<<nv, 1, nv, 0>>)
                old_cycles == MerkleCycles(old, MerklePath(depth), index, MR_UPDATE_OLD)
                new_cycles == MerkleCycles(new, MerklePath(depth), index, MR_UPDATE_NEW)
                stk == Stack(Rev4(old) \o <<depth, index>> \o Rev4(LastDigest(old_cycles))
                             \o Rev4(new))
                stk_nxt == [stk EXCEPT ![0] = LastDigest(new_cycles)[3],
                                       ![1] = LastDigest(new_cycles)[2],
                                       ![2] = LastDigest(new_cycles)[1],
                                       ![3] = LastDigest(new_cycles)[0]]
            IN /\ OpRows("MRUPDATE", stk, Helpers(<<NextHasherAddr>>), stk_nxt)
               /\ hcycles' = hcycles \o old_cycles \o new_cycles
               /\ UNCHANGED phase
    /\ UNCHANGED <<bops, mrows, mem, access, blocks>>

exec_next ==
  \/ start_control_block
  \/ start_syscall_block
  \/ start_span_block
  \/ respan
  \/ noop
  \/ end_block
  \/ u32_bitwise
  \/ mload
  \/ mstore
  \/ mloadw
  \/ mstorew
  \/ mstream
  \/ rcomb_base
  \/ hperm
  \/ mpverify
  \/ mrupdate
  \/ halt

=============================================================================
