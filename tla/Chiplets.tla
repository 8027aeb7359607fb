------------------------------- MODULE Chiplets -------------------------------
(***************************************************************************)
(* The chiplets aggregator of processor/src/chiplets/mod.rs: the operation *)
(* API the executor calls while a program runs, the row addressing of the  *)
(* four chiplet segments, and into_trace/fill_trace, which stack the four  *)
(* sub-traces into one table of CHIPLETS_WIDTH columns.                    *)
(*                                                                         *)
(* The sub-chiplets (Hasher, Bitwise, Memory, KernelRom) live outside this *)
(* repository's sources; each is abstracted to the number of rows it adds  *)
(* per operation.  A cell of the composed table is <<"fill", v>> when only *)
(* the zero initialisation (v = 0) or a selector fill (v = 1) wrote it,    *)
(* and <<ch, j>> when the fill routine of chiplet ch wrote it through      *)
(* column j of its fragment.                                               *)
(***************************************************************************)
EXTENDS Integers, FiniteSets, Sequences

CONSTANTS
  Procs,           \* procedure digests the executor may syscall (model values)
  MaxDepth,        \* longest Merkle path handed to the hasher
  MaxSpanBatches,  \* most operation batches in one basic block
  MaxHasherLen,    \* bound on the rows of the hasher trace
  MaxBitwiseLen,   \* bound on the rows of the bitwise trace
  MaxMemoryLen,    \* bound on the rows of the memory trace
  MaxKernelCalls,  \* bound on the kernel procedure accesses
  MaxClk,          \* bound on the clock cycle
  MaxRandRows      \* most random rows asked of into_trace

ASSUME MaxDepth \in Nat \ {0} /\ MaxSpanBatches \in Nat \ {0}
ASSUME {MaxHasherLen, MaxBitwiseLen, MaxMemoryLen, MaxKernelCalls,
        MaxClk, MaxRandRows} \subseteq Nat

VARIABLES
  clk,            \* Chiplets.clk
  hasher_len,     \* hasher.trace_len()
  bitwise_len,    \* bitwise.trace_len()
  memory_len,     \* memory.trace_len()
  kernel,         \* the Kernel the chiplets were built with
  num_accesses,   \* KernelRom access map: accesses per kernel procedure
  kernel_rom_len, \* kernel_rom.trace_len()
  phase,          \* "executing", then "traced", "panicked" or "failed"
  trace,          \* the composed table, [column -> [row -> cell]]
  num_rand_rows   \* the num_rand_rows argument of into_trace

vars == <<clk, hasher_len, bitwise_len, memory_len, kernel, num_accesses,
          kernel_rom_len, phase, trace, num_rand_rows>>

-----------------------------------------------------------------------------
(* Constants of the chiplet layout (miden_air and the doc comment of       *)
(* Chiplets).                                                               *)

HASH_CYCLE_LEN == 8
BITWISE_OP_CYCLE_LEN == 8
CHIPLETS_WIDTH == 18
Columns == 0..(CHIPLETS_WIDTH - 1)
ChipletNames == {"hasher", "bitwise", "memory", "kernel_rom"}

\* Number of trace columns of each chiplet, selectors excluded.
ChipletWidth ==
  [hasher |-> 16, bitwise |-> 13, memory |-> 15, kernel_rom |-> 6]

-----------------------------------------------------------------------------
(* Row addressing accessors.                                               *)

chiplet_len(ch) ==
  CASE ch = "hasher"  -> hasher_len
    [] ch = "bitwise" -> bitwise_len
    [] ch = "memory"  -> memory_len
    [] ch = "kernel_rom" -> kernel_rom_len

trace_len == hasher_len + bitwise_len + memory_len + kernel_rom_len + 1
bitwise_start == hasher_len
memory_start == bitwise_start + bitwise_len
kernel_rom_start == memory_start + memory_len
padding_start == kernel_rom_start + kernel_rom_len

-----------------------------------------------------------------------------
(* fill_trace.  PartitionPlan(c) is the match arm for column c: the order  *)
(* in which the column's row range is cut into fragment windows by         *)
(* push_column_slice (Push) and split_at_mut (Skip).                       *)

Push(ch) == [kind |-> "push", chiplet |-> ch]
Skip(n) == [kind |-> "skip", rows |-> n]

\* Fault variant: columns 15 and 16 hand the memory chiplet the rows right
\* after the hasher, without skipping the bitwise rows.
PartitionPlan_no_skip(c) ==
  CASE c = 1 -> <<Push("hasher")>>
    [] c = 2 -> <<Push("hasher"), Push("bitwise")>>
    [] c \in {3} \cup 10..14 ->
         <<Push("hasher"), Push("bitwise"), Push("memory")>>
    [] c \in 4..9 ->
         <<Push("hasher"), Push("bitwise"), Push("memory"), Push("kernel_rom")>>
    [] c \in {15, 16} -> <<Push("hasher"), Push("memory")>>
    [] c = 17 -> <<Skip(hasher_len + bitwise_len), Push("memory")>>
    [] OTHER -> <<>>

PartitionPlan(c) ==
  CASE c = 1 -> <<Push("hasher")>>
    [] c = 2 -> <<Push("hasher"), Push("bitwise")>>
    [] c \in {3} \cup 10..14 ->
         <<Push("hasher"), Push("bitwise"), Push("memory")>>
    [] c \in 4..9 ->
         <<Push("hasher"), Push("bitwise"), Push("memory"), Push("kernel_rom")>>
    [] c \in {15, 16} ->
         <<Push("hasher"), Skip(bitwise_len), Push("memory")>>
    [] c = 17 -> <<Skip(hasher_len + bitwise_len), Push("memory")>>
    [] OTHER -> <<>>

\* Columns 1.. reach the match; "invalid column index" panics.
InvalidColumn == \E c \in 1..(CHIPLETS_WIDTH - 1) : PartitionPlan(c) = <<>>

\* The windows [from, to) of column c handed to each chiplet's fragment.
RECURSIVE Walk(_, _, _)
Walk(c, plan, offset) ==
  IF plan = <<>> THEN {}
  ELSE LET s == Head(plan)
           n == IF s.kind = "push" THEN chiplet_len(s.chiplet) ELSE s.rows
       IN (IF s.kind = "push"
           THEN {[chiplet |-> s.chiplet, col |-> c, from |-> offset,
                  to |-> offset + n]}
           ELSE {})
          \cup Walk(c, Tail(plan), offset + n)

Windows == UNION {Walk(c, PartitionPlan(c), 0) : c \in 1..(CHIPLETS_WIDTH - 1)}

\* Fragment column j of chiplet ch is the j-th physical column pushed into
\* its fragment; columns are pushed in ascending order.
FragmentIndex(pushed, c) == Cardinality({d \in pushed : d < c})

\* The four external selector columns: trace[k][start_k..].fill(ONE).
SelectorStart == <<bitwise_start, memory_start, kernel_rom_start, padding_start>>
Fill(v) == <<"fill", v>>
SelectorFill(c, r) ==
  IF c <= 3 /\ r >= SelectorStart[c + 1] THEN Fill(1) ELSE Fill(0)

\* The selector columns are filled first; the fragments then hold disjoint
\* windows, each filled by its own chiplet's fill_trace.
fill_trace(len) ==
  LET W == Windows
      pushed == [ch \in ChipletNames |-> {w.col : w \in {x \in W : x.chiplet = ch}}]
  IN [c \in Columns |-> [r \in 0..(len - 1) |->
        IF \E w \in W : w.col = c /\ w.from <= r /\ r < w.to
        THEN LET w == CHOOSE x \in W : x.col = c /\ x.from <= r /\ r < x.to
             IN <<w.chiplet, FragmentIndex(pushed[w.chiplet], c)>>
        ELSE SelectorFill(c, r)]]

-----------------------------------------------------------------------------
(* Initial state: Chiplets::new(kernel).                                   *)

Init ==
  /\ clk = 0
  /\ hasher_len = 0
  /\ bitwise_len = 0
  /\ memory_len = 0
  /\ kernel \in SUBSET Procs
  /\ num_accesses = [p \in Procs |-> 0]
  /\ kernel_rom_len = Cardinality(kernel)
  /\ phase = "executing"
  /\ trace = <<>>
  /\ num_rand_rows = 0

-----------------------------------------------------------------------------
(* Operations.  Each hasher operation appends whole 8-row hash cycles and  *)
(* returns the address hasher_len + 1 of its first row.                    *)

AddHasherRows(n) ==
  /\ phase = "executing"
  /\ hasher_len + n <= MaxHasherLen
  /\ hasher_len' = hasher_len + n
  /\ UNCHANGED <<clk, bitwise_len, memory_len, kernel, num_accesses,
                 kernel_rom_len, phase, trace, num_rand_rows>>

\* Fault variant: a permutation recorded as NUM_ROUNDS rows, not a cycle.
permute_rounds_only == AddHasherRows(HASH_CYCLE_LEN - 1)
permute == AddHasherRows(HASH_CYCLE_LEN)

\* A Merkle path of `depth` nodes; the hasher panics on an empty path or an
\* index out of range for the path.
MerklePathPanics(depth, index) == depth = 0 \/ index >= 2^depth

MerkleOp(cycles_per_node) ==
  \E depth \in 0..MaxDepth, index \in 0..(2^MaxDepth) :
    IF MerklePathPanics(depth, index)
    THEN /\ phase = "executing"
         /\ phase' = "panicked"
         /\ UNCHANGED <<clk, hasher_len, bitwise_len, memory_len, kernel,
                        num_accesses, kernel_rom_len, trace, num_rand_rows>>
    ELSE AddHasherRows(cycles_per_node * depth * HASH_CYCLE_LEN)

build_merkle_root == MerkleOp(1)
update_merkle_root == MerkleOp(2)

hash_control_block == AddHasherRows(HASH_CYCLE_LEN)

hash_span_block ==
  \E batches \in 1..MaxSpanBatches : AddHasherRows(batches * HASH_CYCLE_LEN)

\* u32and and u32xor record one bitwise cycle each; the bitwise chiplet
\* returns an error, which ends the execution, when an operand is not a
\* 32-bit value.
BitwiseOp ==
  \E operands_u32 \in BOOLEAN :
    /\ phase = "executing"
    /\ IF operands_u32
       THEN /\ bitwise_len + BITWISE_OP_CYCLE_LEN <= MaxBitwiseLen
            /\ bitwise_len' = bitwise_len + BITWISE_OP_CYCLE_LEN
            /\ UNCHANGED phase
       ELSE /\ phase' = "failed"
            /\ UNCHANGED bitwise_len
    /\ UNCHANGED <<clk, hasher_len, memory_len, kernel, num_accesses,
                   kernel_rom_len, trace, num_rand_rows>>

u32and == BitwiseOp
u32xor == BitwiseOp

\* A read or write through memory_mut() adds one memory trace row.
memory_access ==
  /\ phase = "executing"
  /\ memory_len < MaxMemoryLen
  /\ memory_len' = memory_len + 1
  /\ UNCHANGED <<clk, hasher_len, bitwise_len, kernel, num_accesses,
                 kernel_rom_len, phase, trace, num_rand_rows>>

\* access_kernel_proc: an error for a digest outside the kernel, which the
\* executor propagates, ending the execution; otherwise one more access,
\* and one more ROM row for every access after the first.
access_kernel_proc ==
  \E p \in Procs :
    /\ phase = "executing"
    /\ IF p \notin kernel
       THEN /\ phase' = "failed"
            /\ UNCHANGED <<num_accesses, kernel_rom_len>>
       ELSE /\ num_accesses[p] < MaxKernelCalls
            /\ num_accesses' = [num_accesses EXCEPT ![p] = @ + 1]
            /\ kernel_rom_len' = IF num_accesses[p] > 0
                                 THEN kernel_rom_len + 1 ELSE kernel_rom_len
            /\ UNCHANGED phase
    /\ UNCHANGED <<clk, hasher_len, bitwise_len, memory_len, kernel, trace,
                   num_rand_rows>>

advance_clock ==
  /\ phase = "executing"
  /\ clk < MaxClk
  /\ clk' = clk + 1
  /\ UNCHANGED <<hasher_len, bitwise_len, memory_len, kernel, num_accesses,
                 kernel_rom_len, phase, trace, num_rand_rows>>

\* into_trace(trace_len, num_rand_rows): the size assertion, then fill_trace.
into_trace ==
  \E len \in (trace_len - 1)..(trace_len + MaxRandRows),
     rand \in 0..MaxRandRows :
    /\ phase = "executing"
    /\ num_rand_rows' = rand
    /\ IF trace_len + rand > len \/ InvalidColumn
       THEN /\ phase' = "panicked"
            /\ UNCHANGED trace
       ELSE /\ phase' = "traced"
            /\ trace' = fill_trace(len)
    /\ UNCHANGED <<clk, hasher_len, bitwise_len, memory_len, kernel,
                   num_accesses, kernel_rom_len>>

Next ==
  \/ permute
  \/ build_merkle_root
  \/ update_merkle_root
  \/ hash_control_block
  \/ hash_span_block
  \/ u32and
  \/ u32xor
  \/ memory_access
  \/ access_kernel_proc
  \/ advance_clock
  \/ into_trace

Spec == Init /\ [][Next]_vars

-----------------------------------------------------------------------------
(* Properties.                                                             *)

Phases == {"executing", "traced", "panicked", "failed"}
Cell == {Fill(0), Fill(1)} \cup (ChipletNames \X (0..15))

TypeOK ==
  /\ clk \in 0..MaxClk
  /\ {hasher_len, bitwise_len, memory_len, kernel_rom_len, num_rand_rows} \subseteq Nat
  /\ hasher_len % HASH_CYCLE_LEN = 0
  /\ bitwise_len % BITWISE_OP_CYCLE_LEN = 0
  /\ kernel \subseteq Procs
  /\ num_accesses \in [Procs -> 0..MaxKernelCalls]
  /\ phase \in Phases
  /\ phase = "traced" =>
       /\ DOMAIN trace = Columns
       /\ \A c \in Columns : trace[c] \in [DOMAIN trace[c] -> Cell]

\* The segment a row belongs to, from the addressing accessors.
Segment(r) ==
  CASE r < bitwise_start    -> "hasher"
    [] r < memory_start     -> "bitwise"
    [] r < kernel_rom_start -> "memory"
    [] r < padding_start    -> "kernel_rom"
    [] OTHER                -> "padding"

\* Leading selector ONEs of each segment; the next column holds the ZERO
\* that ends the unary pattern, then the chiplet's own columns follow.
SelectorOnes ==
  [hasher |-> 0, bitwise |-> 1, memory |-> 2, kernel_rom |-> 3, padding |-> 4]

\* The cell the doc comment of Chiplets assigns to column c of row r.
DocumentedCell(c, r) ==
  LET seg == Segment(r)
      k == SelectorOnes[seg]
  IN IF c < k THEN Fill(1)
     ELSE IF seg # "padding" /\ c > k /\ c <= k + ChipletWidth[seg]
          THEN <<seg, c - k - 1>>
          ELSE Fill(0)

\* fill_trace lays out the table exactly as documented: each segment
\* carries its unary selector pattern, every chiplet column lands in the
\* segment's rows at the documented physical column, and all other cells,
\* padding rows included, are ZERO (spec: every cell is written by exactly
\* one sub-chiplet).  Breaks if the column match arms skip or push the
\* wrong row counts, or a selector fill starts at the wrong row.
TraceMatchesLayout ==
  phase = "traced" =>
    \A c \in Columns : \A r \in DOMAIN trace[c] : trace[c][r] = DocumentedCell(c, r)

=============================================================================
