---------------------------- MODULE MCChipletsAux ----------------------------
(* Model-checking instances of ChipletsAux.                                *)
EXTENDS ChipletsAux

\* Operations of the hasher-side runs: block hashing and hasher ops.
HasherOps == {"JOIN", "SPLIT", "LOOP", "CALL", "DYN", "HPERM", "MPVERIFY", "MRUPDATE"}
\* The same with operations that use no chiplet, so that RESPAN can follow.
HasherNoopOps == HasherOps \cup {"NOOP"}
\* Operations of the bitwise and memory runs.  MSTOREW is left out where
\* RCOMBBASE runs: it is the one store that fills the upper half of a word.
MemOps == {"U32AND", "U32XOR", "MLOAD", "MSTORE", "MLOADW", "MSTREAM", "RCOMBBASE"}
\* Hasher, bitwise and memory operations in one program.
HasherMemOps == HasherOps \cup MemOps

StoreOps == {"MSTOREW", "MLOADW", "MSTREAM", "MLOAD"}
\* Operations of the kernel runs.
KernelOps == {"SYSCALL", "JOIN"}
\* Kernel calls together with full-word stores and the loads after them.
KernelStoreOps == KernelOps \cup StoreOps

\* Basic blocks of more than one batch inside a join.
SpanOps == {"JOIN", "NOOP"}
=============================================================================
