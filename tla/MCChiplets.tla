----------------------------- MODULE MCChiplets -----------------------------
(* Model-checking instance of Chiplets: two kernel procedure digests,      *)
(* Merkle paths of up to two nodes, basic blocks of up to two batches.    *)
EXTENDS Chiplets, TLC

CONSTANTS p1, p2

MCProcs == {p1, p2}
MCMaxDepth == 2
MCMaxSpanBatches == 2
\* Room for one depth-2 Merkle update (32 rows) or four single cycles.
MCMaxHasherLen == 32
MCMaxBitwiseLen == 16
MCMaxMemoryLen == 2
MCMaxKernelCalls == 2
MCMaxClk == 1
MCMaxRandRows == 2

MCSymmetry == Permutations(MCProcs)
=============================================================================
