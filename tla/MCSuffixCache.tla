--------------------------- MODULE MCSuffixCache ---------------------------
(* A small instance of SuffixCache for TLC. *)
EXTENDS SuffixCache, TLC

CONSTANTS r1, r2, r3

MCReqs    == {r1, r2, r3}
MCTokens  == {0, 1}
MCPrompts == {<<>>, <<0>>}
MCOneBatch == {<<1>>}

MCSymmetry == Permutations(MCReqs)
=============================================================================
