--------------------------- MODULE MCSpeculation ---------------------------
(* A small instance of SuffixTree, and of the drafts read off it, for TLC. *)
EXTENDS Speculation

CONSTANTS s1, s2, t1, t2

MCTwoSeqs   == {s1, s2}
MCTokens    == {t1, t2}
MCMinProb   == <<1, 3>>
MCOffsetNum   == -1
MCSymmetry  == Permutations(MCTwoSeqs) \union Permutations(MCTokens)
=============================================================================
