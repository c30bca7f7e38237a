---------------------------- MODULE MCSuffixTree ----------------------------
(***************************************************************************)
(* The suffix tree and the two containers it is built of, for TLC: small   *)
(* instances of SuffixTree, of SiblingList (the children of one node in    *)
(* the order of their counts) and of Int32Map (children, endpoints and     *)
(* active nodes by their keys).  A behaviour runs one of the three, and    *)
(* the others rest as they start.                                          *)
(***************************************************************************)
EXTENDS SuffixTree

CONSTANTS s1, s2, s3, t1, t2, n1, n2, n3, n4, k1, k2, k3, k4, k5, v,
          Empty, Tombstone, Raised

VARIABLES
    part,                               \* the module that runs
    l,                                  \* SiblingList
    hash, slots, size, tombstones, ret  \* Int32Map

Siblings == INSTANCE SiblingList WITH
    Nodes <- {n1, n2, n3, n4}, GroupIds <- 1 .. 5, MaxCount <- 4
Table == INSTANCE Int32Map WITH
    Keys <- {k1, k2, k3, k4, k5}, Vals <- {v}, Hashes <- {0, 5}, None <- Nil

ASSUME SiblingsAssumption == Siblings!SiblingListAssumption
ASSUME TableAssumption == Table!Int32MapAssumption

tableVars == <<hash, slots, size, tombstones, ret>>

MCSeqs     == {s1, s2, s3}
MCTokens   == {t1, t2}
MCSymmetry == Permutations(MCSeqs) \union Permutations(MCTokens)

(* Keys matter only through their hashes: all of them start their search at *)
(* one slot, or three at one and two at another, which that search reaches. *)
Hashings ==
    LET keys == <<k1, k2, k3, k4, k5>>
        Low(n) == {keys[i] : i \in 1 .. n}
    IN  {[k \in Low(5) |-> IF k \in Low(n) THEN 0 ELSE 5] : n \in {3, 5}}

MCInit ==
    /\ part \in {"tree", "siblings", "table"}
    /\ Init
    /\ Siblings!Init
    /\ hash \in (IF part = "table" THEN Hashings ELSE {CHOOSE h \in Hashings : TRUE})
    /\ Table!Init

MCNext ==
    \/ part = "tree" /\ Next /\ UNCHANGED <<part, l, tableVars>>
    \/ part = "siblings" /\ Siblings!Next /\ UNCHANGED <<part, vars, tableVars>>
    \/ part = "table" /\ Table!Next /\ UNCHANGED <<part, vars, l>>

MCSpec == MCInit /\ [][MCNext]_<<part, vars, l, tableVars>>

-----------------------------------------------------------------------------

(* The siblings list through every move: read both ways it is the same list *)
(* in nonincreasing order of count, its groups are the runs of equal        *)
(* counts, and the pointers implement SiblingOrder.                         *)
SiblingsStaySorted ==
    /\ [](part = "siblings" =>
           Siblings!TypeOK /\ Siblings!ListsAgree /\ Siblings!Nonincreasing /\ Siblings!GroupsAreRuns)
    /\ Siblings!Order!Init
    /\ [][part = "siblings" => Siblings!Order!Next]_<<Siblings!Forward, l.count>>

(* The hash table implements KeyMap whatever the hashes: no key is stored   *)
(* twice, its counters count, and tombstones, rehashing in place and        *)
(* shrinking leave the empty slot that ends a search.                       *)
TableIsAMap ==
    /\ [](part = "table" => Table!TypeOK /\ Table!SearchesEnd /\ Table!KeysOnce)
    /\ Table!Map!Init
    /\ [][part = "table" => Table!Map!Next]_<<Table!Contents, ret>>
=============================================================================
