--------------------------- MODULE SiblingMoves ---------------------------
(***************************************************************************)
(* Where a child of a suffix-tree node moves in the list of its siblings   *)
(* when its count changes (_increment_count and _decrement_count of        *)
(* csrc/suffix_decoding/suffix_tree.cc), over the list seen as a sequence. *)
(* The list is in nonincreasing order of count; a group is a maximal run   *)
(* of equal counts.  SiblingList models the pointers behind it.            *)
(***************************************************************************)
EXTENDS Naturals, Sequences

(* The position of n in the list. *)
PositionOf(order, n) == CHOOSE i \in DOMAIN order : order[i] = n

(* The first and the last position of the group that position i is in. *)
GroupHead(order, count, i) ==
    CHOOSE j \in 1 .. i : /\ count[order[j]] = count[order[i]]
                          /\ \A k \in 1 .. (j - 1) : count[order[k]] # count[order[i]]

GroupTail(order, count, i) ==
    CHOOSE j \in i .. Len(order) :
        /\ count[order[j]] = count[order[i]]
        /\ \A k \in (j + 1) .. Len(order) : count[order[k]] # count[order[i]]

(* Position i moved up to position j, or down to position j. *)
MovedUp(order, i, j) ==
    SubSeq(order, 1, j - 1) \o <<order[i]>> \o SubSeq(order, j, i - 1)
        \o SubSeq(order, i + 1, Len(order))

MovedDown(order, i, j) ==
    SubSeq(order, 1, i - 1) \o SubSeq(order, i + 1, j) \o <<order[i]>>
        \o SubSeq(order, j + 1, Len(order))

(* The list after the count of n went up by one (count is the old one): n  *)
(* stays when its predecessor stays ahead of it by more than one, otherwise *)
(* it goes before the head of its predecessor's group.                     *)
RaisedOrder(order, count, n) ==
    LET i == PositionOf(order, n)
    IN  IF i = 1 \/ count[order[i - 1]] > count[n] + 1
        THEN order
        ELSE MovedUp(order, i, GroupHead(order, count, i - 1))

(* The list after the count of n went down by one: n goes after the others *)
(* of its group.                                                           *)
LoweredOrder(order, count, n) ==
    LET i == PositionOf(order, n)
    IN  MovedDown(order, i, GroupTail(order, count, i))

(* A node of the list taken out of it, and one put in the place of another. *)
WithoutNode(order, n) ==
    LET i == PositionOf(order, n)
    IN  SubSeq(order, 1, i - 1) \o SubSeq(order, i + 1, Len(order))

Replaced(order, old, new) ==
    [i \in DOMAIN order |-> IF order[i] = old THEN new ELSE order[i]]
=============================================================================
