---------------------------- MODULE SiblingOrder ----------------------------
(***************************************************************************)
(* What the siblings list of a suffix-tree node promises: the children,    *)
(* each with its count, in an order that only the documented moves change. *)
(* SiblingList implements it with two doubly linked lists.                 *)
(***************************************************************************)
EXTENDS SiblingMoves

CONSTANTS
    Nodes,    \* addresses a child may have
    MaxCount  \* bound of the model: largest count of a child

VARIABLES
    order,  \* the children, from head_child to tail_child
    count   \* count[n]: suffixes through child n, 0 when n is no child

vars == <<order, count>>

Listed == {order[i] : i \in DOMAIN order}

Init ==
    /\ order = <<>>
    /\ count = [n \in Nodes |-> 0]

(* A child that is alone may arrive with any count (it was split off). *)
AddFirst(n, c) ==
    /\ order = <<>>
    /\ order' = <<n>>
    /\ count' = [count EXCEPT ![n] = c]

AddLast(n) ==
    /\ order # <<>> /\ n \notin Listed
    /\ order' = Append(order, n)
    /\ count' = [count EXCEPT ![n] = 1]

Raise(n) ==
    /\ n \in Listed /\ count[n] < MaxCount
    /\ order' = RaisedOrder(order, count, n)
    /\ count' = [count EXCEPT ![n] = @ + 1]

Lower(n) ==
    /\ n \in Listed /\ count[n] > 1
    /\ order' = LoweredOrder(order, count, n)
    /\ count' = [count EXCEPT ![n] = @ - 1]

Remove(n) ==
    /\ n \in Listed /\ count[n] = 1
    /\ order' = WithoutNode(order, n)
    /\ count' = [count EXCEPT ![n] = 0]

Replace(old, new) ==
    /\ old \in Listed /\ new \notin Listed
    /\ order' = Replaced(order, old, new)
    /\ count' = [count EXCEPT ![new] = count[old], ![old] = 0]

Next ==
    \E n \in Nodes : \/ \E c \in 1 .. MaxCount : AddFirst(n, c)
                     \/ AddLast(n)
                     \/ Raise(n)
                     \/ Lower(n)
                     \/ Remove(n)
                     \/ \E m \in Nodes : Replace(n, m)

Spec == Init /\ [][Next]_vars

-----------------------------------------------------------------------------
Members(s) == {s[i] : i \in 1 .. Len(s)}
Distinct(s) == \A i, j \in 1 .. Len(s) : s[i] = s[j] => i = j
Decreasing(s, c) == \A i, j \in 1 .. Len(s) : i < j => c[s[i]] >= c[s[j]]

(* The list is of nodes, and counts are numbers. *)
TypeOK == order \in Seq(Nodes) /\ count \in [Nodes -> Nat]

(* A node is in the list, once, if and only if it has a count. *)
ListsTheChildren ==
    /\ Distinct(order)
    /\ \A n \in Nodes : n \in Listed <=> count[n] > 0

(* suffix_tree.h:56: "All the children of each node are kept in order of   *)
(* decreasing count".                                                      *)
StaySorted == Decreasing(order, count)
=============================================================================
