---------------------------- MODULE SiblingList ----------------------------
(***************************************************************************)
(* The siblings list of a suffix-tree node, pointer by pointer             *)
(* (csrc/suffix_decoding/suffix_tree.cc): the children in a doubly linked  *)
(* list, and the runs of children of equal count ("groups") in another.    *)
(* A node holds its group by std::shared_ptr, so a group is alive exactly  *)
(* as long as some node holds it; the groups hold each other by raw        *)
(* pointers, which nothing keeps alive.                                    *)
(***************************************************************************)
EXTENDS Naturals, Sequences, FiniteSets

CONSTANTS
    Nodes,     \* addresses of children
    GroupIds,  \* addresses of groups
    MaxCount,  \* bound of the model: largest count of a child
    Nil        \* the null pointer

SiblingListAssumption ==
    /\ IsFiniteSet(Nodes) /\ IsFiniteSet(GroupIds)
    /\ Cardinality(GroupIds) > Cardinality(Nodes)
    /\ MaxCount \in Nat \ {0}
    /\ Nil \notin Nodes \union GroupIds

VARIABLE l  \* the children of one parent, with the fields below

vars == l

(***************************************************************************)
(* count, next, prev and group are fields of Node; head and tail are the   *)
(* parent's head_child and tail_child; ghead, gnext and gprev are the      *)
(* fields of Group.  A node of count 0 is no child: it is not allocated.   *)
(* Just the children hold a group.                                         *)
(***************************************************************************)
TypeOK ==
    /\ l \in [count : [Nodes -> 0 .. MaxCount],
              next  : [Nodes -> Nodes \union {Nil}],
              prev  : [Nodes -> Nodes \union {Nil}],
              group : [Nodes -> GroupIds \union {Nil}],
              head  : Nodes \union {Nil},
              tail  : Nodes \union {Nil},
              ghead : [GroupIds -> Nodes \union {Nil}],
              gnext : [GroupIds -> GroupIds \union {Nil}],
              gprev : [GroupIds -> GroupIds \union {Nil}]]
    /\ \A n \in Nodes : l.group[n] # Nil <=> l.count[n] > 0

Init ==
    l = [count |-> [n \in Nodes |-> 0],
         next  |-> [n \in Nodes |-> Nil],
         prev  |-> [n \in Nodes |-> Nil],
         group |-> [n \in Nodes |-> Nil],
         head  |-> Nil,
         tail  |-> Nil,
         ghead |-> [g \in GroupIds |-> Nil],
         gnext |-> [g \in GroupIds |-> Nil],
         gprev |-> [g \in GroupIds |-> Nil]]

Alive(x) == {x.group[n] : n \in Nodes} \ {Nil}

(* Guarded pointer writes: through a node's next or prev, or through the   *)
(* parent's tail or head when there is none; through a group, if any.      *)
SetPrevOf(x, n, to) == IF n = Nil THEN [x EXCEPT !.tail = to]
                                  ELSE [x EXCEPT !.prev[n] = to]
SetNextOf(x, n, to) == IF n = Nil THEN [x EXCEPT !.head = to]
                                  ELSE [x EXCEPT !.next[n] = to]
SetGPrevOf(x, g, to) == IF g = Nil THEN x ELSE [x EXCEPT !.gprev[g] = to]
SetGNextOf(x, g, to) == IF g = Nil THEN x ELSE [x EXCEPT !.gnext[g] = to]

(* node->group.reset(new Group(node)) *)
NewGroup(x, n) ==
    LET g == CHOOSE h \in GroupIds : h \notin Alive(x)
    IN  [x EXCEPT !.group[n] = g, !.ghead[g] = n, !.gnext[g] = Nil, !.gprev[g] = Nil]

(* The group a node brings along, or a new one. *)
OwnGroup(x, n) == IF x.group[n] = Nil THEN NewGroup(x, n) ELSE x

(* _remove_from_siblings *)
RemoveFromSiblings(x, n) ==
    LET g == x.group[n]
        shared == x.next[n] # Nil /\ x.count[x.next[n]] = x.count[n]
        unlinked == SetGPrevOf(SetGNextOf(x, x.gprev[g], x.gnext[g]),
                               x.gnext[g], x.gprev[g])
        left == IF x.ghead[g] # n THEN [x EXCEPT !.group[n] = Nil]
                ELSE IF shared
                THEN [x EXCEPT !.ghead[g] = x.next[n], !.group[n] = Nil]
                ELSE [unlinked EXCEPT !.gprev[g] = Nil, !.gnext[g] = Nil]
        closed == SetNextOf(SetPrevOf(left, x.next[n], x.prev[n]),
                            x.prev[n], x.next[n])
    IN  [closed EXCEPT !.prev[n] = Nil, !.next[n] = Nil]

(* _insert_into_siblings_before *)
InsertBefore(x, n, other) ==
    LET p == x.prev[other]
        linked == [SetNextOf(x, p, n) EXCEPT !.next[n] = other,
                                             !.prev[n] = p,
                                             !.prev[other] = n]
        own == OwnGroup(linked, n)
        g == own.group[n]
        after == IF p = Nil THEN own
                 ELSE [own EXCEPT !.gprev[g] = x.group[p], !.gnext[x.group[p]] = g]
    IN  IF p # Nil /\ x.count[n] = x.count[p]
        THEN [linked EXCEPT !.group[n] = x.group[p]]
        ELSE IF x.count[n] = x.count[other]
        THEN [linked EXCEPT !.group[n] = x.group[other], !.ghead[x.group[other]] = n]
        ELSE [after EXCEPT !.gnext[g] = x.group[other], !.gprev[x.group[other]] = g]

(* _insert_into_siblings_after *)
InsertAfter(x, n, other) ==
    LET q == x.next[other]
        linked == [SetPrevOf(x, q, n) EXCEPT !.prev[n] = other,
                                             !.next[n] = q,
                                             !.next[other] = n]
        own == OwnGroup(linked, n)
        g == own.group[n]
        before == IF q = Nil THEN own
                  ELSE [own EXCEPT !.gnext[g] = x.group[q], !.gprev[x.group[q]] = g]
    IN  IF q # Nil /\ x.count[n] = x.count[q]
        THEN [linked EXCEPT !.group[n] = x.group[q],
                            !.ghead[x.group[q]] = IF @ = q THEN n ELSE @]
        ELSE IF x.count[n] = x.count[other]
        THEN [linked EXCEPT !.group[n] = x.group[other]]
        ELSE [before EXCEPT !.gprev[g] = x.group[other], !.gnext[x.group[other]] = g]

(* _replace_in_siblings; the new node comes with the old one's count. *)
ReplaceInSiblings(x, old, new) ==
    LET g == x.group[old]
        linked == SetNextOf(SetPrevOf(x, x.next[old], new), x.prev[old], new)
    IN  [linked EXCEPT !.prev[new] = x.prev[old], !.next[new] = x.next[old],
                       !.prev[old] = Nil, !.next[old] = Nil,
                       !.ghead[g] = IF @ = old THEN new ELSE @,
                       !.group[new] = g, !.group[old] = Nil]

(* Whether n, one count up, still comes after its predecessor p in a group *)
(* of its own; broken, the counts compared are the old ones.               *)
StaysBehindOld(x, p, n) == p = Nil \/ x.count[p] >= x.count[n]
StaysBehind(x, p, n) == p = Nil \/ x.count[p] > x.count[n] + 1

(* _increment_count *)
IncrementCount(x, n) ==
    LET p == x.prev[n]
        q == x.next[n]
        g == x.group[n]
        split == NewGroup([x EXCEPT !.ghead[g] = q], n)
        new == split.group[n]
        spliced == SetGNextOf([split EXCEPT !.gnext[new] = g,
                                            !.gprev[new] = x.gprev[g],
                                            !.gprev[g] = new],
                              x.gprev[g], new)
        apart == [RemoveFromSiblings(x, n) EXCEPT !.count[n] = @ + 1]
    IN  IF StaysBehind(x, p, n)
        THEN IF q = Nil \/ x.count[q] < x.count[n]
             THEN [x EXCEPT !.count[n] = @ + 1]
             ELSE [spliced EXCEPT !.count[n] = @ + 1]
        ELSE InsertBefore(apart, n, x.ghead[x.group[p]])

(* _decrement_count *)
DecrementCount(x, n) ==
    LET p == x.prev[n]
        q == x.next[n]
        g == x.group[n]
        split == NewGroup(x, n)
        new == split.group[n]
        spliced == SetGPrevOf([split EXCEPT !.gprev[new] = g,
                                            !.gnext[new] = x.gnext[g],
                                            !.gnext[g] = new],
                              x.gnext[g], new)
        headed == [x EXCEPT !.ghead[x.group[q]] = n]
        dropped == IF headed.ghead[g] # n THEN headed
                   ELSE SetGPrevOf(SetGNextOf(headed, x.gprev[g], x.gnext[g]),
                                   x.gnext[g], x.gprev[g])
        apart == [RemoveFromSiblings(x, n) EXCEPT !.count[n] = @ - 1]
    IN  IF q = Nil \/ x.count[q] < x.count[n] - 1
        THEN IF p = Nil \/ x.count[p] > x.count[n]
             THEN [x EXCEPT !.count[n] = @ - 1]
             ELSE [spliced EXCEPT !.count[n] = @ - 1]
        ELSE IF x.count[q] = x.count[n] - 1
        THEN [dropped EXCEPT !.group[n] = x.group[q], !.count[n] = @ - 1]
        ELSE IF x.gnext[g] = Nil
        THEN InsertAfter(apart, n, apart.tail)
        ELSE InsertBefore(apart, n, apart.ghead[x.gnext[g]])

(* What a step leaves behind: a group no node holds any more is freed. *)
Settle(x) ==
    [x EXCEPT !.ghead = [g \in GroupIds |-> IF g \in Alive(x) THEN @[g] ELSE Nil],
              !.gnext = [g \in GroupIds |-> IF g \in Alive(x) THEN @[g] ELSE Nil],
              !.gprev = [g \in GroupIds |-> IF g \in Alive(x) THEN @[g] ELSE Nil]]

Children == {n \in Nodes : l.count[n] > 0}

(* The first child: of count 1 in case 1b of append, of any count when     *)
(* case 3b puts a split child under its upper half.                        *)
AddFirst(n, c) ==
    /\ l.head = Nil
    /\ l' = Settle(NewGroup([l EXCEPT !.head = n, !.tail = n, !.count[n] = c], n))

(* A further child, case 1b of append. *)
AddLast(n) ==
    /\ l.head # Nil /\ n \notin Children
    /\ l' = Settle(InsertAfter([l EXCEPT !.count[n] = 1], n, l.tail))

(* append() counts one more suffix in an existing child. *)
Raise(n) ==
    /\ n \in Children /\ l.count[n] < MaxCount
    /\ l' = Settle(IncrementCount(l, n))

(* remove() decrements a child of count > 1 and drops one of count 1. *)
Lower(n) ==
    /\ n \in Children /\ l.count[n] > 1
    /\ l' = Settle(DecrementCount(l, n))

Remove(n) ==
    /\ n \in Children /\ l.count[n] = 1
    /\ l' = Settle([RemoveFromSiblings(l, n) EXCEPT !.count[n] = 0, !.group[n] = Nil])

(* Cases 2a and 3b of append and the merge of remove. *)
Replace(old, new) ==
    /\ old \in Children /\ new \in Nodes \ Children
    /\ l' = Settle([ReplaceInSiblings(l, old, new)
                      EXCEPT !.count[new] = l.count[old], !.count[old] = 0])

Next ==
    \E n \in Nodes : \/ \E c \in 1 .. MaxCount : AddFirst(n, c)
                     \/ AddLast(n)
                     \/ Raise(n)
                     \/ Lower(n)
                     \/ Remove(n)
                     \/ \E m \in Nodes : Replace(n, m)

Spec == Init /\ [][Next]_vars

-----------------------------------------------------------------------------
(* The children met going forward from head_child. *)
Forward ==
    LET Walk[i \in 0 .. Cardinality(Nodes)] ==
            IF i = 0 THEN [seen |-> <<>>, at |-> l.head]
            ELSE LET w == Walk[i - 1]
                 IN  IF w.at = Nil THEN w
                     ELSE [seen |-> Append(w.seen, w.at), at |-> l.next[w.at]]
    IN  Walk[Cardinality(Nodes)].seen

(* The two lists are one list read both ways, it holds every child once    *)
(* and ends at tail_child: no move drops a child or leaves a cycle.        *)
ListsAgree ==
    LET o == Forward
    IN  /\ Len(o) = Cardinality(Children)
        /\ {o[i] : i \in DOMAIN o} = Children
        /\ \A i \in DOMAIN o : l.prev[o[i]] = IF i = 1 THEN Nil ELSE o[i - 1]
        /\ l.tail = IF o = <<>> THEN Nil ELSE o[Len(o)]
        /\ \A n \in Nodes \ Children : l.next[n] = Nil /\ l.prev[n] = Nil

(* The list is in nonincreasing order of count, which _speculate_path and  *)
(* _speculate_tree rely on to find the most frequent continuation first.   *)
Nonincreasing ==
    \A n \in Children : l.next[n] # Nil => l.count[n] >= l.count[l.next[n]]

(* Groups are exactly the runs of equal counts: each knows its first       *)
(* child, and the groups are chained both ways in the order of the runs.   *)
(* So no raw pointer leads to a group that its last node has freed.        *)
GroupsAreRuns ==
    LET o == Forward
        Starts(i) == i = 1 \/ l.count[o[i]] # l.count[o[i - 1]]
    IN  /\ \A i \in DOMAIN o :
             LET g == l.group[o[i]]
             IN  /\ Starts(i) => /\ l.ghead[g] = o[i]
                                 /\ l.gprev[g] = IF i = 1 THEN Nil ELSE l.group[o[i - 1]]
                                 /\ i > 1 => l.gnext[l.group[o[i - 1]]] = g
                 /\ ~ Starts(i) => g = l.group[o[i - 1]]
        /\ o # <<>> => l.gnext[l.group[o[Len(o)]]] = Nil

(* The pointers implement SiblingOrder. *)
Order == INSTANCE SiblingOrder WITH order <- Forward, count <- l.count
ImplementsSiblingOrder == Order!Spec
=============================================================================
