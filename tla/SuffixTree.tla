---------------------------- MODULE SuffixTree ----------------------------
(***************************************************************************)
(* SuffixTree (csrc/suffix_decoding/suffix_tree.cc): a path-compressed     *)
(* trie of every suffix, cut at MaxDepth tokens, of every sequence it      *)
(* holds.  A node is a record in the heap; its tokens are a stretch of a   *)
(* reference sequence.  Token positions of a sequence count from 0, as in  *)
(* the code: position i of q is q[i + 1].                                  *)
(***************************************************************************)
EXTENDS Integers, Sequences, FiniteSets, TLC, SiblingMoves

CONSTANTS
    SeqIds,    \* sequence ids
    Tokens,    \* token ids
    MaxDepth,  \* max_depth of the constructor
    MaxTotal,  \* bound of the model: tokens held by all sequences together
    Nil        \* no child / no match

ASSUME SuffixTreeAssumption ==
    /\ MaxDepth \in Nat \ {0}
    /\ MaxTotal \in Nat
    /\ Nil \notin Nat

VARIABLES
    heap,    \* the nodes alive, by address
    seqs,    \* _seqs: tokens of each sequence, <<>> when absent
    active   \* _active_nodes: addresses, the longest suffix first

vars == <<heap, seqs, active>>

Root == 0

(* A node: its fields are those of struct Node.  ends[s] is the endpoint   *)
(* of sequence s, 0 when it has none; order is the list from head_child to *)
(* tail_child.                                                             *)
Node(count, token, len, refSeq, refIdx, parent) ==
    [count |-> count, token |-> token, len |-> len,
     refSeq |-> refSeq, refIdx |-> refIdx, parent |-> parent,
     ends |-> [s \in SeqIds |-> 0],
     kids |-> [t \in Tokens |-> Nil],
     order |-> <<>>]

Init ==
    /\ heap = (Root :> Node(0, Nil, 0, Nil, -1, Nil))
    /\ seqs = [s \in SeqIds |-> <<>>]
    /\ active = [s \in SeqIds |-> <<>>]

Fresh(h) == CHOOSE a \in 0 .. Cardinality(DOMAIN h) : a \notin DOMAIN h

Kids(h, n) == {h[n].kids[t] : t \in Tokens} \ {Nil}

Counts(h) == [n \in DOMAIN h |-> h[n].count]

Without(h, S) == [n \in DOMAIN h \ S |-> h[n]]

-----------------------------------------------------------------------------
(***************************************************************************)
(* append: one step of its loop takes active node n of sequence s over the *)
(* new token, the last of q[s]; the result is the heap and the new active  *)
(* node.  The endpoint the root is given at the start of append is erased  *)
(* by the last step of the loop and read by none, so it is left out.       *)
(***************************************************************************)
Moved(h, n) == [heap |-> h, at |-> n]

(* Case 1a: a leaf that only this suffix reaches grows by the token. *)
GrowLeaf(h, n, s) ==
    Moved([h EXCEPT ![n].len = @ + 1, ![n].ends[s] = @ + 1], n)

(* Case 1b: a new child for the token, last in the siblings list. *)
AddChild(h, q, n, s) ==
    LET tok == q[s][Len(q[s])]
        new == Fresh(h)
        kid == [Node(1, tok, 1, s, Len(q[s]) - 1, n) EXCEPT !.ends[s] = Len(q[s])]
    IN  Moved((new :> kid) @@ [h EXCEPT ![n].kids[tok] = new,
                                        ![n].ends[s] = 0,
                                        ![n].order = Append(@, new)], new)

(* Wrong: the suffix that moves into the child is not counted there.       *)
FuseUncounted(h, q, n, kid, s) ==
    LET len == h[n].len + 1
        up  == h[n].parent
        fused == [h[kid] EXCEPT !.token = h[n].token, !.len = len, !.refSeq = s,
                                !.refIdx = Len(q[s]) - len,
                                !.ends[s] = Len(q[s]), !.parent = up]
    IN  Moved(Without([h EXCEPT ![kid] = fused,
                                ![up].order = Replaced(@, n, kid),
                                ![up].kids[h[n].token] = kid], {n}), kid)

(* Case 2a: the only child has one token, the new one: fuse node and child. *)
FuseWithChild(h, q, n, kid, s) ==
    LET len == h[n].len + 1
        up  == h[n].parent
        fused == [h[kid] EXCEPT !.count = @ + 1, !.token = h[n].token,
                                !.len = len, !.refSeq = s,
                                !.refIdx = Len(q[s]) - len,
                                !.ends[s] = Len(q[s]), !.parent = up]
    IN  Moved(Without([h EXCEPT ![kid] = fused,
                                ![up].order = Replaced(@, n, kid),
                                ![up].kids[h[n].token] = kid], {n}), kid)

(* Case 2b: the node takes the first token of its only child. *)
ShiftBoundary(h, q, n, kid, s) ==
    LET tok   == q[s][Len(q[s])]
        len   == h[n].len + 1
        first == q[h[kid].refSeq][h[kid].refIdx + 2]
    IN  Moved([h EXCEPT ![n].len = len,
                        ![n].ends[s] = @ + 1,
                        ![n].refSeq = s,
                        ![n].refIdx = Len(q[s]) - len,
                        ![n].kids = [@ EXCEPT ![tok] = Nil, ![first] = kid],
                        ![kid].len = @ - 1,
                        ![kid].refIdx = @ + 1,
                        ![kid].token = first], n)

(* Case 3a: on to a child of one token. *)
EnterChild(h, q, n, kid, s) ==
    Moved([h EXCEPT ![n].ends[s] = 0,
                    ![n].order = RaisedOrder(@, Counts(h), kid),
                    ![kid].ends[s] = Len(q[s]),
                    ![kid].count = @ + 1], kid)

(* Wrong: the suffix goes on in the lower half of the child.               *)
SplitIntoLower(h, q, n, kid, s) ==
    Moved([h EXCEPT ![n].ends[s] = 0,
                    ![n].order = RaisedOrder(@, Counts(h), kid),
                    ![kid].ends[s] = Len(q[s]),
                    ![kid].count = @ + 1], kid)

(* Case 3b: split the child after its first token. *)
SplitChild(h, q, n, kid, s) ==
    LET tok   == q[s][Len(q[s])]
        first == q[h[kid].refSeq][h[kid].refIdx + 2]
        new   == Fresh(h)
        upper == [Node(h[kid].count, tok, 1, s, Len(q[s]) - 1, n)
                    EXCEPT !.ends[s] = Len(q[s]),
                           !.kids[first] = kid,
                           !.order = <<kid>>]
        split == (new :> upper) @@
                   [h EXCEPT ![n].kids[tok] = new,
                             ![n].ends[s] = 0,
                             ![n].order = Replaced(@, kid, new),
                             ![kid].len = @ - 1,
                             ![kid].refIdx = @ + 1,
                             ![kid].token = first,
                             ![kid].parent = new]
    IN  Moved([split EXCEPT ![n].order = RaisedOrder(@, Counts(split), new),
                            ![new].count = @ + 1], new)

(* Wrong: a child that merely has a smaller count. *)
AnyFewer(h, n, kid) == n # Root /\ h[n].count > h[kid].count

(* The child's count is one below the node's: only this suffix ends here. *)
OneFewer(h, n, kid) == n # Root /\ h[n].count = h[kid].count + 1

ExtendActive(h, q, n, s) ==
    LET kid == h[n].kids[q[s][Len(q[s])]]
    IN  IF kid = Nil
        THEN IF h[n].count = 1 /\ n # Root THEN GrowLeaf(h, n, s)
                                           ELSE AddChild(h, q, n, s)
        ELSE IF OneFewer(h, n, kid)
        THEN IF h[kid].len = 1 THEN FuseWithChild(h, q, n, kid, s)
                               ELSE ShiftBoundary(h, q, n, kid, s)
        ELSE IF h[kid].len = 1 THEN EnterChild(h, q, n, kid, s)
                               ELSE SplitChild(h, q, n, kid, s)

(* The active nodes the loop of append goes over: the root joins them and  *)
(* the longest leaves when there are more than MaxDepth.                   *)
Window(s) ==
    LET joined == Append(active[s], Root)
    IN  IF Len(joined) > MaxDepth THEN Tail(joined) ELSE joined

(* The loop of append after i of its active nodes: the heap, and the active *)
(* nodes it has rewritten.                                                 *)
AppendLoop(s, tok, i) ==
    LET q == [seqs EXCEPT ![s] = Append(@, tok)]
        w == Window(s)
        After[j \in 0 .. Len(w)] ==
            IF j = 0 THEN [heap |-> [heap EXCEPT ![Root].count = @ + 1], done |-> <<>>]
            ELSE LET b == After[j - 1]
                     e == ExtendActive(b.heap, q, w[j], s)
                 IN  [heap |-> e.heap, done |-> Append(b.done, e.at)]
    IN  After[i]

HeldTokens ==
    LET Sum[S \in SUBSET SeqIds] ==
            IF S = {} THEN 0
            ELSE LET s == CHOOSE x \in S : TRUE IN Len(seqs[s]) + Sum[S \ {s}]
    IN  Sum[SeqIds]

AppendToken(s, tok) ==
    /\ HeldTokens < MaxTotal
    /\ LET end == AppendLoop(s, tok, Len(Window(s)))
       IN  /\ heap' = end.heap
           /\ active' = [active EXCEPT ![s] = end.done]
    /\ seqs' = [seqs EXCEPT ![s] = Append(@, tok)]

-----------------------------------------------------------------------------
(***************************************************************************)
(* remove: for each suffix of sequence s, walk down the tree, merge the    *)
(* last node of the walk with its child if that is now possible, and give  *)
(* the nodes of the walk a reference into another sequence.                *)
(***************************************************************************)
Subtree(h, n) ==
    LET Level[d \in 0 .. MaxDepth] ==
            IF d = 0 THEN {n} ELSE UNION {Kids(h, m) : m \in Level[d - 1]}
    IN  UNION {Level[d] : d \in 0 .. MaxDepth}

(* One more node of the walk: w.at is the last one, w.idx the position of  *)
(* the next token of the sequence, w.path the nodes below the root so far. *)
Descend(w, s) ==
    LET tok == seqs[s][w.idx + 1]
        kid == w.heap[w.at].kids[tok]
    IN  IF w.over \/ w.idx >= Len(seqs[s]) THEN w
        ELSE IF kid = Nil THEN [w EXCEPT !.over = TRUE]
        ELSE IF w.heap[kid].count = 1
        THEN [w EXCEPT
                !.over = TRUE,
                !.heap = Without([@ EXCEPT ![w.at].kids[tok] = Nil,
                                           ![w.at].order = WithoutNode(@, kid)],
                                 Subtree(@, kid))]
        ELSE [over |-> FALSE, at |-> kid,
              idx  |-> w.idx + w.heap[kid].len,
              path |-> Append(w.path, kid),
              heap |-> [w.heap EXCEPT
                          ![w.at].order = LoweredOrder(@, Counts(w.heap), kid),
                          ![kid].count = @ - 1,
                          ![kid].ends[s] = 0]]

Walk(h, s, start) ==
    LET After[i \in 0 .. Len(seqs[s])] ==
            IF i = 0
            THEN [heap |-> [h EXCEPT ![Root].count = @ - 1],
                  at |-> Root, idx |-> start, path |-> <<>>, over |-> FALSE]
            ELSE Descend(After[i - 1], s)
    IN  After[Len(seqs[s])]

(* Wrong: nothing is ever merged. *)
NeverMerge(w) == w

(* The child takes the place of a node that has the same count. *)
MergeWithChild(w) ==
    LET h    == w.heap
        n    == w.at
        kid  == CHOOSE k \in Kids(h, n) : TRUE
        up   == h[n].parent
        both == [h[kid] EXCEPT !.token = h[n].token,
                               !.len = @ + h[n].len,
                               !.refIdx = @ - h[n].len,
                               !.parent = up]
    IN  IF n # Root /\ Cardinality(Kids(h, n)) = 1 /\ h[n].count = h[kid].count
        THEN [w EXCEPT !.at = kid,
                       !.path[Len(w.path)] = kid,
                       !.heap = Without([h EXCEPT ![kid] = both,
                                                  ![up].order = Replaced(@, n, kid),
                                                  ![up].kids[h[n].token] = kid],
                                        {n})]
        ELSE w

(* The leaves below n, each with its distance from n. *)
LeavesBelow(h, n) ==
    LET Level[d \in 0 .. MaxDepth] ==
            IF d = 0 THEN {<<n, 0>>}
            ELSE UNION {{<<k, m[2] + h[k].len>> : k \in Kids(h, m[1])} : m \in Level[d - 1]}
    IN  {l \in UNION {Level[d] : d \in 0 .. MaxDepth} : Kids(h, l[1]) = {}}

(* The path rewritten to refer to sequence r, whose suffix ends the path   *)
(* just before position end.                                               *)
Rereferenced(h, path, s, r, end) ==
    LET Back[i \in 1 .. (Len(path) + 1)] ==
            IF i = Len(path) + 1 THEN end ELSE Back[i + 1] - h[path[i]].len
    IN  [n \in DOMAIN h |->
           IF \E i \in DOMAIN path : path[i] = n /\ h[n].refSeq = s
           THEN [h[n] EXCEPT !.refSeq = r,
                             !.refIdx = Back[PositionOf(path, n)]]
           ELSE h[n]]

(* The heaps one suffix may leave behind.  Which leaf and which of its     *)
(* endpoints is used depends on the iteration order of a hash map.         *)
RemoveSuffix(h, s, start) ==
    LET w == MergeWithChild(Walk(h, s, start))
    IN  UNION {LET ends == w.heap[l[1]].ends
                   with == {r \in SeqIds : ends[r] # 0}
               IN  IF with = {} \/ s \in with THEN {w.heap}
                   ELSE {Rereferenced(w.heap, w.path, s, r, ends[r] - l[2]) : r \in with}
               : l \in LeavesBelow(w.heap, w.at)}

HeapsWithout(s) ==
    LET After[i \in 0 .. Len(seqs[s])] ==
            IF i = 0 THEN {heap}
            ELSE UNION {RemoveSuffix(h, s, i - 1) : h \in After[i - 1]}
    IN  After[Len(seqs[s])]

RemoveSequence(s) ==
    /\ seqs[s] # <<>>
    /\ heap' \in HeapsWithout(s)
    /\ seqs' = [seqs EXCEPT ![s] = <<>>]
    /\ active' = [active EXCEPT ![s] = <<>>]

Next ==
    \E s \in SeqIds : \/ \E t \in Tokens : AppendToken(s, t)
                      \/ RemoveSequence(s)

Spec == Init /\ [][Next]_vars

-----------------------------------------------------------------------------
(* What the properties below read off the state. *)
TokensOf(n) == SubSeq(seqs[heap[n].refSeq], heap[n].refIdx + 1,
                      heap[n].refIdx + heap[n].len)

(* The nodes from n up to a child of the root, n first. *)
UpFrom(n) ==
    LET Up[d \in 0 .. MaxDepth] ==
            IF d = 0 THEN <<n>>
            ELSE LET u == Up[d - 1]
                     p == heap[u[Len(u)]].parent
                 IN  IF p \in {Root, Nil} THEN u ELSE Append(u, p)
    IN  Up[MaxDepth]

DepthOf(n) ==
    LET u == UpFrom(n)
        Depth[i \in 0 .. Len(u)] == IF i = 0 THEN 0 ELSE Depth[i - 1] + heap[u[i]].len
    IN  Depth[Len(u)]

PathOf(n) ==
    LET u == UpFrom(n)
        Path[i \in 0 .. Len(u)] == IF i = 0 THEN <<>> ELSE TokensOf(u[i]) \o Path[i - 1]
    IN  Path[Len(u)]

(* _match_context: the node context w ends in and the position inside it. *)
MatchContext(w) ==
    LET To[i \in 0 .. Len(w)] ==
            IF i = 0 THEN <<Root, 0>>
            ELSE LET m == To[i - 1]
                     k == heap[m[1]].kids[w[i]]
                 IN  IF m[1] = Nil THEN m
                     ELSE IF m[2] >= heap[m[1]].len
                     THEN IF k = Nil THEN <<Nil, -1>> ELSE <<k, 1>>
                     ELSE IF TokensOf(m[1])[m[2] + 1] # w[i] THEN <<Nil, -1>>
                     ELSE <<m[1], m[2] + 1>>
    IN  To[Len(w)]

Grams == UNION {[1 .. k -> Tokens] : k \in 1 .. MaxDepth}

(* The number of places where w occurs in the sequences held. *)
Occurrences(w) ==
    Cardinality({p \in SeqIds \X (0 .. MaxTotal) :
                   /\ p[2] + Len(w) <= Len(seqs[p[1]])
                   /\ SubSeq(seqs[p[1]], p[2] + 1, p[2] + Len(w)) = w})

TypeOK ==
    /\ Root \in DOMAIN heap
    /\ \A n \in DOMAIN heap :
         /\ heap[n].count \in Nat /\ heap[n].len \in 0 .. MaxDepth
         /\ n # Root => heap[n].refSeq \in SeqIds /\ heap[n].token \in Tokens
         /\ heap[n].parent \in DOMAIN heap \union {Nil}
         /\ Kids(heap, n) \subseteq DOMAIN heap
    /\ seqs \in [SeqIds -> Seq(Tokens)]
    /\ \A s \in SeqIds : active[s] \in Seq(DOMAIN heap)

(* Every n-gram of at most MaxDepth tokens is found in the tree exactly    *)
(* when some sequence contains it, at a node whose count is the number of  *)
(* places where it occurs: neither appending through the six cases nor     *)
(* removing sequences, merging nodes on the way, loses or invents one.     *)
CountsOccurrences ==
    /\ heap[Root].count = HeldTokens
    /\ \A w \in Grams :
         LET m == MatchContext(w)[1]
         IN  Occurrences(w) = IF m = Nil THEN 0 ELSE heap[m].count

(* The active nodes of a sequence are alive and are the nodes its last     *)
(* tokens lead to, longest suffix first: fusing, splitting and merging for *)
(* one sequence never leaves a stale pointer in another's queue.           *)
ActiveAtSuffixes ==
    \A s \in SeqIds :
        LET at == active[s]
            q  == seqs[s]
        IN  /\ Len(at) = IF Len(q) < MaxDepth THEN Len(q) ELSE MaxDepth
            /\ \A i \in DOMAIN at :
                 /\ at[i] \in DOMAIN heap
                 /\ PathOf(at[i]) = SubSeq(q, Len(q) - Len(at) + i, Len(q))
                 /\ heap[at[i]].ends[s] = Len(q)

(* A node refers to a sequence that is still held, at a place where that   *)
(* sequence reads the whole path from the root to the node.                *)
RefsFollowPath ==
    \A n \in DOMAIN heap \ {Root} :
        LET at == heap[n].refIdx + heap[n].len
            q  == seqs[heap[n].refSeq]
        IN  /\ DepthOf(n) <= at /\ at <= Len(q)
            /\ PathOf(n) = SubSeq(q, at - DepthOf(n) + 1, at)

(* An endpoint of a node is the end, in a sequence still held, of an       *)
(* occurrence of the path to the node that is cut there by the end of the  *)
(* sequence or by MaxDepth.                                                *)
EndpointsFollowPath ==
    \A n \in DOMAIN heap \ {Root} : \A s \in SeqIds :
        LET end == heap[n].ends[s]
            d   == DepthOf(n)
        IN  end # 0 => /\ d <= end /\ end <= Len(seqs[s])
                       /\ PathOf(n) = SubSeq(seqs[s], end - d + 1, end)
                       /\ d = MaxDepth \/ end = Len(seqs[s])

(* Every suffix of a sequence, cut at MaxDepth, has left an endpoint. *)
SuffixesHaveEndpoints ==
    \A s \in SeqIds : \A i \in 1 .. Len(seqs[s]) :
        LET j == IF i + MaxDepth - 1 < Len(seqs[s]) THEN i + MaxDepth - 1 ELSE Len(seqs[s])
            m == MatchContext(SubSeq(seqs[s], i, j))
        IN  m[1] # Nil /\ m[2] = heap[m[1]].len /\ heap[m[1]].ends[s] # 0

(* What the pointers of the tree lead to is what the sequences say, through *)
(* appends that fuse and split and removals that merge.                     *)
PointersFollowPaths ==
    TypeOK /\ ActiveAtSuffixes /\ RefsFollowPath /\ EndpointsFollowPath /\ SuffixesHaveEndpoints

(* Paths are compressed: below the root a child's count is smaller than    *)
(* its parent's, so no node could be merged into its child.                *)
PathsCompressed ==
    \A n \in DOMAIN heap \ {Root} :
        \A k \in Kids(heap, n) : heap[k].count < heap[n].count

(* The siblings list is the children in nonincreasing order of count, each *)
(* child is under its first token, and only reachable nodes are alive.     *)
ChildrenInOrder ==
    /\ DOMAIN heap = Subtree(heap, Root)
    /\ \A n \in DOMAIN heap :
         LET o == heap[n].order
         IN  /\ Len(o) = Cardinality(Kids(heap, n))
             /\ {o[i] : i \in DOMAIN o} = Kids(heap, n)
             /\ \A i \in 1 .. (Len(o) - 1) : heap[o[i]].count >= heap[o[i + 1]].count
             /\ \A t \in Tokens : heap[n].kids[t] # Nil =>
                  /\ heap[heap[n].kids[t]].token = t
                  /\ heap[heap[n].kids[t]].parent = n
                  /\ TokensOf(heap[n].kids[t])[1] = t

(* The tree has no more nodes than it needs, in the order the drafts need. *)
TreeIsCompressed == PathsCompressed /\ ChildrenInOrder

(* What append asserts when its loop reaches active node n (the lines      *)
(* before the case split and in cases 1a and 2), over the heap as the      *)
(* earlier steps of the loop have left it.                                 *)
LoopAsserts(h, n, s, tok) ==
    LET kid   == h[n].kids[tok]
        ended == {r \in SeqIds : h[n].ends[r] # 0}
    IN  n # Root =>
          /\ h[n].ends[s] = Len(seqs[s])
          /\ (kid = Nil /\ h[n].count = 1) => Kids(h, n) = {} /\ h[n].refSeq = s
          /\ (kid # Nil /\ OneFewer(h, n, kid)) => Kids(h, n) = {kid} /\ ended = {s}

(* Whatever is appended next, no assertion of append fails: the nodes a    *)
(* step of the loop fuses, shifts or splits never upset a later step.      *)
AppendAssertsHold ==
    \A s \in SeqIds, tok \in Tokens : \A i \in DOMAIN Window(s) :
        LoopAsserts(AppendLoop(s, tok, i - 1).heap, Window(s)[i], s, tok)
=============================================================================
