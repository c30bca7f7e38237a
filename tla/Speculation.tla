---------------------------- MODULE Speculation ----------------------------
(***************************************************************************)
(* SuffixTree::speculate (csrc/suffix_decoding/suffix_tree.cc): drafts read *)
(* off the tree, as operators over the state of SuffixTree.  A probability *)
(* is an exact fraction <<a, b>> where the code has a float.               *)
(***************************************************************************)
EXTENDS SuffixTree

CONSTANTS
    MaxSpec,    \* max_spec_tokens
    FactorNum,  \* max_spec_factor and max_spec_offset are the fractions
    OffsetNum,  \* FactorNum / LimitDen and OffsetNum / LimitDen
    LimitDen,
    MinProb     \* min_token_prob, a fraction

ASSUME SpeculationAssumption ==
    /\ MaxSpec \in Nat /\ LimitDen \in Nat \ {0}
    /\ FactorNum \in Int /\ OffsetNum \in Int
    /\ MinProb \in Nat \X (Nat \ {0})

AtLeast(p, q) == p[1] * q[2] >= q[1] * p[2]
Plus(p, q) == <<p[1] * q[2] + q[1] * p[2], p[2] * q[2]>>

(* The token at position idx of node n. *)
TokenAt(n, idx) == seqs[heap[n].refSeq][heap[n].refIdx + idx + 1]

EmptyDraft == [tokens |-> <<>>, parents |-> <<>>, probs |-> <<>>, score |-> <<0, 1>>]

Push(d, token, parent, prob) ==
    [tokens  |-> Append(d.tokens, token),
     parents |-> Append(d.parents, parent),
     probs   |-> Append(d.probs, prob),
     score   |-> Plus(d.score, prob)]

(* The child _speculate_path goes on to, head_child.                     *)
FirstKid(n) == heap[n].order[1]

(* _speculate_path: one turn of its loop, from position idx of node.       *)
PathStep(p, max) ==
    LET n == p.node
    IN  IF Len(p.draft.tokens) >= max \/ ~ AtLeast(p.prob, MinProb) THEN p
        ELSE IF p.idx < heap[n].len
        THEN [p EXCEPT !.draft = Push(@, TokenAt(n, p.idx), Len(p.draft.tokens), p.prob),
                       !.idx = @ + 1]
        ELSE IF heap[n].order = <<>> THEN p
        ELSE LET kid == FirstKid(n)
             IN  [p EXCEPT !.node = kid, !.idx = 0,
                           !.prob = <<@[1] * heap[kid].count, @[2] * heap[n].count>>]

(* A parent is a position in the draft, 0 for none (-1 in the code). *)
SpeculatePath(node, idx, max) ==
    LET After[i \in 0 .. (2 * MaxDepth)] ==
            IF i = 0
            THEN [node |-> node, idx |-> idx, prob |-> <<1, 1>>, draft |-> EmptyDraft]
            ELSE PathStep(After[i - 1], max)
    IN  After[2 * MaxDepth].draft

(* The items of highest probability, which HeapItemCmp brings to the top. *)
Foremost(queue) == {it \in queue : \A o \in queue : AtLeast(it.prob, o.prob)}

(* The children of n in the order of head_child and next_sibling; broken,  *)
(* the list walked from its other end.                                     *)
SiblingsFromTail(n) ==
    LET o == heap[n].order IN [i \in DOMAIN o |-> o[Len(o) + 1 - i]]
Siblings(n) == heap[n].order

(* _speculate_tree: one turn of its loop pops an item of highest           *)
(* probability; which of several, std::priority_queue leaves open.  The    *)
(* walk over the children stops at the first improbable one.               *)
TreeSteps(t, max) ==
    LET Prob(it, kid) == <<it.prob[1] * heap[kid].count,
                           it.prob[2] * heap[it.node].count>>
        Walked(it) ==
            LET kids == Siblings(it.node)
            IN  {kids[i] : i \in {i \in DOMAIN kids :
                                    \A j \in 1 .. i : AtLeast(Prob(it, kids[j]), MinProb)}}
        Popped(it) ==
            IF it.idx < heap[it.node].len
            THEN [draft |-> Push(t.draft, TokenAt(it.node, it.idx), it.parent, it.prob),
                  queue |-> (t.queue \ {it}) \union
                              {[it EXCEPT !.idx = @ + 1,
                                          !.parent = Len(t.draft.tokens) + 1]}]
            ELSE [t EXCEPT !.queue = (@ \ {it}) \union
                    {[prob |-> Prob(it, k), node |-> k, idx |-> 0, parent |-> it.parent] :
                       k \in Walked(it)}]
    IN  IF Len(t.draft.tokens) >= max \/ t.queue = {} THEN {t}
        ELSE {Popped(it) : it \in Foremost(t.queue)}

SpeculateTree(node, idx, max) ==
    LET item == [prob |-> <<1, 1>>, node |-> node, idx |-> idx, parent |-> 0]
        Turns == MaxSpec + 2 * Cardinality(DOMAIN heap)
        After[i \in 0 .. Turns] ==
            IF i = 0 THEN {[draft |-> EmptyDraft, queue |-> {item}]}
            ELSE UNION {TreeSteps(t, max) : t \in After[i - 1]}
    IN  {t.draft : t \in After[Turns]}

(* The tokens a context of which matchLen tokens matched may be given. *)
TokenLimit(matchLen) ==
    LET scaled == (matchLen * FactorNum + OffsetNum) \div LimitDen
        capped == IF scaled < MaxSpec THEN scaled ELSE MaxSpec
    IN  IF capped < 0 THEN 0 ELSE capped

LastTokens(context, k) == SubSeq(context, Len(context) - k + 1, Len(context))

PathDraft(context, k) ==
    LET m == MatchContext(LastTokens(context, k))
    IN  SpeculatePath(m[1], m[2], TokenLimit(k))

Matches(context, k) == MatchContext(LastTokens(context, k))[1] # Nil

(* Whether a draft of score p replaces the best one so far, of score q.    *)
AtLeastAsGood(p, q) == AtLeast(p, q)

(* speculate, with use_tree_spec off: ever longer ends of the context, the *)
(* whole context excepted, until one is not in the tree; ties go to the    *)
(* longer match.                                                           *)
Speculate(context) ==
    LET Best[k \in 0 .. (Len(context) - 1)] ==
            IF k = 0 THEN [draft |-> EmptyDraft, matchLen |-> 0, over |-> FALSE]
            ELSE LET b == Best[k - 1]
                     d == PathDraft(context, k)
                 IN  IF b.over \/ ~ Matches(context, k) THEN [b EXCEPT !.over = TRUE]
                     ELSE IF AtLeastAsGood(d.score, b.draft.score)
                     THEN [b EXCEPT !.draft = d, !.matchLen = k]
                     ELSE b
    IN  Best[Len(context) - 1]

-----------------------------------------------------------------------------
(* The continuations of w the tree can see, and their relative frequency. *)
Continuations(w) ==
    {x \in UNION {[1 .. k -> Tokens] : k \in 1 .. (MaxDepth - Len(w))} :
       Occurrences(w \o x) > 0}

Frequency(w, x) == <<Occurrences(w \o x), Occurrences(w)>>

SameFraction(p, q) == p[1] * q[2] = q[1] * p[2]

Matched == {w \in Grams : MatchContext(w)[1] # Nil}

(* A path draft is the greedy continuation: each token is a most frequent  *)
(* one after the context and the draft so far, its probability is exactly  *)
(* how often the context was followed by the draft up to it, and the draft *)
(* stops early only where no continuation is frequent enough.              *)
PathDraftIsGreedy ==
    \A w \in Matched :
        LET m == MatchContext(w)
            d == SpeculatePath(m[1], m[2], MaxSpec)
            n == Len(d.tokens)
            Upto(i) == SubSeq(d.tokens, 1, i)
        IN  /\ n <= MaxSpec
            /\ \A i \in 1 .. n :
                 /\ d.parents[i] = i - 1
                 /\ SameFraction(d.probs[i], Frequency(w, Upto(i)))
                 /\ AtLeast(d.probs[i], MinProb)
                 /\ \A t \in Tokens : Occurrences(w \o Upto(i - 1) \o <<t>>)
                                        <= Occurrences(w \o Upto(i))
            /\ n < MaxSpec =>
                 \A t \in Tokens : Append(Upto(n), t) \in Continuations(w) =>
                    ~ AtLeast(Frequency(w, Append(Upto(n), t)), MinProb)

(* The continuation that token i of a tree draft ends. *)
DraftPath(d, i) ==
    LET Up[k \in 0 .. MaxSpec] ==
            IF k = 0 THEN [at |-> i, path |-> <<>>]
            ELSE LET u == Up[k - 1]
                 IN  IF u.at = 0 THEN u
                     ELSE [at |-> d.parents[u.at], path |-> <<d.tokens[u.at]>> \o u.path]
    IN  Up[MaxSpec].path

(* A tree draft, whatever the queue does with ties, is a set of different  *)
(* continuations with their exact frequencies, and no continuation left    *)
(* out is more frequent than one that was drafted (nor frequent enough,    *)
(* when there was still room).                                             *)
TreeDraftIsBest ==
    \A w \in Matched : \A d \in SpeculateTree(MatchContext(w)[1], MatchContext(w)[2], MaxSpec) :
        LET n       == Len(d.tokens)
            drafted == {DraftPath(d, i) : i \in 1 .. n}
        IN  /\ n <= MaxSpec /\ Cardinality(drafted) = n
            /\ drafted \subseteq Continuations(w)
            /\ \A i \in 1 .. n : SameFraction(d.probs[i], Frequency(w, DraftPath(d, i)))
            /\ \A x \in Continuations(w) \ drafted :
                 \/ ~ AtLeast(Frequency(w, x), MinProb)
                 \/ /\ n = MaxSpec
                    /\ \A y \in drafted : AtLeast(Frequency(w, y), Frequency(w, x))

(* Stopping at the first end of the context that is not in the tree loses  *)
(* nothing: no other proper end of the context gives a draft of a higher   *)
(* score, or of the same score with a longer match.                        *)
SpeculateIsBest ==
    \A context \in Grams :
        LET b == Speculate(context)
        IN  \A k \in 1 .. (Len(context) - 1) : Matches(context, k) =>
              LET score == PathDraft(context, k).score
              IN  /\ AtLeast(b.draft.score, score)
                  /\ AtLeast(score, b.draft.score) => k <= b.matchLen

(* Every draft is the best there is: the path follows the most frequent     *)
(* continuations, the tree holds the most probable tokens, and speculate    *)
(* returns the best over all lengths of the match.                          *)
DraftsAreBest == PathDraftIsGreedy /\ TreeDraftIsBest /\ SpeculateIsBest
=============================================================================
