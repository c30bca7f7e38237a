--------------------------- MODULE CacheSpeculate ---------------------------
(***************************************************************************)
(* SuffixDecodingCache.speculate (suffix_decoding/cache.py): one call.     *)
(* The end of the context is looked up in the request's own tree and then  *)
(* in the global one, by SuffixTree::speculate (csrc/suffix_decoding/      *)
(* suffix_tree.cc), which tries ever longer ends of it and keeps the best  *)
(* draft; the better draft of the two trees is returned.  Which ends a     *)
(* tree holds, and what it drafts for each, is left open here: Speculation *)
(* says what it is.                                                        *)
(***************************************************************************)
EXTENDS Integers, Sequences

CONSTANTS
    MaxTreeDepth, \* max_tree_depth
    MaxContext,   \* bound: length of a context
    MaxArg,       \* bound: max_spec_tokens
    Omitted       \* max_spec_tokens left to its default, None

CacheSpeculateAssumption ==
    /\ MaxTreeDepth \in Nat \ {0} /\ {MaxContext, MaxArg} \subseteq Nat
    /\ Omitted \notin Nat

VARIABLES
    call,   \* the arguments, whether the request is active, and what each
            \* tree drafts for the ends of the context it holds
    search, \* search[t]: the ends tried in tree t, and the best draft so far
    result  \* what came of the call

vars == <<call, search, result>>

Trees == {"local", "global"}

(* The tokens of the context that are looked up, the last ones.            *)
UsedContext(n) == IF n > MaxTreeDepth THEN MaxTreeDepth ELSE n

(* What a tree may draft for one end of the context: at most max tokens,   *)
(* each of a probability above 0 and up to 1.  Scores are in halves.       *)
Drafts(max) ==
    {d \in [len : 0 .. max, score : 0 .. 2 * max] :
        IF d.len = 0 THEN d.score = 0 ELSE d.score \in 1 .. 2 * d.len}

(* The ends of n tokens a tree holds are those up to some length, and the  *)
(* whole is not looked for; an end is its length, here its position.       *)
Found(n, max) ==
    UNION {[1 .. m -> Drafts(max)] : m \in {m \in 0 .. n : m = 0 \/ m < n}}

CallsFor(n, max) ==
    [active : BOOLEAN, context : {n}, max : {max},
     found : [Trees -> Found(UsedContext(n), max)]]

LimitedCalls ==
    UNION {UNION {CallsFor(n, max) : max \in 0 .. MaxArg} : n \in 0 .. MaxContext}

Calls ==
    LimitedCalls \union
      [active : BOOLEAN, context : 0 .. MaxContext, max : {Omitted}, found : [Trees -> {<<>>}]]

NoDraft  == [len |-> 0, score |-> 0, match |-> 0]
NoResult == [from |-> "none", draft |-> NoDraft]

Init ==
    /\ call \in Calls
    /\ search = [t \in Trees |-> [tried |-> 0, best |-> NoDraft]]
    /\ result = NoResult

(* speculate, before it asks a tree.  The default is read from             *)
(* self.max_depth, which no cache has.                                     *)
Raise ==
    /\ result = NoResult /\ (~ call.active \/ call.max = Omitted)
    /\ result' = [NoResult EXCEPT !.from = IF ~ call.active THEN "ValueError"
                                           ELSE "AttributeError"]
    /\ UNCHANGED <<call, search>>

AtLeastAsGood(p, q) == p >= q

Searched(t) == search[t].tried = Len(call.found[t])

(* One turn of the loop of SuffixTree::speculate, in the local tree first. *)
TryLonger(t) ==
    /\ result = NoResult /\ call.active /\ call.max # Omitted
    /\ ~ Searched(t) /\ (t = "global" => Searched("local"))
    /\ LET k == search[t].tried + 1
           d == call.found[t][k]
           best == search[t].best
       IN  search' = [search EXCEPT ![t] =
             [tried |-> k,
              best  |-> IF AtLeastAsGood(d.score, best.score)
                        THEN [len |-> d.len, score |-> d.score, match |-> k]
                        ELSE best]]
    /\ UNCHANGED <<call, result>>

(* The draft of the request's own tree, unless the global one's is better. *)
Return ==
    /\ result = NoResult /\ call.active /\ call.max # Omitted
    /\ \A t \in Trees : Searched(t)
    /\ LET from == IF search["local"].best.score >= search["global"].best.score
                   THEN "local" ELSE "global"
       IN  result' = [from |-> from, draft |-> search[from].best]
    /\ UNCHANGED <<call, search>>

Next == Raise \/ Return \/ \E t \in Trees : TryLonger(t)

Spec == Init /\ [][Next]_vars

-----------------------------------------------------------------------------

(* The draft returned has the highest score of all that either tree drafts *)
(* for an end of the context, strictly above the request's own tree's if   *)
(* it is the global one's; of the drafts of that score in its tree it is   *)
(* the one with the longest match.  It is within the limit asked for, and  *)
(* its match shorter than the trees are deep, so that a token was seen     *)
(* behind it.                                                              *)
DraftIsBestOfBoth ==
    result.from \in Trees =>
        LET d    == result.draft
            mine == call.found[result.from]
        IN  /\ \A t \in Trees : \A k \in 1 .. Len(call.found[t]) :
                  /\ call.found[t][k].score <= d.score
                  /\ result.from = "global" /\ t = "local" => call.found[t][k].score < d.score
            /\ \A k \in 1 .. Len(mine) : mine[k].score = d.score => k <= d.match
            /\ IF mine = <<>> THEN d = NoDraft
               ELSE d.match \in 1 .. Len(mine) /\ mine[d.match] = [len |-> d.len, score |-> d.score]
            /\ d.len <= call.max /\ d.match < MaxTreeDepth

(* The parameter is Optional with the default None (cache.py:239), and the *)
(* docstring (cache.py:271-272) lists one error only: "ValueError: If the  *)
(* request with the given `req_id` is not active."                         *)
OnlyInactiveRaises ==
    call.active => result.from \notin {"ValueError", "AttributeError"}
=============================================================================
