------------------------------ MODULE Simulator -----------------------------
(***************************************************************************)
(* The offline simulator (suffix_decoding/simulator.py): one process_task. *)
(* It caches the responses of training examples, may evict some of them,   *)
(* and decodes the evaluation examples against their known responses: a    *)
(* draft is accepted as far as it agrees with the response, and one more   *)
(* token is given by the model.                                            *)
(*                                                                         *)
(* The cache is what SuffixCache shows it to be, as far as the simulator   *)
(* sees it; a draft is any tree of tokens within the limit it is given.    *)
(***************************************************************************)
EXTENDS Integers, Sequences, FiniteSets, SequencesExt, FiniteSetsExt

CONSTANTS
    Tokens,     \* token ids
    Examples,   \* the dataset has the examples 0 .. Examples - 1
    MaxLen,     \* bound: length of the responses of evaluation examples
    MaxDepth,   \* --max-depth
    MaxSpecs,   \* values of --max-spec-tokens
    Fractions,  \* values of --evict-fraction, as <<numerator, denominator>>
    Strategies, \* values of --evict-strategy
    MaxCacheds  \* values of --max-cached-requests

SimulatorAssumption ==
    /\ {Examples, MaxLen} \subseteq Nat /\ MaxDepth \in Nat \ {0}
    /\ MaxSpecs \subseteq Nat
    /\ \A f \in Fractions : f[1] \in Nat /\ f[2] \in Nat \ {0} /\ f[1] <= f[2]
    /\ MaxCacheds \subseteq Int /\ Strategies \subseteq {"oldest", "newest", "random"}

VARIABLES
    config,   \* the row of configurations this task is for
    phase,    \* train, evict, eval or done
    train,    \* training examples still to be cached
    todo,     \* evaluation examples still to be run
    cached,   \* request ids in the cache, the oldest first
    atEvict,  \* history: the cached ids when the eviction was over, and how many there were
    request,  \* the evaluation example being decoded, or -1
    truth,    \* its ground_truth_response
    response, \* the tokens of it decoded so far
    results   \* its steps

vars == <<config, phase, train, todo, cached, atEvict, request, truth, response, results>>

-----------------------------------------------------------------------------
(* start_request gives the request a place in the cache, at the cost of    *)
(* the oldest when there is a limit.                                       *)
Room(ids) == IF config.maxCached < 0 \/ Len(ids) < config.maxCached THEN ids ELSE Tail(ids)
WithRequest(ids, id) == IF config.maxCached = 0 THEN ids ELSE Append(Room(ids), id)

(* Training requests have negative ids.                                    *)
TrainId(e) == -1 - e

BuildCache ==
    /\ phase = "train"
    /\ IF train = <<>>
       THEN phase' = "evict" /\ UNCHANGED <<train, cached>>
       ELSE /\ cached' = WithRequest(cached, TrainId(Head(train)))
            /\ train' = Tail(train)
            /\ UNCHANGED phase
    /\ UNCHANGED <<config, todo, atEvict, request, truth, response, results>>

(* round(): to the nearest, to the even one of two.                        *)
Round(a, b) ==
    LET q == a \div b
        twice == 2 * (a % b)
    IN  IF twice > b \/ (twice = b /\ q % 2 = 1) THEN q + 1 ELSE q

(* The slices [:n] and [-n:] and a sample of n; [-0:] is the whole list.   *)
Evicted(ids, n) ==
    CASE config.strategy = "oldest" -> {ToSet(SubSeq(ids, 1, n))}
      [] config.strategy = "newest" -> {ToSet(IF n = 0 THEN ids ELSE SubSeq(ids, Len(ids) - n + 1, Len(ids)))}
      [] config.strategy = "random" -> kSubset(n, ToSet(ids))

EvictFraction ==
    /\ phase = "evict"
    /\ IF config.fraction[1] = 0
       THEN UNCHANGED cached
       ELSE \E gone \in Evicted(cached, Round(Len(cached) * config.fraction[1], config.fraction[2])) :
               cached' = SelectSeq(cached, LAMBDA id : id \notin gone)
    /\ atEvict' = [left |-> Len(cached'), had |-> Len(cached)]
    /\ phase' = "eval"
    /\ UNCHANGED <<config, train, todo, request, truth, response, results>>

-----------------------------------------------------------------------------
(* suffix_decode.                                                          *)

(* The limit of a draft: process_task passes max_depth for it.             *)
SpecLimit == MaxDepth

StartRequest ==
    /\ phase = "eval" /\ request = -1 /\ todo # <<>>
    /\ request' = Head(todo) /\ todo' = Tail(todo)
    /\ truth' \in SeqOf(Tokens, MaxLen)
    /\ cached' = WithRequest(cached, request')
    /\ response' = <<>> /\ results' = <<>>
    /\ UNCHANGED <<config, phase, train, atEvict>>

(* A draft is a sequence of tokens, each with a parent before it or 0, and *)
(* no two of a parent the same (Speculation: TreeDraftIsBest).             *)
Drafts ==
    {d \in SeqOf([token : Tokens, parent : 0 .. SpecLimit], SpecLimit) :
        /\ \A i \in DOMAIN d : d[i].parent < i
        /\ IsInjective(d)}

(* The tokens of the rest of the response that the draft has, from its     *)
(* roots down; at each node the first child with the token is taken.       *)
AcceptedByPosition(d, rest) ==  \* wrong: a tree is read like a path
    LET agree == {n \in 0 .. Min({Len(d), Len(rest)}) : \A i \in 1 .. n : d[i].token = rest[i]}
    IN  Max(agree)

Accepted(d, rest) ==
    LET Node[k \in 0 .. Len(rest)] ==  \* the node of the k-th accepted token, -1 when there is none
            IF k = 0 THEN 0
            ELSE LET kids == {i \in DOMAIN d : d[i].parent = Node[k - 1] /\ d[i].token = rest[k]}
                 IN  IF Node[k - 1] = -1 \/ kids = {} THEN -1 ELSE Min(kids)
    IN  Max({k \in 0 .. Len(rest) : Node[k] # -1})

NewTokens(rest, n) == SubSeq(rest, 1, n) \o IF n < Len(rest) THEN <<rest[n + 1]>> ELSE <<>>

DecodeStep(d) ==
    LET rest == SubSeq(truth, Len(response) + 1, Len(truth))
        n    == Accepted(d, rest)
        new  == NewTokens(rest, n)
    IN  /\ phase = "eval" /\ request # -1 /\ Len(response) < Len(truth)
        /\ response' = response \o new
        /\ results' = Append(results, [draft |-> d, accept |-> n, out |-> Len(new)])
        /\ UNCHANGED <<config, phase, train, todo, cached, atEvict, request, truth>>

StopRequest ==
    /\ phase = "eval" /\ request # -1 /\ Len(response) >= Len(truth)
    /\ request' = -1
    /\ UNCHANGED <<config, phase, train, todo, cached, atEvict, truth, response, results>>

Finish ==
    /\ phase = "eval" /\ request = -1 /\ todo = <<>>
    /\ phase' = "done"
    /\ UNCHANGED <<config, train, todo, cached, atEvict, request, truth, response, results>>

-----------------------------------------------------------------------------

Configs ==
    [maxSpec : MaxSpecs, fraction : Fractions, maxCached : MaxCacheds,
     strategy : Strategies, numTrain : 0 .. Examples, numEval : 0 .. Examples]

(* sample_data, of one dataset: the head and the tail of a shuffle, which  *)
(* may be the identity; get_data has refused more than there are.          *)
Sample(c) ==
    /\ train = [i \in 1 .. c.numTrain |-> i - 1]
    /\ todo = [i \in 1 .. c.numEval |-> Examples - c.numEval + i - 1]

Init ==
    /\ config \in {c \in Configs : c.numEval >= 1 /\ c.numTrain + c.numEval <= Examples}
    /\ phase = "train"
    /\ Sample(config)
    /\ cached = <<>>
    /\ atEvict = [left |-> 0, had |-> 0]
    /\ request = -1 /\ truth = <<>> /\ response = <<>> /\ results = <<>>

Next ==
    \/ BuildCache \/ EvictFraction
    \/ StartRequest \/ \E d \in Drafts : DecodeStep(d) \/ StopRequest
    \/ Finish

Spec == Init /\ [][Next]_vars /\ WF_vars(Next)

-----------------------------------------------------------------------------

TypeOK ==
    /\ config \in Configs
    /\ phase \in {"train", "evict", "eval", "done"}
    /\ {train, todo} \subseteq Seq(0 .. Examples - 1)
    /\ cached \in Seq(-Examples .. Examples - 1) /\ IsInjective(cached)
    /\ config.maxCached < 0 \/ Len(cached) <= config.maxCached
    /\ request \in -1 .. Examples - 1
    /\ truth \in Seq(Tokens) /\ response \in Seq(Tokens)

(* Speculation loses nothing: whatever the drafts, the response is the     *)
(* known one, every step adds the accepted tokens and one of the model     *)
(* (none at the end), and accepts no more than was drafted.                *)
ResponseIsTruth ==
    /\ IsPrefix(response, truth)
    /\ Len(response) = FoldLeft(LAMBDA sum, r : sum + r.out, 0, results)
    /\ \A i \in DOMAIN results :
          /\ results[i].accept <= Len(results[i].draft)
          /\ \/ results[i].out = results[i].accept + 1
             \/ i = Len(results) /\ response = truth /\ results[i].out = results[i].accept /\ results[i].out > 0

(* A step accepts as much as any branch of the draft has: no path from a   *)
(* root agrees with more of the response.                                  *)
Paths(d) == {p \in SeqOf(DOMAIN d, Len(d)) :
               \A k \in DOMAIN p : d[p[k]].parent = IF k = 1 THEN 0 ELSE p[k - 1]}
Agree(d, p, rest) == Len(p) <= Len(rest) /\ \A k \in DOMAIN p : d[p[k]].token = rest[k]
BestBranchAccepted ==
    results # <<>> =>
        LET r    == Last(results)
            rest == SubSeq(truth, Len(response) - r.out + 1, Len(truth))
        IN  \A p \in Paths(r.draft) : Agree(r.draft, p, rest) => Len(p) <= r.accept

(* No response that is evaluated was cached before: neither the example    *)
(* nor its id is one of training.  This is of one dataset split in two; of *)
(* two files nothing says that they have no example in common.             *)
EvaluatesUnseen ==
    phase \in {"train", "evict"} =>
        /\ ToSet(train) \intersect ToSet(todo) = {}
        /\ ToSet(cached) \intersect (ToSet(todo) \union {TrainId(e) : e \in ToSet(todo)}) = {}

(* Every task ends.                                                        *)
TaskEnds == <>(phase = "done")

(* The help of --evict-fraction (simulator.py:570): "Evict a fraction of   *)
(* the cached sequences before running requests".                          *)
EvictsTheFraction ==
    phase \in {"eval", "done"} =>
        atEvict.had - atEvict.left = Round(atEvict.had * config.fraction[1], config.fraction[2])

(* The help of --max-spec-tokens (simulator.py:527): "Max speculation      *)
(* tokens (if 0, defaults to max_depth)".                                  *)
DraftsWithinMaxSpec ==
    \A i \in DOMAIN results : config.maxSpec # 0 => Len(results[i].draft) <= config.maxSpec
=============================================================================
