--------------------------- MODULE SpecDecodeStep ---------------------------
(***************************************************************************)
(* The speculation step of the model runner (vllm/model_runner.py:         *)
(* _update_suffix_cache, propose_draft_token_ids,                          *)
(* propose_suffix_draft_token_ids, propose_arctic_draft_token_ids): after  *)
(* every batch it reports the sampled tokens to the suffix cache and       *)
(* proposes a draft for every row.  The scheduler (vLLM's, external) may   *)
(* take a request out of the batch and bring it back.                      *)
(*                                                                         *)
(* A token of a request is its position, 1 being the first of the prompt.  *)
(* SuffixCache says what the calls do to the cache; here only what is      *)
(* local to a request, and whether its response is cached.                 *)
(***************************************************************************)
EXTENDS Integers, Sequences, FiniteSets, SequencesExt, FiniteSetsExt

CONSTANTS
    Reqs,         \* request ids, never used again
    PromptLen,    \* num_prompt_tokens of every request
    MaxModelLen,  \* max_model_len
    MaxSampled,   \* tokens a request may be given in one step
    Method,       \* speculative_config.method: "suffix" or "arctic"
    EnableSuffix, \* speculative_config.enable_suffix_decoding
    NumSpec,      \* speculative_config.num_speculative_tokens
    DisableBy,    \* speculative_config.disable_by_batch_size
    MaxSpecLen,   \* vLLM's MAX_SPEC_LEN
    None          \* no local tree

SpecDecodeStepAssumption ==
    /\ IsFiniteSet(Reqs)
    /\ {PromptLen, MaxModelLen, NumSpec, DisableBy, MaxSpecLen} \subseteq Nat \ {0}
    /\ MaxSampled \in Nat
    /\ PromptLen < MaxModelLen
    /\ Method \in {"suffix", "arctic"}
    /\ EnableSuffix \in BOOLEAN
    /\ Method = "suffix" => EnableSuffix  \* config.py:105
    /\ None \notin Seq(Nat)

VARIABLES
    finished,  \* the requests that are done
    numTokens, \* tokens of each request, 0 before it is first scheduled
    rows,      \* input_batch.req_ids
    rowLen,    \* num_tokens_no_spec: rows past the batch keep what they had
    local,     \* local[r]: what r's local suffix tree holds, or None
    cached,    \* the requests with a cached response
    drafts,    \* the draft of each row, and which method it is from
    since      \* history: since[r]: r's tokens when its local tree was made

vars == <<finished, numTokens, rows, rowLen, local, cached, drafts, since>>

MaxRows == Cardinality(Reqs)
Active == {r \in Reqs : local[r] # None}
Positions(from, to) == [i \in 1 .. to - from |-> from + i]
Before(r) == IF numTokens[r] = 0 THEN PromptLen ELSE numTokens[r]
MinOf(a, b) == IF a < b THEN a ELSE b

-----------------------------------------------------------------------------
(* _update_suffix_cache, for a batch of the rows rs with sampled[i] new    *)
(* tokens for row i: n[r] is the number of r's tokens with them.           *)

Sampled(rs, sampled) == {rs[i] : i \in {i \in DOMAIN rs : sampled[i] > 0}}

(* Wrong: the report of the first step goes missing.                       *)
UpdatedLocalUnreported(rs, sampled, n) ==
    [r \in Reqs |->
        IF r \notin Range(rs) THEN None
        ELSE IF r \notin Sampled(rs, sampled) THEN local[r]
        ELSE IF local[r] = None THEN Positions(0, PromptLen)
        ELSE local[r] \o Positions(Before(r), n[r])]

UpdatedLocal(rs, sampled, n) ==
    [r \in Reqs |->
        IF r \notin Range(rs) THEN None                            \* stop_request
        ELSE IF r \notin Sampled(rs, sampled) THEN local[r]
        ELSE (IF local[r] = None THEN Positions(0, PromptLen)      \* start_request
              ELSE local[r])
                 \o Positions(Before(r), n[r])]

(* A start opens a response, after dropping an older one of the same name; *)
(* the cache may evict any other for it.                                   *)
UpdateCached(started) ==
    \E evicted \in SUBSET (cached \ started) :
        /\ started = {} => evicted = {}
        /\ cached' = (cached \union started) \ evicted

-----------------------------------------------------------------------------
(* propose_suffix_draft_token_ids: a draft has a length and a score, which *)
(* is a sum of probabilities and so never more than the length.  It is     *)
(* asked for only if there are new tokens and room for more.               *)

NoDraft == [by |-> "none", len |-> 0, asked |-> FALSE]

SuffixRoomFull(n) == MinOf(MaxSpecLen, MaxModelLen - n)         \* wrong: off by one
SuffixRoom(n) == MinOf(MaxSpecLen, MaxModelLen - n - 1)

SuffixResults(k, n) ==
    IF k = 0 \/ n >= MaxModelLen THEN {[len |-> 0, score |-> 0, asked |-> FALSE]}
    ELSE {d \in [len : 0 .. SuffixRoom(n), score : 0 .. SuffixRoom(n), asked : {TRUE}] : d.score <= d.len}

MinScore == IF Method = "suffix" THEN 0 ELSE NumSpec

(* propose_arctic_draft_token_ids, for rows of the lengths len (the whole  *)
(* array, ns rows of which are in use) with new[i] tokens for row i: the   *)
(* number of tokens the draft model proposes, the same for all its rows,   *)
(* and the rows it proposes for.                                           *)
NumPredict(len, ns) == MinOf(NumSpec, MaxModelLen - Max({len[i] : i \in DOMAIN len}) - 1)

ArcticRows(len, new) ==
    IF EnableSuffix /\ \E i \in DOMAIN new : new[i] = 0 THEN {}
    ELSE {i \in DOMAIN new : MinOf(NumSpec, MaxModelLen - (len[i] + Max({new[i], 1})) - 1) > 0}

(* The tokens left for the draft model: none for a row whose suffix draft  *)
(* is good enough.                                                         *)
TakenBySuffix(result) == EnableSuffix /\ result.score >= MinScore

Proposed(len, sampled, results) ==
    LET new  == [i \in DOMAIN sampled |-> IF TakenBySuffix(results[i]) THEN 0 ELSE sampled[i]]
        predict == NumPredict(len, Len(sampled))
        model == IF Method = "suffix" \/ predict <= 0 THEN {} ELSE ArcticRows(len, new)
    IN  [i \in DOMAIN sampled |->
            IF TakenBySuffix(results[i]) /\ results[i].len > 0
            THEN [by |-> "suffix", len |-> results[i].len, asked |-> results[i].asked]
            ELSE IF i \in model THEN [by |-> "model", len |-> predict, asked |-> results[i].asked]
            ELSE [NoDraft EXCEPT !.asked = results[i].asked]]

ProposeDrafts(len, sampled) ==
    IF Len(sampled) > DisableBy
    THEN drafts' = [i \in DOMAIN sampled |-> NoDraft]
    ELSE IF ~EnableSuffix
    THEN drafts' = Proposed(len, sampled, [i \in DOMAIN sampled |-> [len |-> 0, score |-> 0, asked |-> FALSE]])
    ELSE \E results \in [DOMAIN sampled -> UNION {SuffixResults(sampled[i], len[i]) : i \in DOMAIN sampled}] :
            /\ \A i \in DOMAIN sampled : results[i] \in SuffixResults(sampled[i], len[i])
            /\ drafts' = Proposed(len, sampled, results)

-----------------------------------------------------------------------------

(* One execute_model after the forward pass: the rows are any requests the *)
(* scheduler put in the batch.  A row without new tokens is a part of a    *)
(* prompt, or of what a request that came back has to compute again.       *)
Batches == {rs \in UNION {[1 .. k -> Reqs] : k \in 1 .. MaxRows} : IsInjective(rs)}

Step(rs, sampled) ==
    LET new(r) == IF r \in Range(rs) THEN sampled[CHOOSE i \in DOMAIN rs : rs[i] = r] ELSE 0
        n      == [r \in Reqs |-> IF r \in Range(rs) THEN Before(r) + new(r) ELSE numTokens[r]]
        len    == [i \in 1 .. MaxRows |-> IF i <= Len(rs) THEN n[rs[i]] ELSE rowLen[i]]
        started == Sampled(rs, sampled) \ Active
    IN  /\ Range(rs) \intersect finished = {}
        /\ \A i \in DOMAIN rs : n[rs[i]] <= MaxModelLen
        /\ numTokens' = n
        /\ rows' = rs
        /\ rowLen' = len
        /\ IF EnableSuffix
           THEN /\ local' = UpdatedLocal(rs, sampled, n)
                /\ since' = [r \in Reqs |-> IF r \in started THEN Before(r)
                                            ELSE IF r \in Range(rs) THEN since[r] ELSE 0]
                /\ UpdateCached(started)
           ELSE UNCHANGED <<local, since, cached>>
        /\ UNCHANGED finished
        /\ ProposeDrafts(len, sampled)

(* The scheduler finishes a request between two steps.                     *)
Finish(r) ==
    /\ numTokens[r] > 0 /\ r \notin finished
    /\ finished' = finished \union {r}
    /\ UNCHANGED <<numTokens, rows, rowLen, local, cached, drafts, since>>

Init ==
    /\ finished = {}
    /\ numTokens = [r \in Reqs |-> 0]
    /\ rows = <<>>
    /\ rowLen = [i \in 1 .. MaxRows |-> 0]
    /\ local = [r \in Reqs |-> None]
    /\ cached = {}
    /\ drafts = <<>>
    /\ since = [r \in Reqs |-> 0]

Next ==
    \/ \E rs \in Batches : \E sampled \in [DOMAIN rs -> 0 .. MaxSampled] : Step(rs, sampled)
    \/ \E r \in Reqs : Finish(r)

Spec == Init /\ [][Next]_vars

-----------------------------------------------------------------------------

TypeOK ==
    /\ finished \subseteq Reqs
    /\ numTokens \in [Reqs -> 0 .. MaxModelLen]
    /\ rows \in Seq(Reqs) /\ IsInjective(rows)
    /\ rowLen \in [1 .. MaxRows -> 0 .. MaxModelLen]
    /\ \A r \in Active : local[r] \in Seq(1 .. MaxModelLen)
    /\ cached \subseteq Reqs
    /\ drafts \in Seq([by : {"none", "suffix", "model"}, len : 0 .. Max({MaxSpecLen, NumSpec}), asked : BOOLEAN])
    /\ since \in [Reqs -> 0 .. MaxModelLen]

(* A local tree holds the prompt of its request and every token reported   *)
(* since it was made, each once and in order, however the request left the *)
(* batch and came back, and whichever steps gave it no token.              *)
LocalIsPromptAndReports ==
    \A r \in Active : local[r] = Positions(0, PromptLen) \o Positions(since[r], numTokens[r])

(* After a step only requests of the batch are active, so the prompt of a  *)
(* request that is gone is not kept, and every request the cache is asked  *)
(* to speculate for is active (speculate raises otherwise).                *)
ActiveAreScheduled ==
    EnableSuffix =>
        /\ Active \subseteq Range(rows)
        /\ \A i \in DOMAIN drafts : drafts[i].asked => rows[i] \in Active

(* A draft and the token that follows it fit into the longest sequence the *)
(* model takes.                                                            *)
DraftsFitModel ==
    \A i \in DOMAIN drafts :
        drafts[i].len > 0 => numTokens[rows[i]] + drafts[i].len + 1 <= MaxModelLen

(* In hybrid mode all drafts of a step are from one method: "dynamically   *)
(* selects the speculative strategy (suffix-based or model-based) per      *)
(* inference step" (docs/arctic-speculator.rst:119-121).                   *)
OneMethodPerStep ==
    EnableSuffix => \A i, j \in DOMAIN drafts : {drafts[i].by, drafts[j].by} # {"suffix", "model"}

(* docs/suffix-decoding.rst:20-21: the per-request tree is "Dynamically    *)
(* constructed during the current inference request from its ongoing       *)
(* prompt and generated tokens".                                           *)
LocalHoldsWholeRequest ==
    \A r \in Active : numTokens[r] > PromptLen => local[r] = Positions(0, numTokens[r])
=============================================================================
