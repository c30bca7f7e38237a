--------------------------- MODULE SwiftKVForward ---------------------------
(***************************************************************************)
(* One forward pass of a SwiftKV model (vllm/swiftkv/llama_swiftkv.py).    *)
(* The keys and values of the remaining layers are written for the whole   *)
(* batch; then only the tokens whose logits are asked for go on, the       *)
(* attention metadata is rewritten for them, and what the last layer makes *)
(* of them is put back where they were.                                    *)
(*                                                                         *)
(* A token is <<i, j>>, the j-th that request i has in the batch, a page   *)
(* is <<i, p>>.  Indices, slots among them, are the code's, from 0.        *)
(***************************************************************************)
EXTENDS Integers, Sequences, SequencesExt, FiniteSets

CONSTANTS
    Backends,  \* the attention backends tried
    NumBlocks, \* blocks (of one slot) of the cache
    MaxGraph,  \* cuda_graph_max_batch_size
    MaxReqs,   \* bound: requests of a batch
    MaxTokens, \* bound: tokens of a request in a batch
    MaxPages   \* bound: pages of a request

SwiftKVAssumption ==
    /\ Backends \subseteq {"flash_attention", "flashinfer"}
    /\ {MaxReqs, MaxTokens, MaxPages} \subseteq Nat \ {0}
    /\ MaxGraph \in Nat /\ NumBlocks \in Nat /\ NumBlocks >= MaxReqs * MaxTokens

VARIABLES
    backend,
    batch,  \* for each request its tokens, how many of its last ones have
            \* logits, and its pages
    stage,  \* how far the pass has come
    meta,   \* attn_metadata
    cache,  \* a remaining layer's kv_cache: what each cell holds
    states  \* hidden_states: the token a row belongs to, or Nothing

vars == <<backend, batch, stage, meta, cache, states>>

BatchReqs == {r \in [n : 1 .. MaxTokens, logits : 1 .. MaxTokens, pages : 1 .. MaxPages] : r.logits <= r.n}
Reqs == DOMAIN batch
Nothing == <<0, 0>>  \* stands for what no token of this batch has written

-----------------------------------------------------------------------------
(* Tensors.                                                                *)

(* pad(cumsum(s), (1, 0))                                                  *)
Cumulated(s) ==
    LET sum[k \in 0 .. Len(s)] == IF k = 0 THEN 0 ELSE sum[k - 1] + s[k]
    IN  sum

(* torch.argsort: the places of s, such that its values do not decrease.   *)
(* No stable sort is asked for, so equal values may come in any order.     *)
ArgSorts(s) ==
    {b \in [DOMAIN s -> DOMAIN s] : \A j, k \in DOMAIN s : j < k => b[j] # b[k] /\ s[b[j]] <= s[b[k]]}

(* A set of numbers, the least first.                                      *)
InOrder(S) == [r \in 1 .. Cardinality(S) |-> CHOOSE i \in S : Cardinality({j \in S : j <= i}) = r]

(* The batch as it was scheduled.                                          *)
Tokens == FlattenSeq([i \in Reqs |-> [j \in 1 .. batch[i].n |-> <<i, j>>]])
QueryStartLoc == Cumulated([i \in Reqs |-> batch[i].n])
LogitsIndices ==
    FlattenSeq([i \in Reqs |-> [k \in 1 .. batch[i].logits |-> QueryStartLoc[i] - batch[i].logits + k - 1]])
NumSurviving == Len(LogitsIndices)

(* FlashInfer's builder plans a wrapper for the requests with one token    *)
(* and one for the others, where there are any.                            *)
Scheduled ==
    [order |-> [i \in Reqs |-> i],
     starts |-> QueryStartLoc,
     slots |-> [t \in DOMAIN Tokens |-> t - 1],
     pages |-> FlattenSeq([i \in Reqs |-> [p \in 1 .. batch[i].pages |-> <<i, p>>]]),
     indptr |-> Cumulated([i \in Reqs |-> batch[i].pages]),
     decodes |-> 0,
     prefillTokens |-> 0,
     decodeWrapper |-> \E i \in Reqs : batch[i].n = 1,
     prefillWrapper |-> \E i \in Reqs : batch[i].n > 1,
     logits |-> LogitsIndices,
     sorted |-> <<>>,
     inverse |-> <<>>]

-----------------------------------------------------------------------------
(* The keys and values of every token go into the remaining layers' cache  *)
(* before any token is dropped.  Where they go is guessed from the shape   *)
(* of the cache: [num_blocks, 2, ...] or [2, num_blocks, ...].             *)
Shape == IF backend = "flashinfer" THEN <<NumBlocks, 2>> ELSE <<2, NumBlocks>>
Cell(kind, slot) == IF backend = "flashinfer" THEN <<slot, kind>> ELSE <<kind, slot>>
GuessedCell(kind, slot) == IF Shape[2] = 2 THEN <<slot, kind>> ELSE <<kind, slot>>
Cells == (0 .. Shape[1] - 1) \X (0 .. Shape[2] - 1)

Written == DOMAIN Tokens

WriteKv ==
    /\ stage = "prefilled"
    /\ LET Here(c) == {w \in Written \X {0, 1} : GuessedCell(w[2], meta.slots[w[1]]) = c}
           Value(w) == <<Tokens[w[1]], w[2]>>
       IN  cache' = [c \in Cells |-> IF Here(c) = {} THEN cache[c] ELSE Value(CHOOSE w \in Here(c) : TRUE)]
    /\ stage' = "written"
    /\ UNCHANGED <<backend, batch, meta, states>>

-----------------------------------------------------------------------------
(* _fix_flash_attention_metadata: the requests keep their order; a request *)
(* begins after the logits indices that are before its first token.        *)
SearchSorted(at) == Cardinality({k \in DOMAIN meta.logits : meta.logits[k] < at})

FixFlashAttention ==
    /\ stage = "written" /\ backend = "flash_attention"
    /\ meta' = [meta EXCEPT !.starts = [i \in DOMAIN @ |-> SearchSorted(@[i])],
                            !.slots = [k \in DOMAIN meta.logits |-> @[meta.logits[k] + 1]]]
    /\ stage' = "fixed"
    /\ UNCHANGED <<backend, batch, cache, states>>

(* _fix_flashinfer_metadata, 1 to 4: the requests left with one token go   *)
(* before the others, and their pages with them.                           *)
ReqOf(at) == CHOOSE i \in Reqs : meta.starts[i - 1] <= at /\ at < meta.starts[i]
Surviving(i) == Cardinality({k \in DOMAIN meta.logits : ReqOf(meta.logits[k]) = i})
DecodeReqs == InOrder({i \in Reqs : Surviving(i) = 1})
PrefillReqs == InOrder({i \in Reqs : Surviving(i) > 1})
RearrangedUnsorted(order) == meta.pages  \* wrong: the pages stay where they were
Rearranged(order) ==
    FlattenSeq([r \in DOMAIN order |-> SubSeq(meta.pages, meta.indptr[order[r] - 1] + 1, meta.indptr[order[r]])])

Classify ==
    /\ stage = "written" /\ backend = "flashinfer"
    /\ LET order == DecodeReqs \o PrefillReqs
           position == [i \in Reqs |-> CHOOSE r \in DOMAIN order : order[r] = i]
       IN  meta' = [meta EXCEPT
                       !.order = order,
                       !.starts = Cumulated([r \in DOMAIN order |-> Surviving(order[r])]),
                       !.pages = Rearranged(order),
                       !.indptr = Cumulated([r \in DOMAIN order |-> @[order[r]] - @[order[r] - 1]]),
                       !.decodes = Len(DecodeReqs),
                       !.prefillTokens = Len(PrefillReqs),
                       !.sorted = [k \in DOMAIN meta.logits |-> position[ReqOf(meta.logits[k])]]]
    /\ stage' = "classified"
    /\ UNCHANGED <<backend, batch, cache, states>>

(* 5: the tokens follow their requests.                                    *)
SortTokens ==
    /\ stage = "classified"
    /\ \E sorted \in ArgSorts(meta.sorted) : meta' = [meta EXCEPT !.sorted = sorted]
    /\ stage' = "sorted"
    /\ UNCHANGED <<backend, batch, cache, states>>

(* 5 to 7: a wrapper is planned again if there is one.                     *)
FixFlashInfer ==
    /\ stage = "sorted"
    /\ \E inverse \in ArgSorts(meta.sorted) :
          meta' = [meta EXCEPT
                      !.inverse = inverse,
                      !.slots = [k \in DOMAIN meta.sorted |-> @[meta.logits[meta.sorted[k]] + 1]],
                      !.decodeWrapper = @ /\ meta.decodes > 0,
                      !.prefillWrapper = @ /\ Len(meta.order) > meta.decodes]
    /\ stage' = "fixed"
    /\ UNCHANGED <<backend, batch, cache, states>>

-----------------------------------------------------------------------------
(* index_fn: what is left is copied into the buffers of the captured       *)
(* graphs, or into new tensors when it is too much for them; the buffers   *)
(* are read up to the padded size, past what was written.                  *)
FinalIndices == IF backend = "flashinfer" THEN [k \in DOMAIN meta.sorted |-> meta.logits[meta.sorted[k]]] ELSE meta.logits
PaddedSize == IF NumSurviving <= MaxGraph THEN NumSurviving + (NumSurviving % 2) ELSE NumSurviving  \* pad_for_cudagraph

Gather ==
    /\ stage = "fixed"
    /\ states' = [k \in 1 .. PaddedSize |-> IF k <= NumSurviving THEN states[FinalIndices[k] + 1] ELSE Nothing]
    /\ stage' = "gathered"
    /\ UNCHANGED <<backend, batch, meta, cache>>

(* forward: the rows that went through the remaining layers take the place *)
(* of what the prefill layers made of their tokens.                        *)
Row(k) == IF backend = "flashinfer" THEN meta.inverse[k] ELSE k

Return ==
    /\ stage = "gathered"
    /\ states' = [t \in DOMAIN Tokens |->
                     IF t - 1 \in ToSet(meta.logits)
                     THEN <<"final", states[Row(CHOOSE k \in DOMAIN meta.logits : meta.logits[k] = t - 1)]>>
                     ELSE <<"prefill", Tokens[t]>>]
    /\ stage' = "returned"
    /\ UNCHANGED <<backend, batch, meta, cache>>

Init ==
    /\ backend \in Backends
    /\ batch \in UNION {[1 .. n -> BatchReqs] : n \in 1 .. MaxReqs}
    /\ stage = "prefilled"
    /\ meta = Scheduled
    /\ cache = [c \in Cells |-> <<Nothing, 0>>]
    /\ states = Tokens

Done == stage = "returned" /\ UNCHANGED vars
Next == WriteKv \/ FixFlashAttention \/ Classify \/ SortTokens \/ FixFlashInfer \/ Gather \/ Return \/ Done
Spec == Init /\ [][Next]_vars

-----------------------------------------------------------------------------

TypeOK ==
    /\ stage \in {"prefilled", "written", "classified", "sorted", "fixed", "gathered", "returned"}
    /\ meta.starts[0] = 0 /\ Len(meta.order) = Len(batch)
    /\ stage \in {"fixed", "gathered"} => Len(meta.slots) = NumSurviving /\ meta.starts[Len(batch)] = NumSurviving
    /\ stage = "gathered" => Len(states) >= NumSurviving

(* When the remaining layers run, what their attention takes for the rows  *)
(* of a request are its tokens, each once; it looks for their keys in that *)
(* request's pages, and it writes the key of each token into that token's  *)
(* slot, whatever the order of the batch and however many are left.        *)
RowsOf(r) == meta.starts[r - 1] + 1 .. meta.starts[r]
RowsKeepTheirRequest ==
    stage = "gathered" =>
        \A r \in DOMAIN meta.order :
            LET i == meta.order[r]
                first == batch[i].n - batch[i].logits + 1
            IN  /\ {states[k] : k \in RowsOf(r)} = {<<i, j>> : j \in first .. batch[i].n}
                /\ Cardinality(RowsOf(r)) = batch[i].logits
                /\ \A k \in RowsOf(r) : Tokens[meta.slots[k] + 1] = states[k]
                /\ SubSeq(meta.pages, meta.indptr[r - 1] + 1, meta.indptr[r])
                       = [p \in 1 .. batch[i].pages |-> <<i, p>>]

(* The attention of the remaining layers finds the key and the value of    *)
(* every token of the batch where it looks for them, of the dropped ones   *)
(* too.                                                                    *)
DroppedTokensAreCached ==
    stage # "prefilled" =>
        \A t \in DOMAIN Tokens, kind \in {0, 1} : cache[Cell(kind, t - 1)] = <<Tokens[t], kind>>

(* The logits of a token are computed from what the last layer made of     *)
(* that token, and of no other.                                            *)
ResultsGoBack ==
    stage = "returned" => \A k \in 1 .. NumSurviving :
                              LET t == LogitsIndices[k] + 1 IN states[t] = <<"final", Tokens[t]>>

(* llama_swiftkv.py:133, LlamaSwiftKVAttention.forward: "The attention     *)
(* call works the same for both FlashAttention and FlashInfer": every row  *)
(* has a wrapper that computes its attention.                              *)
EveryRowIsAttended ==
    (stage = "gathered" /\ backend = "flashinfer") =>
        /\ meta.decodes > 0 => meta.decodeWrapper
        /\ Len(meta.order) > meta.decodes => meta.prefillWrapper

(* The same line: the causal mask is by position in both, so the tokens    *)
(* of a request have to come in their order.                               *)
RowsInOrder ==
    stage = "gathered" =>
        \A r \in DOMAIN meta.order : \A j, k \in RowsOf(r) : j < k => states[j][2] < states[k][2]

(* llama_swiftkv.py:450, _fix_flashinfer_metadata: "decode: exactly 1      *)
(* token, prefill: > 1 token": the number of prefill tokens is that of the *)
(* tokens of the prefill requests.                                         *)
PrefillTokensCounted ==
    (stage = "gathered" /\ backend = "flashinfer") => meta.decodes + meta.prefillTokens = NumSurviving
=============================================================================
