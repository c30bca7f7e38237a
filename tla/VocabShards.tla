---------------------------- MODULE VocabShards ----------------------------
(***************************************************************************)
(* The vocabulary of a draft model over the ranks of a node                *)
(* (vllm/spec_dec/vocab_parallel_embedding.py), and how the ranks agree on *)
(* the next token (generate_token_ids in arctic_speculator.py, and         *)
(* logits_processor_opt.py).  The draft model is cut over the larger of    *)
(* the tensor-parallel and the sequence-parallel group: every rank holds   *)
(* an equal part of the padded vocabulary, its real tokens first.          *)
(*                                                                         *)
(* A weight row is the token it belongs to, Padding if none does.          *)
(***************************************************************************)
EXTENDS Integers, Sequences, SequencesExt, FiniteSets, FiniteSetsExt

CONSTANTS
    Sps, Tps, \* the sequence- and the tensor-parallel sizes tried
    MaxRanks, \* bound: the ranks of a layout
    Vocabs,   \* the vocabulary sizes tried
    Added,    \* the numbers of added (LoRA) tokens tried
    Pads,     \* the multiples the vocabulary is padded to (64 in the code)
    Signs,    \* of the scores of the tokens
    Padding, NotScored

VARIABLES
    cfg,     \* a layout and a vocabulary
    scored   \* NotScored, or the outcome of a pass of the draft model: best,
             \* the tokens scored highest, which may be two; sign, whether
             \* scores are above 0, the score of a padding row; and tie, which
             \* of equal scores of a shard topk returns

vars == <<cfg, scored>>

-----------------------------------------------------------------------------
(* The ranks.                                                              *)

Ranks == 0 .. cfg.sp * cfg.tp - 1
TP(r) == [m \in 1 .. cfg.tp |-> (r \div cfg.tp) * cfg.tp + m - 1]
SP(r) == [m \in 1 .. cfg.sp |-> (m - 1) * cfg.tp + (r % cfg.tp)]

(* SpeculatorTPInit *)
TpSize == Max({cfg.sp, cfg.tp})
TpRank(r) == r % TpSize
TPGroup(r) == IF cfg.sp > cfg.tp THEN SP(r) ELSE TP(r)

-----------------------------------------------------------------------------
(* The shards.                                                             *)

PadVocabSize(n) == ((n + cfg.pad - 1) \div cfg.pad) * cfg.pad
OrgPadded == PadVocabSize(cfg.org)
Padded == PadVocabSize(OrgPadded + cfg.added)
NumEmbeddings == cfg.org + cfg.added
PerPartition == Padded \div TpSize

MinOf(a, b) == IF a < b THEN a ELSE b

(* _get_indices: the ranges of the base and of the added tokens of shard i.*)
Shard(i) ==
    LET w == OrgPadded \div TpSize
        a == (Padded - OrgPadded) \div TpSize
    IN  [orgWidth |-> w, addedWidth |-> a,
         orgStart |-> MinOf(i * w, cfg.org), orgEnd |-> MinOf((i + 1) * w, cfg.org),
         addedStart |-> MinOf(i * a + cfg.org, NumEmbeddings),
         addedEnd |-> MinOf((i + 1) * a + cfg.org, NumEmbeddings)]

NumOrg(i) == Shard(i).orgEnd - Shard(i).orgStart
NumAdded(i) == Shard(i).addedEnd - Shard(i).addedStart

(* weight_loader: the shard's part of the checkpoint, which has the base   *)
(* tokens only, and zeros.                                                 *)
Weights(i) ==
    LET start == Shard(i).orgStart
        real  == NumOrg(i)
    IN  [j \in 0 .. PerPartition - 1 |-> IF j < real THEN start + j ELSE Padding]

(* get_masked_input_and_mask: the row of a token, or none.                 *)
InOrg(i, t) == Shard(i).orgStart <= t /\ t < Shard(i).orgEnd
InAdded(i, t) == Shard(i).addedStart <= t /\ t < Shard(i).addedEnd
Holds(i, t) == TpSize = 1 \/ InOrg(i, t) \/ InAdded(i, t)
RowUnpadded(i, t) ==  \* wrong: added tokens right behind the real ones
    IF TpSize = 1 THEN t
    ELSE IF InOrg(i, t) THEN t - Shard(i).orgStart
    ELSE t - (Shard(i).addedStart - NumOrg(i))
Row(i, t) ==
    IF TpSize = 1 THEN t
    ELSE IF InOrg(i, t) THEN t - Shard(i).orgStart
    ELSE t - (Shard(i).addedStart - NumOrg(i) - (Shard(i).orgWidth - NumOrg(i)))

(* forward: what the ranks of the tensor-parallel group add up for a token.*)
Embedded(r, t) == {<<q, Weights(TpRank(q))[Row(TpRank(q), t)]>> : q \in {q \in ToSet(TP(r)) : Holds(TpRank(q), t)}}

(* get_sharded_to_full_mapping: the gathered logits in the order of tokens.*)
Range0(from, n) == [j \in 1 .. n |-> from + j - 1]
Mapping ==
    LET overShards(Part(_)) == FlattenSeq([i \in 1 .. TpSize |-> Part(i - 1)])
        start(i) == PerPartition * i
        base(i)  == Range0(start(i), NumOrg(i))
        added(i) == Range0(start(i) + Shard(i).orgWidth, NumAdded(i))
        pads(i)  == Range0(start(i) + NumOrg(i), Shard(i).orgWidth - NumOrg(i))
                        \o Range0(start(i) + Shard(i).orgWidth + NumAdded(i), Shard(i).addedWidth - NumAdded(i))
    IN  overShards(base) \o overShards(added) \o overShards(pads)

-----------------------------------------------------------------------------
(* The next token.                                                         *)

Score(t) == IF t = Padding THEN 0
            ELSE IF scored.sign = "positive" THEN (IF t \in scored.best THEN 2 ELSE 1)
            ELSE (IF t \in scored.best THEN -1 ELSE -2)

(* _get_logits: the shard's own logits, cut at the size of the whole       *)
(* vocabulary.                                                             *)
Logits(i) == [j \in 0 .. MinOf(PerPartition, cfg.org) - 1 |-> Score(Weights(i)[j])]
Maxima(f) == LET top == Max({f[k] : k \in DOMAIN f}) IN {j \in DOMAIN f : f[j] = top}
TopK(i) ==
    LET top == Maxima(Logits(i)) IN IF scored.tie = "first" THEN Min(top) ELSE Max(top)

(* generate_token_ids: all ranks gather the best of each and take the      *)
(* first of the highest.                                                   *)
NextToken(r) ==
    LET Gathered(i) == LET logits == Logits(i)
                           k == TopK(i)
                       IN  [val |-> logits[k], index |-> k + i * Cardinality(DOMAIN logits)]
        gathered == [m \in DOMAIN TPGroup(r) |-> Gathered(TpRank(TPGroup(r)[m]))]
    IN  gathered[Min(Maxima([m \in DOMAIN gathered |-> gathered[m].val]))].index

Init ==
    /\ cfg \in [sp : Sps, tp : Tps, org : Vocabs, added : Added, pad : Pads]
    /\ cfg.sp * cfg.tp <= MaxRanks
    /\ OrgPadded % TpSize = 0 /\ Padded % TpSize = 0  \* divide
    /\ PerPartition <= cfg.org \/ TpSize = 1
    /\ scored = NotScored

(* A pass.  (No draft model has added tokens: they would be counted in the *)
(* width of its logits.)                                                   *)
Forward ==
    /\ scored = NotScored /\ cfg.added = 0
    /\ scored' \in [best : {{s, t} : s \in 0 .. cfg.org - 1, t \in 0 .. cfg.org - 1},
                    sign : Signs, tie : {"first", "last"}]
    /\ UNCHANGED cfg

Next == Forward
Spec == Init /\ [][Next]_vars

-----------------------------------------------------------------------------

(* The assertions of VocabParallelEmbeddingShardIndices and of             *)
(* VocabParallelEmbedding hold of every shard.                             *)
TypeOK ==
    \A i \in 0 .. TpSize - 1 :
        /\ 0 <= NumOrg(i) /\ NumOrg(i) <= Shard(i).orgWidth
        /\ 0 <= NumAdded(i) /\ NumAdded(i) <= Shard(i).addedWidth
        /\ Shard(i).orgWidth + Shard(i).addedWidth = PerPartition

(* vocab_parallel_embedding.py:431, forward: "Reduce across all the model  *)
(* parallel GPUs."  So the sum the ranks form for a token is the one row   *)
(* that was loaded for it.  With SP above TP it is not: the shards are     *)
(* those of the sequence-parallel group, the sum is the other one's.       *)
EmbeddingIsWhole ==
    \A r \in Ranks : \A t \in 0 .. cfg.org - 1 : \E q \in Ranks : Embedded(r, t) = {<<q, t>>}

(* Gathered logits, reordered by the mapping, are in the order of the      *)
(* tokens: where the mapping says a token is, base or added, is the row of *)
(* the one shard that embeds it; and every row is in the mapping once.     *)
MappingIsWhereTokensAre ==
    TpSize > 1 =>
        /\ ToSet(Mapping) = 0 .. Padded - 1 /\ Len(Mapping) = Padded
        /\ \A t \in 0 .. NumEmbeddings - 1 :
               \E i \in 0 .. TpSize - 1 : /\ \A k \in 0 .. TpSize - 1 : Holds(k, t) <=> k = i
                                          /\ Mapping[t + 1] = i * PerPartition + Row(i, t)

(* All ranks of the node go on with the same token, although each has     *)
(* scored a part and scores may be equal; and it is one the whole model    *)
(* scores highest, unless the scores are below those of padding rows that  *)
(* are left in a shard's logits (PicksAToken).  The ranks score the same   *)
(* states, so this is for TP not below SP (EmbeddingIsWhole); topk is      *)
(* taken to resolve ties alike on all of them.                             *)
PaddingIsScored ==
    \E i \in 0 .. TpSize - 1 : \E j \in DOMAIN Logits(i) : Weights(i)[j] = Padding

RanksPickTheBest ==
    scored # NotScored /\ cfg.sp <= cfg.tp =>
        LET token == NextToken(0)
        IN  /\ \A r \in Ranks : NextToken(r) = token
            /\ scored.sign = "positive" \/ ~ PaddingIsScored => token \in scored.best

(* vocab_parallel_embedding.py:183: "Embedding parallelized in the          *)
(* vocabulary dimension."  So the ranks a rank gathers from hold all        *)
(* shards between them.                                                    *)
GathersAllShards ==
    \A r \in Ranks : {TpRank(q) : q \in ToSet(TPGroup(r))} = 0 .. TpSize - 1

(* logits_processor_opt.py:104, _get_logits: "Remove paddings in vocab (if *)
(* any)."  So a padding row is never the next token.                       *)
PicksAToken == scored # NotScored => \A r \in Ranks : NextToken(r) < cfg.org
=============================================================================
