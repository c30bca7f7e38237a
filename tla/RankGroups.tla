----------------------------- MODULE RankGroups -----------------------------
(***************************************************************************)
(* How Ulysses lays the ranks out (vllm/ulysses.py): the process groups    *)
(* UlyssesParallelState.initialize_model_parallel cuts out of one array of *)
(* ranks, the pipeline stage and the attention heads a rank takes its      *)
(* share from, and the two all-to-alls of UlyssesAttention.forward.  The   *)
(* weights of the two modes live side by side and share one KV cache, so a *)
(* rank must own the same heads whichever mode a batch runs in.            *)
(***************************************************************************)
EXTENDS Integers, FiniteSets, FiniteSetsExt, Functions

CONSTANTS
  Degrees,      \* the parallel degrees tried for each axis
  MaxWorld,     \* bound: ranks of a configuration
  Heads,        \* the head counts tried
  Tokens        \* bound: tokens each sequence-parallel rank holds

VARIABLES
  cfg,          \* the parallel configuration and the model's head counts
  group,        \* parallel_state: family -> its groups, <<>> when None
  destroyed     \* the families whose communicators were destroyed

vars == <<cfg, group, destroyed>>

Families == {"tp", "pp", "dp", "ep", "sp", "sp_tp"}
NoGroups == [f \in Families |-> <<>>]

Divides(a, b) == b % a = 0

(***************************************************************************)
(* The configurations vLLM and the two models accept: heads divide over    *)
(* the ranks of both modes, key heads divide over them or are replicated.  *)
(***************************************************************************)
Fits(c) ==
  /\ c.x * c.dp * c.pp * c.sp * c.tp <= MaxWorld
  /\ Divides(c.tp * c.sp, c.h)
  /\ Divides(c.k, c.h)
  /\ \A n \in {c.tp, c.tp * c.sp} : Divides(n, c.k) \/ Divides(c.k, n)

Configs == {c \in [x : {1, 2}, dp : Degrees, pp : Degrees, sp : Degrees,
                   tp : Degrees, h : Heads, k : Heads] : Fits(c)}

-----------------------------------------------------------------------------
(* Groups of ranks.                                                        *)

\* all_ranks = arange(world).reshape(-1, DP, PP, SP, TP): the axes are 0..4.
Axes == 0..4
Shape == [a \in Axes |-> CASE a = 0 -> cfg.x  [] a = 1 -> cfg.dp
                           [] a = 2 -> cfg.pp [] a = 3 -> cfg.sp
                           [] a = 4 -> cfg.tp]

Stride(shape, a) ==
  FoldFunctionOnSet(LAMBDA m, n : m * n, 1, shape, {b \in Axes : b > a})
World == Stride(Shape, -1)
Ranks == 0..World - 1

Coordinate(shape, i, a) == (i \div Stride(shape, a)) % shape[a]

\* The array read row by row after transpose(i, j).
Transposed(i, j) ==
  LET swap == [a \in Axes |-> CASE a = i -> j [] a = j -> i [] OTHER -> a]
      shape == [a \in Axes |-> Shape[swap[a]]]
  IN  [n \in Ranks |->
         MapThenSumSet(LAMBDA a : Coordinate(shape, n, swap[a])
                                    * Stride(Shape, a), Axes)]

\* reshape(-1, n).unbind(0)
Rows(array, n) ==
  [g \in 0..(World \div n) - 1 |-> [m \in 0..n - 1 |-> array[g * n + m]]]

GroupRanks ==
  [tp |-> Rows(Transposed(4, 4), cfg.tp), pp |-> Rows(Transposed(2, 4), cfg.pp),
   dp |-> Rows(Transposed(1, 4), cfg.dp),
   ep |-> Rows(Transposed(1, 3), cfg.dp * cfg.tp),
   sp |-> Rows(Transposed(3, 4), cfg.sp),
   sp_tp |-> Rows(Transposed(3, 4), cfg.sp * cfg.tp)]

\* The group of a rank, as the sequence of its members, and its place there.
Mine(f, r) == CHOOSE g \in Range(group[f]) : r \in Range(g)
RankInGroup(f, r) == CHOOSE m \in DOMAIN Mine(f, r) : Mine(f, r)[m] = r

\* get_layers_start_end_indices: the stage whose layers the rank holds.
Stage(r) == (r \div (cfg.tp * cfg.sp)) % cfg.pp

-----------------------------------------------------------------------------
(* Attention heads.                                                        *)

\* vLLM's share of n heads for rank i of m: a slice, or one replicated head.
VllmShare(n, m, i) ==
  IF n >= m THEN [j \in 0..(n \div m) - 1 |-> i * (n \div m) + j]
  ELSE [j \in {0} |-> i \div (m \div n)]

Slice(heads, n, i) == [j \in 0..n - 1 |-> heads[i * n + j]]
Length(heads) == Cardinality(DOMAIN heads)

QueryHeads(r) == VllmShare(cfg.h, cfg.tp, RankInGroup("tp", r))
KeyHeads(r) == VllmShare(cfg.k, cfg.tp, RankInGroup("tp", r))

\* UlyssesAttention.__init__: the key heads of a rank outside shift mode.
KeyChunk(heads, s) ==
  IF Length(heads) < cfg.sp
  THEN Slice(heads, 1, s \div (cfg.sp \div Length(heads)))
  ELSE Slice(heads, Length(heads) \div cfg.sp, s)

QueryChunk(heads, s) == Slice(heads, Length(heads) \div cfg.sp, s)

\* get_num_kv_heads: what the KV cache of a rank is shaped for.
CachedHeads(r) ==
  LET n == Length(KeyHeads(r)) \div cfg.sp IN IF n > 1 THEN n ELSE 1

\* In shift mode the model is sharded over the whole sp_tp group.
ShiftQueries(r) == VllmShare(cfg.h, cfg.sp * cfg.tp, RankInGroup("sp_tp", r))
ShiftKeys(r) == VllmShare(cfg.k, cfg.sp * cfg.tp, RankInGroup("sp_tp", r))
UlyssesQueries(r) == QueryChunk(QueryHeads(r), RankInGroup("sp", r))
UlyssesKeys(r) == KeyChunk(KeyHeads(r), RankInGroup("sp", r))

\* The attention backend: query head j of a rank reads the key head of its
\* group; the result names the token, the query head and the key head.
Attend(token, queries, keys) ==
  [j \in DOMAIN queries |->
     <<token, queries[j],
       keys[j \div (Length(queries) \div Length(keys))]>>]

\* The first all-to-all of forward: the rank receives its chunk of heads from
\* every rank of its group, one block of tokens after another; it attends.
Attended(r) ==
  LET s == RankInGroup("sp", r)
      from(n) == Mine("sp", r)[n \div Tokens]
  IN  [n \in 0..cfg.sp * Tokens - 1 |->
         Attend(<<from(n), n % Tokens>>, QueryChunk(QueryHeads(from(n)), s),
                KeyChunk(KeyHeads(from(n)), s))]

\* The second sends each block of tokens back; the rank puts the chunks of a
\* token side by side.
\* wrong: the blocks received are read in the order of the tokens
ForwardUntransposed(r) ==
  LET n == Length(QueryHeads(r)) \div cfg.sp
  IN  [t \in 0..Tokens - 1 |-> [j \in DOMAIN QueryHeads(r) |->
         LET i == t * cfg.sp + j \div n
         IN  Attended(Mine("sp", r)[i \div Tokens])
               [RankInGroup("sp", r) * Tokens + (i % Tokens)][j % n]]]

Forward(r) ==
  LET n == Length(QueryHeads(r)) \div cfg.sp
  IN  [t \in 0..Tokens - 1 |-> [j \in DOMAIN QueryHeads(r) |->
         Attended(Mine("sp", r)[j \div n])
           [RankInGroup("sp", r) * Tokens + t][j % n]]]

-----------------------------------------------------------------------------

Init ==
  /\ cfg \in Configs
  /\ group = NoGroups
  /\ destroyed = {}

\* The assertions of initialize_model_parallel are its guard.
Initialize ==
  /\ group = NoGroups
  /\ group' = [f \in Families |-> GroupRanks[f]]
  /\ UNCHANGED <<cfg, destroyed>>

\* WorkerProc.shutdown: vLLM's destroy_model_parallel forgets its own groups;
\* the patched one destroys _SP and _SP_TP, and clears only its own locals.
Shutdown ==
  /\ group # NoGroups
  /\ destroyed = {}
  /\ destroyed' = Families
  /\ group' = [f \in Families |-> IF f \in {"sp", "sp_tp"} THEN group[f] ELSE <<>>]
  /\ UNCHANGED cfg

Next == Initialize \/ Shutdown
Spec == Init /\ [][Next]_vars

-----------------------------------------------------------------------------

Running == group # NoGroups /\ destroyed = {}

TypeOK ==
  /\ cfg \in Configs
  /\ DOMAIN group = Families
  /\ destroyed \subseteq Families

\* Every family deals each rank to exactly one of its groups, all of one size:
\* a collective over a family waits for no rank outside it and misses none.
GroupsPartitionTheRanks ==
  Running =>
    \A f \in Families :
      /\ UNION {Range(g) : g \in Range(group[f])} = Ranks
      /\ \A i, j \in DOMAIN group[f] :
           i # j => Range(group[f][i]) \cap Range(group[f][j]) = {}
      /\ \A i \in DOMAIN group[f] : IsInjective(group[f][i])

\* Two ranks that share a group differ only in that family's coordinates: they
\* hold the same stage unless it is a pipeline group, and a pipeline group
\* meets the stages in order, at the stage whose layers each rank loads.
StagesFollowThePipeline ==
  Running =>
    \A r \in Ranks :
      /\ RankInGroup("pp", r) = Stage(r)
      /\ \A f \in Families \ {"pp"} :
           \A q \in Range(Mine(f, r)) : Stage(q) = Stage(r)

\* The experts of a layer are spread over the tensor ranks of every replica:
\* an expert group is a union of tensor groups and of data groups.
ExpertsSpanTheReplicas ==
  Running =>
    \A r \in Ranks : \A q \in Range(Mine("ep", r)) :
      Range(Mine("tp", q)) \cup Range(Mine("dp", q)) \subseteq Range(Mine("ep", r))

\* A rank owns the same query heads and the same key heads in both modes, so
\* that what one mode wrote to the KV cache is what the other mode reads.
SameHeadsInBothModes ==
  Running =>
    \A r \in Ranks :
      /\ UlyssesQueries(r) = ShiftQueries(r)
      /\ UlyssesKeys(r) = ShiftKeys(r)
      /\ Length(UlyssesKeys(r)) = CachedHeads(r)

\* The two all-to-alls compute attention: for each token the rank holds, the
\* output has the rank's query heads in order, each over its own key head.
ForwardIsAttention ==
  Running =>
    \A r \in Ranks : \A t \in 0..Tokens - 1 : \A j \in DOMAIN QueryHeads(r) :
      LET q == QueryHeads(r)[j]
      IN  Forward(r)[t][j] = <<<<r, t>>, q, q \div (cfg.h \div cfg.k)>>

\* After the shutdown no destroyed communicator is still registered: the code
\* leaves _SP and _SP_TP behind, and initialising again in the process would
\* fail the assertion that they are None.
ShutdownForgetsGroups == \A f \in destroyed : group[f] = <<>>
=============================================================================
