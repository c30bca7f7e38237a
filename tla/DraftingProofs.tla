--------------------------- MODULE DraftingProofs ---------------------------
(***************************************************************************)
(* Six parts of the drafting, with proofs about them for any value of      *)
(* their constants: the cache's choice of a draft, the graphs of the draft *)
(* models, the rows they draft for, their weights, those of a SwiftKV      *)
(* model and its forward pass.  MCDrafting adds the other parts and their  *)
(* behaviours.                                                             *)
(***************************************************************************)
EXTENDS FiniteSetTheorems, WellFoundedInduction, SequenceTheorems, TLAPS

CONSTANTS
  None,
  Idle,
  \* CacheSpeculate
  MaxTreeDepth, MaxContext, MaxArg,
  \* DraftGraphs
  MaxBatch, BatchSizes, NPredict, Lookahead,
  \* DraftRows
  NumRows, MaxDraft,
  \* SpeculatorWeights
  MaxHeads,
  \* SwiftKVWeights
  NumLayers, NumKvLayers,
  \* SwiftKVForward
  Backends, NumBlocks, MaxGraph, MaxReqs, MaxTokens, MaxPages

VARIABLES
  \* CacheSpeculate
  call, search, result,
  \* DraftGraphs
  kind, eager, graphs, inputs, next, proposal, out,
  \* DraftRows
  batch,
  \* SpeculatorWeights
  draftConfig, prefixed, complete, params,
  \* SwiftKVWeights
  mode, pending, loaded,
  \* SwiftKVForward
  backend, tokens, stage, meta, kvCache, states

Lookup == INSTANCE CacheSpeculate WITH
  Omitted <- Idle
Graphs == INSTANCE DraftGraphs WITH
  Batches <- BatchSizes, call <- proposal
Rows == INSTANCE DraftRows WITH
  MaxRows <- NumRows
Drafter == INSTANCE SpeculatorWeights WITH
  Unset <- Idle, config <- draftConfig
Layers == INSTANCE SwiftKVWeights
Pass == INSTANCE SwiftKVForward WITH
  batch <- tokens, cache <- kvCache

-----------------------------------------------------------------------------
(* CacheSpeculate.                                                         *)

(* A tree holds fewer ends of the context than it is deep, and each draft  *)
(* is a length and a score, the length within the limit.                   *)
LEMMA FoundOfATree ==
  ASSUME Lookup!CacheSpeculateAssumption, call \in Lookup!Calls, call.max # Idle,
         NEW t \in Lookup!Trees
  PROVE  /\ call.max \in Nat
         /\ Len(call.found[t]) \in Nat /\ Len(call.found[t]) < MaxTreeDepth
         /\ \A k \in 1 .. Len(call.found[t]) :
              /\ call.found[t][k].len \in Nat /\ call.found[t][k].len <= call.max
              /\ call.found[t][k].score \in Nat
              /\ call.found[t][k] = [len |-> call.found[t][k].len, score |-> call.found[t][k].score]
         /\ Len(call.found[t]) = 0 => call.found[t] = <<>>
<1>1. call \notin [active : BOOLEAN, context : 0 .. MaxContext, max : {Idle},
                   found : [Lookup!Trees -> {<<>>}]]
  OBVIOUS
<1>2. PICK n \in 0 .. MaxContext, max \in 0 .. MaxArg :
        call \in Lookup!CallsFor(n, max)
  <2>1. call \in Lookup!LimitedCalls
    BY <1>1 DEF Lookup!Calls
  <2>2. PICK n \in 0 .. MaxContext :
          call \in UNION {Lookup!CallsFor(n, max) : max \in 0 .. MaxArg}
    BY <2>1 DEF Lookup!LimitedCalls
  <2> QED
    BY <2>2
<1>3. call.max = max /\ call.found[t] \in Lookup!Found(Lookup!UsedContext(n), max)
  BY <1>2 DEF Lookup!CallsFor
<1>4. MaxTreeDepth \in Nat \ {0} /\ max \in Nat
  BY DEF Lookup!CacheSpeculateAssumption
<1>5. Lookup!UsedContext(n) \in Nat /\ Lookup!UsedContext(n) <= MaxTreeDepth
  BY <1>4 DEF Lookup!UsedContext, Lookup!CacheSpeculateAssumption
<1>6. PICK m \in 0 .. Lookup!UsedContext(n) :
        (m = 0 \/ m < Lookup!UsedContext(n)) /\ call.found[t] \in [1 .. m -> Lookup!Drafts(max)]
  BY <1>3 DEF Lookup!Found
<1>7. m \in Nat /\ m < MaxTreeDepth
  BY <1>4, <1>5, <1>6
<1>8. Len(call.found[t]) = m
  BY <1>6, <1>7
<1>9. ASSUME NEW k \in 1 .. m
      PROVE  /\ call.found[t][k].len \in Nat /\ call.found[t][k].len <= max
             /\ call.found[t][k].score \in Nat
             /\ call.found[t][k] = [len |-> call.found[t][k].len, score |-> call.found[t][k].score]
  <2>1. call.found[t][k] \in Lookup!Drafts(max)
    BY <1>6, <1>9
  <2>2. call.found[t][k] \in [len : 0 .. max, score : 0 .. 2 * max]
    BY <2>1 DEF Lookup!Drafts
  <2> QED
    BY <1>4, <2>2
<1>10. m = 0 => call.found[t] = <<>>
  BY <1>6
<1> QED
  BY <1>3, <1>4, <1>7, <1>8, <1>9, <1>10

(* What the loop has when it has tried the ends up to some length: of      *)
(* those, the draft of the highest score, and of these the longest match.  *)
BestSoFar(t) ==
  LET n == search[t].tried
      b == search[t].best
      f == call.found[t]
  IN  /\ n \in 0 .. Len(f)
      /\ b = [len |-> b.len, score |-> b.score, match |-> b.match]
      /\ b.score \in Nat /\ b.match \in Nat
      /\ \A k \in 1 .. n : f[k].score <= b.score /\ (f[k].score = b.score => k <= b.match)
      /\ IF n = 0 THEN b = Lookup!NoDraft
         ELSE b.match \in 1 .. n /\ f[b.match] = [len |-> b.len, score |-> b.score]

LookupInv ==
  /\ call \in Lookup!Calls
  /\ search = [t \in Lookup!Trees |-> search[t]]
  /\ call.max # Idle => \A t \in Lookup!Trees : BestSoFar(t)
  /\ result.from \in Lookup!Trees => call.max # Idle
  /\ Lookup!DraftIsBestOfBoth

(* One turn of the loop keeps that.                                        *)
LEMMA TurnKeepsBest ==
  ASSUME Lookup!CacheSpeculateAssumption, LookupInv, NEW t \in Lookup!Trees, Lookup!TryLonger(t)
  PROVE  BestSoFar(t)'
<1> DEFINE k == search[t].tried + 1
           f == call.found[t]
           d == f[k]
           best == search[t].best
<1>1. call.max # Idle /\ call' = call /\ ~ Lookup!Searched(t)
  BY DEF Lookup!TryLonger
<1>2. /\ Len(f) \in Nat
      /\ \A j \in 1 .. Len(f) : f[j].score \in Nat /\ f[j] = [len |-> f[j].len, score |-> f[j].score]
  BY <1>1, FoundOfATree DEF LookupInv
<1>3. BestSoFar(t)
  BY <1>1 DEF LookupInv
<1>4. k \in 1 .. Len(f) /\ search[t].tried \in Nat /\ k - 1 = search[t].tried
  BY <1>1, <1>2, <1>3 DEF BestSoFar, Lookup!Searched
<1>5. search'[t] = [tried |-> k,
                    best  |-> IF Lookup!AtLeastAsGood(d.score, best.score)
                              THEN [len |-> d.len, score |-> d.score, match |-> k]
                              ELSE best]
  BY DEF Lookup!TryLonger, LookupInv
<1>6. /\ best = [len |-> best.len, score |-> best.score, match |-> best.match]
      /\ best.score \in Nat /\ best.match \in Nat
      /\ \A j \in 1 .. k - 1 : f[j].score <= best.score /\ (f[j].score = best.score => j <= best.match)
      /\ IF k - 1 = 0 THEN best = Lookup!NoDraft
         ELSE best.match \in 1 .. k - 1 /\ f[best.match] = [len |-> best.len, score |-> best.score]
  BY <1>3, <1>4 DEF BestSoFar
<1>7. d.score \in Nat /\ d = [len |-> d.len, score |-> d.score]
  BY <1>2, <1>4
<1> HIDE DEF k, f, d, best
<1>8. CASE d.score >= best.score
  <2>1. search'[t].tried = k /\ search'[t].best = [len |-> d.len, score |-> d.score, match |-> k]
    BY <1>5, <1>8 DEF Lookup!AtLeastAsGood
  <2>2. ASSUME NEW j \in 1 .. k
        PROVE  f[j].score <= d.score /\ (f[j].score = d.score => j <= k)
    <3>1. CASE j = k
      BY <1>4, <1>7, <3>1 DEF d
    <3>2. CASE j # k
      <4>1. j \in 1 .. k - 1 /\ j \in 1 .. Len(f)
        BY <1>2, <1>4, <3>2
      <4>2. f[j].score \in Nat /\ f[j].score <= best.score
        BY <1>2, <1>6, <4>1
      <4> QED
        BY <1>4, <1>6, <1>7, <1>8, <4>1, <4>2
    <3> QED
      BY <3>1, <3>2
  <2>3. k # 0 /\ k \in 1 .. k /\ k \in Nat /\ k \in 0 .. Len(f) /\ f[k] = [len |-> d.len, score |-> d.score]
    BY <1>2, <1>4, <1>7 DEF d
  <2> QED
    BY <1>1, <1>7, <2>1, <2>2, <2>3 DEF BestSoFar, f
<1>9. CASE ~(d.score >= best.score)
  <2>1. search'[t].tried = k /\ search'[t].best = best
    BY <1>5, <1>9 DEF Lookup!AtLeastAsGood
  <2>2. k - 1 # 0
    <3>1. best.score > 0
      BY <1>6, <1>7, <1>9
    <3> QED
      BY <1>6, <3>1 DEF Lookup!NoDraft
  <2>3. best.match \in 1 .. k /\ f[best.match] = [len |-> best.len, score |-> best.score]
    BY <1>4, <1>6, <2>2
  <2>4. ASSUME NEW j \in 1 .. k
        PROVE  f[j].score <= best.score /\ (f[j].score = best.score => j <= best.match)
    <3>1. CASE j = k
      BY <1>6, <1>7, <1>9, <3>1 DEF d
    <3>2. CASE j # k
      BY <1>4, <1>6, <3>2
    <3> QED
      BY <3>1, <3>2
  <2>5. k # 0 /\ k \in 0 .. Len(f)
    BY <1>2, <1>4
  <2> QED
    BY <1>1, <1>6, <2>1, <2>3, <2>4, <2>5 DEF BestSoFar, f
<1> QED
  BY <1>8, <1>9

(* When both trees are searched, the draft picked is the best of both.     *)
LEMMA ReturnIsBest ==
  ASSUME Lookup!CacheSpeculateAssumption, LookupInv, Lookup!Return
  PROVE  Lookup!DraftIsBestOfBoth'
<1> DEFINE L == search["local"].best
           G == search["global"].best
           from == IF L.score >= G.score THEN "local" ELSE "global"
           d == search[from].best
<1>1. /\ call.max # Idle /\ call' = call /\ search' = search
      /\ \A t \in Lookup!Trees : search[t].tried = Len(call.found[t])
      /\ result' = [from |-> from, draft |-> d]
  BY DEF Lookup!Return, Lookup!Searched
<1>2. from \in Lookup!Trees /\ "local" \in Lookup!Trees /\ "global" \in Lookup!Trees
  BY DEF Lookup!Trees
<1>3. ASSUME NEW t \in Lookup!Trees
      PROVE  /\ Len(call.found[t]) \in Nat /\ Len(call.found[t]) < MaxTreeDepth /\ call.max \in Nat
             /\ \A k \in 1 .. Len(call.found[t]) :
                  /\ call.found[t][k].len \in Nat /\ call.found[t][k].len <= call.max
                  /\ call.found[t][k].score \in Nat
  BY <1>1, FoundOfATree DEF LookupInv
<1>4. ASSUME NEW t \in Lookup!Trees
      PROVE  LET n == Len(call.found[t])
                 b == search[t].best
                 f == call.found[t]
             IN  /\ b.score \in Nat /\ b.match \in Nat
                 /\ \A k \in 1 .. n : f[k].score <= b.score /\ (f[k].score = b.score => k <= b.match)
                 /\ IF n = 0 THEN b = Lookup!NoDraft
                    ELSE b.match \in 1 .. n /\ f[b.match] = [len |-> b.len, score |-> b.score]
  BY <1>1 DEF LookupInv, BestSoFar
<1>5. L.score \in Nat /\ G.score \in Nat
  BY <1>2, <1>4
<1>6. /\ L.score <= d.score /\ G.score <= d.score /\ d.score \in Nat
      /\ from = "global" => L.score < d.score
  BY <1>5
<1> HIDE DEF from
<1>7. ASSUME NEW t \in Lookup!Trees, NEW k \in 1 .. Len(call.found[t])
      PROVE  /\ call.found[t][k].score <= d.score
             /\ from = "global" /\ t = "local" => call.found[t][k].score < d.score
  <2>1. call.found[t][k].score \in Nat /\ call.found[t][k].score <= search[t].best.score
    BY <1>3, <1>4
  <2>2. CASE t = "local"
    <3>1. call.found[t][k].score <= L.score
      BY <2>1, <2>2
    <3> HIDE DEF L, d
    <3> QED
      BY <1>5, <1>6, <2>1, <3>1
  <2>3. CASE t = "global"
    <3>1. call.found[t][k].score <= G.score /\ t # "local"
      BY <2>1, <2>3
    <3> HIDE DEF G, d
    <3> QED
      BY <1>5, <1>6, <2>1, <3>1
  <2> QED
    BY <2>2, <2>3 DEF Lookup!Trees
<1>8. \A k \in 1 .. Len(call.found[from]) : call.found[from][k].score = d.score => k <= d.match
  BY <1>2, <1>4
<1>9. CASE Len(call.found[from]) = 0
  <2>1. d = Lookup!NoDraft
    BY <1>2, <1>4, <1>9
  <2>2. d.len <= call.max /\ d.match < MaxTreeDepth
    BY <1>2, <1>3, <2>1 DEF Lookup!NoDraft, Lookup!CacheSpeculateAssumption
  <2>3. call.found[from] = <<>>
    BY <1>1, <1>2, <1>9, FoundOfATree DEF LookupInv
  <2> QED
    BY <1>1, <1>2, <1>7, <1>8, <2>1, <2>2, <2>3 DEF Lookup!DraftIsBestOfBoth
<1>10. CASE Len(call.found[from]) # 0
  <2>1. d.match \in 1 .. Len(call.found[from])
        /\ call.found[from][d.match] = [len |-> d.len, score |-> d.score]
    BY <1>2, <1>4, <1>10
  <2>2. d.match < MaxTreeDepth /\ d.len <= call.max
    <3>1. call.found[from][d.match].len <= call.max
      BY <1>2, <1>3, <2>1
    <3>2. Len(call.found[from]) \in Nat /\ Len(call.found[from]) < MaxTreeDepth /\ MaxTreeDepth \in Nat
      BY <1>2, <1>3 DEF Lookup!CacheSpeculateAssumption
    <3> QED
      BY <2>1, <3>1, <3>2
  <2>3. call.found[from] # <<>>
    BY <1>10
  <2> QED
    BY <1>1, <1>2, <1>7, <1>8, <2>1, <2>2, <2>3 DEF Lookup!DraftIsBestOfBoth
<1> QED
  BY <1>9, <1>10

LEMMA LookupKeeps ==
  ASSUME Lookup!CacheSpeculateAssumption
  PROVE  LookupInv /\ [Lookup!Next]_(Lookup!vars) => LookupInv'
<1> SUFFICES ASSUME LookupInv, [Lookup!Next]_(Lookup!vars) PROVE LookupInv'
  OBVIOUS
<1>1. CASE UNCHANGED Lookup!vars
  BY <1>1 DEF Lookup!vars, LookupInv, BestSoFar, Lookup!DraftIsBestOfBoth
<1>2. CASE Lookup!Raise
  <2>1. call' = call /\ search' = search /\ result'.from \in {"ValueError", "AttributeError"}
    BY <1>2 DEF Lookup!Raise, Lookup!NoResult
  <2>2. result'.from \notin Lookup!Trees
    BY <2>1 DEF Lookup!Trees
  <2> QED
    BY <2>1, <2>2 DEF LookupInv, BestSoFar, Lookup!DraftIsBestOfBoth
<1>3. CASE Lookup!Return
  <2>1. call' = call /\ search' = search /\ call.max # Idle
    BY <1>3 DEF Lookup!Return
  <2> QED
    BY <1>3, <2>1, ReturnIsBest DEF LookupInv, BestSoFar
<1>4. ASSUME NEW t \in Lookup!Trees, Lookup!TryLonger(t)
      PROVE  LookupInv'
  <2>1. call' = call /\ result' = result /\ call.max # Idle /\ result.from \notin Lookup!Trees
    BY <1>4 DEF Lookup!TryLonger, Lookup!NoResult, Lookup!Trees
  <2>2. \A x \in Lookup!Trees \ {t} : search'[x] = search[x]
    BY <1>4 DEF Lookup!TryLonger, LookupInv
  <2>3. search' = [x \in Lookup!Trees |-> search'[x]]
    BY <1>4 DEF Lookup!TryLonger, LookupInv
  <2>4. BestSoFar(t)'
    BY <1>4, TurnKeepsBest
  <2>5. \A x \in Lookup!Trees \ {t} : BestSoFar(x)'
    BY <2>1, <2>2 DEF LookupInv, BestSoFar
  <2> QED
    BY <2>1, <2>2, <2>3, <2>4, <2>5 DEF LookupInv, Lookup!DraftIsBestOfBoth
<1> QED
  BY <1>1, <1>2, <1>3, <1>4 DEF Lookup!Next

(* SuffixDecodingCache.speculate with SuffixTree::speculate's loop: the    *)
(* draft returned is the one of the highest score of both trees, with the  *)
(* longest match of those, within the limit, for any depth, context, limit *)
(* and whatever the trees draft for each end of the context.               *)
THEOREM BetterDraftReturned ==
  ASSUME Lookup!CacheSpeculateAssumption
  PROVE  Lookup!Spec => []Lookup!DraftIsBestOfBoth
<1>1. Lookup!Init => LookupInv
  <2> SUFFICES ASSUME Lookup!Init PROVE LookupInv
    OBVIOUS
  <2>1. search = [t \in Lookup!Trees |-> [tried |-> 0, best |-> Lookup!NoDraft]] /\ call \in Lookup!Calls
    BY DEF Lookup!Init
  <2>2. result.from \notin Lookup!Trees
    BY DEF Lookup!Init, Lookup!NoResult, Lookup!Trees
  <2>3. ASSUME NEW t \in Lookup!Trees, call.max # Idle PROVE BestSoFar(t)
    BY <2>1, <2>3, FoundOfATree DEF BestSoFar, Lookup!NoDraft
  <2> QED
    BY <2>1, <2>2, <2>3 DEF LookupInv, Lookup!DraftIsBestOfBoth
<1>2. LookupInv => Lookup!DraftIsBestOfBoth
  BY DEF LookupInv
<1> QED
  BY <1>1, <1>2, LookupKeeps, PTL DEF Lookup!Spec

-----------------------------------------------------------------------------
(* DraftGraphs.  First the powers of two and what padding_size makes of    *)
(* them.                                                                   *)

LEMMA Least ==
  ASSUME NEW T, T \subseteq Nat, T # {}
  PROVE  \E x \in T : \A y \in T : x <= y
<1>1. PICK R : /\ IsWellFoundedOn(R, Nat)
               /\ \A x, y \in Nat : <<y, x>> \in R <=> y < x
  <2> DEFINE R == OpToRel(<, Nat)
  <2>1. IsWellFoundedOn(R, Nat)
    BY NatLessThanWellFounded
  <2>2. \A x, y \in Nat : <<y, x>> \in R <=> y < x
    BY DEF OpToRel
  <2> QED
    BY <2>1, <2>2
<1>2. PICK x \in T : \A y \in T : ~(<<y, x>> \in R)
  BY <1>1, WFMin
<1>3. ASSUME NEW y \in T PROVE x <= y
  <2>1. ~(y < x) /\ x \in Nat /\ y \in Nat
    BY <1>1, <1>2
  <2> QED
    BY <2>1
<1> QED
  BY <1>3

\* h doubles from 1 on over D.
Doubles(D, h) == h = [k \in D |-> IF k = 0 THEN 1 ELSE 2 * h[k - 1]]

LEMMA PowersUpTo == \A m \in Nat : \E h : Doubles(0 .. m, h)
<1> DEFINE Bad == {m \in Nat : ~ \E h : Doubles(0 .. m, h)}
<1>1. \E h : Doubles(0 .. 0, h)
  <2> DEFINE h == [k \in 0 .. 0 |-> 1]
  <2>1. Doubles(0 .. 0, h)
    BY DEF Doubles
  <2> QED
    BY <2>1
<1>2. ASSUME NEW m \in Nat, NEW h, Doubles(0 .. m, h) PROVE \E g : Doubles(0 .. m + 1, g)
  <2> DEFINE g == [k \in 0 .. m + 1 |-> IF k = 0 THEN 1 ELSE 2 * h[k - 1]]
  <2>1. \A k \in 0 .. m : g[k] = h[k]
    BY <1>2 DEF Doubles
  <2>2. \A k \in 0 .. m + 1 : (IF k = 0 THEN 1 ELSE 2 * h[k - 1]) = (IF k = 0 THEN 1 ELSE 2 * g[k - 1])
    BY <2>1
  <2>3. Doubles(0 .. m + 1, g)
    BY <2>2 DEF Doubles
  <2> QED
    BY <2>3
<1>3. Bad = {}
  <2> SUFFICES ASSUME Bad # {} PROVE FALSE
    OBVIOUS
  <2>1. PICK m \in Bad : \A n \in Bad : m <= n
    BY Least
  <2>2. m \in Nat /\ m # 0
    BY <1>1
  <2>3. m - 1 \in Nat /\ (m - 1) + 1 = m /\ m - 1 \notin Bad
    BY <2>1, <2>2
  <2>4. PICK h : Doubles(0 .. m - 1, h)
    BY <2>3
  <2>5. \E g : Doubles(0 .. (m - 1) + 1, g)
    BY <1>2, <2>3, <2>4
  <2> QED
    BY <2>1, <2>3, <2>5
<1> QED
  BY <1>3

LEMMA PowersAgree ==
  ASSUME NEW m \in Nat, NEW n \in Nat, NEW g, NEW h, Doubles(0 .. m, g), Doubles(0 .. n, h)
  PROVE  \A k \in Nat : k <= m /\ k <= n => g[k] = h[k]
<1> DEFINE Bad == {k \in Nat : k <= m /\ k <= n /\ g[k] # h[k]}
<1> SUFFICES ASSUME Bad # {} PROVE FALSE
  OBVIOUS
<1>1. PICK k \in Bad : \A j \in Bad : k <= j
  BY Least
<1>2. /\ \A j \in 0 .. m : g[j] = IF j = 0 THEN 1 ELSE 2 * g[j - 1]
      /\ \A j \in 0 .. n : h[j] = IF j = 0 THEN 1 ELSE 2 * h[j - 1]
  BY DEF Doubles
<1>3. k # 0
  BY <1>2
<1>4. k - 1 \in Nat /\ k - 1 \notin Bad /\ k - 1 <= m /\ k - 1 <= n
  BY <1>1, <1>3
<1>5. g[k - 1] = h[k - 1]
  BY <1>4
<1> QED
  BY <1>2, <1>3, <1>5

LEMMA PowerIsDoubling == Doubles(Nat, Graphs!Power)
<1> DEFINE Of(k) == CHOOSE h : Doubles(0 .. k, h)
           F == [k \in Nat |-> Of(k)[k]]
<1>1. \A k \in Nat : Doubles(0 .. k, Of(k))
  BY PowersUpTo
<1>2. ASSUME NEW k \in Nat PROVE F[k] = IF k = 0 THEN 1 ELSE 2 * F[k - 1]
  <2>1. Of(k)[k] = IF k = 0 THEN 1 ELSE 2 * Of(k)[k - 1]
    <3>1. Doubles(0 .. k, Of(k)) /\ k \in 0 .. k
      BY <1>1
    <3> HIDE DEF Of
    <3> QED
      BY <3>1 DEF Doubles
  <2>2. CASE k = 0
    BY <2>1, <2>2
  <2>3. CASE k # 0
    <3>1. k - 1 \in Nat /\ k - 1 <= k /\ k - 1 <= k - 1
      BY <2>3
    <3>2. Doubles(0 .. k, Of(k)) /\ Doubles(0 .. k - 1, Of(k - 1))
      BY <1>1, <3>1
    <3> HIDE DEF Of
    <3>3. Of(k)[k - 1] = Of(k - 1)[k - 1]
      BY <3>1, <3>2, PowersAgree
    <3> QED
      BY <2>1, <2>3, <3>1, <3>3
  <2> QED
    BY <2>2, <2>3
<1>3. Doubles(Nat, F)
  <2>1. F = [k \in Nat |-> IF k = 0 THEN 1 ELSE 2 * F[k - 1]]
    <3>1. F = [k \in Nat |-> F[k]]
      OBVIOUS
    <3> HIDE DEF F
    <3> QED
      BY <1>2, <3>1
  <2> QED
    BY <2>1, Zenon DEF Doubles
<1>4. \E f : Doubles(Nat, f)
  BY <1>3, Zenon
<1>5. Graphs!Power = CHOOSE f : Doubles(Nat, f)
  BY DEF Graphs!Power, Doubles
<1> QED
  BY <1>4, <1>5, Zenon

LEMMA Powers ==
  /\ Graphs!Power[0] = 1
  /\ \A k \in Nat : /\ Graphs!Power[k] \in Nat /\ Graphs!Power[k] > k
                    /\ Graphs!Power[k + 1] = 2 * Graphs!Power[k]
<1>1. \A k \in Nat : Graphs!Power[k] = IF k = 0 THEN 1 ELSE 2 * Graphs!Power[k - 1]
  BY PowerIsDoubling DEF Doubles
<1>2. \A k \in Nat : Graphs!Power[k + 1] = 2 * Graphs!Power[k]
  <2> TAKE k \in Nat
  <2>1. k + 1 \in Nat /\ k + 1 # 0 /\ (k + 1) - 1 = k
    OBVIOUS
  <2> QED
    BY <1>1, <2>1
<1> DEFINE Bad == {k \in Nat : ~(Graphs!Power[k] \in Nat /\ Graphs!Power[k] > k)}
<1>3. Bad = {}
  <2> SUFFICES ASSUME Bad # {} PROVE FALSE
    OBVIOUS
  <2>1. PICK k \in Bad : \A j \in Bad : k <= j
    BY Least
  <2>2. k \in Nat /\ k # 0
    BY <1>1
  <2>3. k - 1 \in Nat /\ k - 1 \notin Bad
    BY <2>1, <2>2
  <2>4. Graphs!Power[k - 1] \in Nat /\ Graphs!Power[k - 1] > k - 1 /\ Graphs!Power[k] = 2 * Graphs!Power[k - 1]
    BY <1>1, <2>2, <2>3
  <2>5. Graphs!Power[k] \in Nat /\ Graphs!Power[k] > k
    BY <2>2, <2>4
  <2> QED
    BY <2>1, <2>5
<1> QED
  BY <1>1, <1>2, <1>3

(* Rounding up to a multiple of u. *)
LEMMA RoundingUp ==
  ASSUME NEW n \in Nat, NEW u \in Nat \ {0}
  PROVE  /\ ((n + u - 1) \div u) * u \in Nat
         /\ n <= ((n + u - 1) \div u) * u
         /\ \A c \in Nat : n <= c * u => ((n + u - 1) \div u) * u <= c * u
         /\ \A m \in Nat : m <= n => ((m + u - 1) \div u) * u <= ((n + u - 1) \div u) * u
<1> DEFINE up(m) == (m + u - 1) \div u
<1>1. ASSUME NEW m \in Nat
      PROVE  up(m) \in Nat /\ up(m) * u \in Nat /\ m <= up(m) * u /\ up(m) * u <= m + u - 1
  <2> DEFINE a == m + u - 1
  <2>1. a \in Nat
    OBVIOUS
  <2> HIDE DEF a
  <2>2. a \div u \in Nat /\ a % u \in 0 .. u - 1 /\ a = u * (a \div u) + (a % u)
    BY <2>1
  <2> DEFINE q == a \div u
             p == q * u
  <2>3. p \in Nat /\ a = p + (a % u)
    BY <2>2
  <2>4. q \in Nat
    BY <2>2
  <2> HIDE DEF p, q
  <2>5. m <= p /\ p <= a
    BY <2>1, <2>2, <2>3 DEF a
  <2> QED
    BY <2>3, <2>4, <2>5 DEF a, p, q
<1>2. ASSUME NEW c \in Nat, NEW m \in Nat, m <= c * u PROVE up(m) <= c
  <2> DEFINE q == up(m)
  <2>1. q \in Nat /\ q * u <= m + u - 1
    BY <1>1
  <2> HIDE DEF q
  <2>2. q * u <= c * u + u - 1
    BY <1>2, <2>1
  <2>3. ASSUME q >= c + 1 PROVE FALSE
    <3>1. PICK d \in Nat : q = c + 1 + d
      <4>1. q - c - 1 \in Nat /\ q = c + 1 + (q - c - 1)
        BY <2>1, <2>3
      <4> QED
        BY <4>1
    <3>2. q * u = c * u + u + d * u
      BY <3>1
    <3>3. d * u \in Nat /\ c * u \in Nat
      BY <3>1
    <3> DEFINE cu == c * u
               du == d * u
               qu == q * u
    <3>4. qu = cu + u + du /\ qu <= cu + u - 1 /\ du \in Nat /\ cu \in Nat
      BY <2>2, <3>2, <3>3
    <3> HIDE DEF cu, du, qu
    <3> QED
      BY <3>4
  <2>4. q <= c
    BY <2>1, <2>3
  <2> QED
    BY <2>4 DEF q
<1>3. ASSUME NEW a \in Nat, NEW b \in Nat, a <= b PROVE a * u <= b * u
  <2>1. b - a \in Nat /\ b * u = a * u + (b - a) * u /\ a * u \in Nat
    BY <1>3
  <2>2. (b - a) * u \in Nat
    BY <2>1
  <2> DEFINE au == a * u
             bu == b * u
             du == (b - a) * u
  <2>3. bu = au + du /\ du \in Nat /\ au \in Nat
    BY <2>1, <2>2
  <2> HIDE DEF au, bu, du
  <2>4. au <= bu
    BY <2>3
  <2> QED
    BY <2>4 DEF au, bu
<1>4. ASSUME NEW c \in Nat, n <= c * u PROVE up(n) * u <= c * u
  <2>1. up(n) \in Nat /\ up(n) <= c
    BY <1>1, <1>2, <1>4
  <2> HIDE DEF up
  <2> QED
    BY <1>3, <2>1
<1>5. ASSUME NEW m \in Nat, m <= n PROVE up(m) * u <= up(n) * u
  <2>1. up(n) \in Nat /\ up(n) * u \in Nat /\ n <= up(n) * u
    BY <1>1
  <2>2. m <= up(n) * u
    BY <1>5, <2>1
  <2>3. up(m) \in Nat /\ up(m) <= up(n)
    BY <1>1, <1>2, <2>1, <2>2
  <2> HIDE DEF up
  <2> QED
    BY <1>3, <2>1, <2>3
<1>6. up(n) * u \in Nat /\ n <= up(n) * u
  BY <1>1
<1> QED
  BY <1>4, <1>5, <1>6

LEMMA PowersGrow == \A j, k \in Nat : j <= k => Graphs!Power[j] <= Graphs!Power[k]
<1> SUFFICES ASSUME NEW j \in Nat, {k \in Nat : j <= k /\ ~(Graphs!Power[j] <= Graphs!Power[k])} # {}
             PROVE  FALSE
  OBVIOUS
<1> DEFINE Bad == {k \in Nat : j <= k /\ ~(Graphs!Power[j] <= Graphs!Power[k])}
<1>1. PICK k \in Bad : \A i \in Bad : k <= i
  BY Least
<1>2. Graphs!Power[j] \in Nat /\ k # j
  BY Powers
<1>3. k - 1 \in Nat /\ j <= k - 1 /\ k - 1 \notin Bad /\ (k - 1) + 1 = k
  BY <1>1, <1>2
<1>4. Graphs!Power[k] = 2 * Graphs!Power[k - 1] /\ Graphs!Power[k - 1] \in Nat
  BY <1>3, Powers
<1>5. Graphs!Power[j] <= Graphs!Power[k - 1]
  BY <1>3
<1> QED
  BY <1>1, <1>2, <1>4, <1>5

(* bit_length: the powers of two up to its own pass m for the first time. *)
LEMMA BitLengthIsLeast ==
  ASSUME NEW m \in Nat
  PROVE  /\ Graphs!BitLength(m) \in Nat /\ Graphs!Power[Graphs!BitLength(m)] > m
         /\ \A k \in Nat : Graphs!Power[k] > m => Graphs!BitLength(m) <= k
<1> DEFINE S == {k \in 0 .. m : Graphs!Power[k] > m}
<1>1. m \in S
  BY Powers
<1>2. \E x \in S : \A y \in S : x <= y
  <2>1. S \subseteq Nat /\ S # {}
    BY <1>1
  <2> HIDE DEF S
  <2> QED
    BY <2>1, Least
<1>3. Graphs!BitLength(m) = CHOOSE x \in S : \A y \in S : x <= y
  BY DEF Graphs!BitLength, Graphs!Min
<1>4. Graphs!BitLength(m) \in S /\ \A y \in S : Graphs!BitLength(m) <= y
  BY <1>2, <1>3
<1>5. ASSUME NEW k \in Nat, Graphs!Power[k] > m PROVE Graphs!BitLength(m) <= k
  <2>1. CASE k <= m
    BY <1>4, <1>5, <2>1
  <2>2. CASE k > m
    BY <1>4, <2>2
  <2> QED
    BY <2>1, <2>2
<1> QED
  BY <1>4, <1>5

LEMMA Quarters ==
  ASSUME NEW b \in Nat
  PROVE  IF b < 2 THEN Graphs!Power[b] \div 4 = 0
         ELSE Graphs!Power[b] \div 4 = Graphs!Power[b - 2] /\ Graphs!Power[b] = 4 * Graphs!Power[b - 2]
<1>1. CASE b < 2
  <2>1. b = 0 \/ b = 0 + 1
    BY <1>1
  <2>2. Graphs!Power[b] = 1 \/ Graphs!Power[b] = 2
    BY <2>1, Powers
  <2>3. 1 \div 4 = 0 /\ 2 \div 4 = 0
    OBVIOUS
  <2> QED
    BY <1>1, <2>2, <2>3
<1>2. CASE ~(b < 2)
  <2>1. b - 2 \in Nat /\ (b - 2) + 1 = b - 1 /\ (b - 1) + 1 = b /\ b - 1 \in Nat
    BY <1>2
  <2> DEFINE u == Graphs!Power[b - 2]
  <2>2. u \in Nat /\ Graphs!Power[b] = 4 * u
    <3>1. Graphs!Power[b - 1] = 2 * u /\ Graphs!Power[b] = 2 * Graphs!Power[b - 1] /\ u \in Nat
      BY <2>1, Powers
    <3> QED
      BY <3>1
  <2> HIDE DEF u
  <2>3. (4 * u) \div 4 = u
    BY <2>2
  <2> QED
    BY <1>2, <2>2, <2>3 DEF u
<1> QED
  BY <1>1, <1>2

(* How padding_size comes about, for a size with b bits below it. *)
Rounds(n, u) == ((n + u - 1) \div u) * u

LEMMA PaddingIs ==
  ASSUME NEW n \in Nat \ {0}, NEW b, b = Graphs!BitLength(n - 1)
  PROVE  /\ b \in Nat
         /\ Graphs!PaddingSize(n) = IF b < 2 THEN n ELSE Rounds(n, Graphs!Power[b - 2])
<1>1. n - 1 \in Nat
  OBVIOUS
<1>2. b \in Nat
  BY <1>1, BitLengthIsLeast
<1>3. Graphs!PaddingSize(n) = IF Graphs!Power[b] \div 4 < 1 THEN n ELSE Rounds(n, Graphs!Power[b] \div 4)
  BY DEF Graphs!PaddingSize, Rounds
<1>4. CASE b < 2
  <2>1. Graphs!Power[b] \div 4 = 0
    BY <1>2, <1>4, Quarters
  <2> QED
    BY <1>2, <1>3, <1>4, <2>1
<1>5. CASE ~(b < 2)
  <2>1. Graphs!Power[b] \div 4 = Graphs!Power[b - 2]
    BY <1>2, <1>5, Quarters
  <2>2. b - 2 \in Nat
    BY <1>2, <1>5
  <2>3. Graphs!Power[b - 2] \in Nat /\ Graphs!Power[b - 2] > b - 2
    BY <2>2, Powers
  <2>4. ~(Graphs!Power[b - 2] < 1)
    BY <2>2, <2>3
  <2> QED
    BY <1>2, <1>3, <1>5, <2>1, <2>4
<1> QED
  BY <1>2, <1>4, <1>5

(* A padded size has room for the batch, and no more than the next power   *)
(* of two.                                                                 *)
LEMMA PaddingFits ==
  ASSUME NEW n \in Nat \ {0}
  PROVE  /\ Graphs!PaddingSize(n) \in Nat /\ n <= Graphs!PaddingSize(n)
         /\ Graphs!PaddingSize(n) <= Graphs!Power[Graphs!BitLength(n - 1)]
<1> DEFINE b == Graphs!BitLength(n - 1)
<1>1. n - 1 \in Nat
  OBVIOUS
<1>2. b \in Nat /\ Graphs!Power[b] > n - 1 /\ Graphs!Power[b] \in Nat
  BY <1>1, BitLengthIsLeast, Powers
<1>3. n <= Graphs!Power[b]
  BY <1>2
<1>4. Graphs!PaddingSize(n) = IF b < 2 THEN n ELSE Rounds(n, Graphs!Power[b - 2])
  BY PaddingIs
<1> HIDE DEF b
<1>5. CASE b < 2
  BY <1>3, <1>4, <1>5 DEF b
<1>6. CASE ~(b < 2)
  <2> DEFINE u == Graphs!Power[b - 2]
  <2>1. b - 2 \in Nat
    BY <1>2, <1>6
  <2>2. u \in Nat \ {0} /\ Graphs!Power[b] = 4 * u
    <3>1. u \in Nat /\ u > b - 2
      BY <2>1, Powers
    <3>2. Graphs!Power[b] = 4 * u
      BY <1>2, <1>6, Quarters
    <3> QED
      BY <2>1, <3>1, <3>2
  <2> HIDE DEF u
  <2>3. 4 \in Nat /\ n <= 4 * u
    BY <1>3, <2>2
  <2>4. Rounds(n, u) \in Nat /\ n <= Rounds(n, u) /\ Rounds(n, u) <= 4 * u
    BY <2>2, <2>3, RoundingUp DEF Rounds
  <2>5. Graphs!PaddingSize(n) = Rounds(n, u)
    BY <1>4, <1>6 DEF u
  <2> QED
    BY <2>2, <2>4, <2>5 DEF b
<1> QED
  BY <1>5, <1>6

LEMMA PaddingGrows ==
  ASSUME NEW m \in Nat \ {0}, NEW n \in Nat \ {0}, m <= n
  PROVE  Graphs!PaddingSize(m) <= Graphs!PaddingSize(n)
<1> DEFINE a == Graphs!BitLength(m - 1)
           b == Graphs!BitLength(n - 1)
<1>1. m - 1 \in Nat /\ n - 1 \in Nat
  OBVIOUS
<1>2. /\ a \in Nat /\ b \in Nat
      /\ Graphs!Power[a] \in Nat /\ Graphs!Power[b] \in Nat /\ Graphs!Power[b] > n - 1
      /\ \A k \in Nat : Graphs!Power[k] > m - 1 => a <= k
      /\ \A k \in Nat : Graphs!Power[k] > n - 1 => b <= k
  BY <1>1, BitLengthIsLeast, Powers
<1>3. a <= b
  BY <1>2
<1>4. /\ Graphs!PaddingSize(m) = IF a < 2 THEN m ELSE Rounds(m, Graphs!Power[a - 2])
      /\ Graphs!PaddingSize(n) = IF b < 2 THEN n ELSE Rounds(n, Graphs!Power[b - 2])
  BY PaddingIs
<1>5. /\ Graphs!PaddingSize(m) \in Nat /\ Graphs!PaddingSize(m) <= Graphs!Power[a]
      /\ Graphs!PaddingSize(n) \in Nat /\ n <= Graphs!PaddingSize(n)
  BY PaddingFits
<1> HIDE DEF a, b
<1>6. CASE a = b /\ b < 2
  BY <1>4, <1>6
<1>7. CASE a = b /\ ~(b < 2)
  <2>1. b - 2 \in Nat
    BY <1>2, <1>7
  <2>2. Graphs!Power[b - 2] \in Nat \ {0}
    BY <2>1, Powers
  <2>3. Rounds(m, Graphs!Power[b - 2]) <= Rounds(n, Graphs!Power[b - 2])
    BY <2>2, RoundingUp DEF Rounds
  <2> QED
    BY <1>4, <1>7, <2>3
<1>8. CASE a < b
  <2>1. b - 1 \in Nat /\ a <= b - 1 /\ ~(b <= b - 1)
    BY <1>2, <1>8
  <2>2. Graphs!Power[b - 1] \in Nat /\ ~(Graphs!Power[b - 1] > n - 1) /\ Graphs!Power[a] <= Graphs!Power[b - 1]
    BY <1>2, <2>1, Powers, PowersGrow
  <2> QED
    BY <1>2, <1>5, <2>2
<1> QED
  BY <1>2, <1>3, <1>6, <1>7, <1>8

(* The invariant: a graph was captured for as many rows as it is kept for. *)
GraphsAreWhole == \A p \in DOMAIN graphs : graphs[p].rows = p

GraphsInv ==
  /\ Graphs!TypeOK /\ Graphs!ComputedDraftsAreTheirs /\ Graphs!LstmCapturesAreZero /\ Graphs!BuffersHoldTheBatch
  /\ GraphsAreWhole

LEMMA BuffersHaveRoom ==
  ASSUME Graphs!DraftGraphsAssumption, NEW size \in BatchSizes
  PROVE  /\ size \in Nat \ {0} /\ Graphs!MaxRows \in Nat /\ size <= MaxBatch /\ MaxBatch <= Graphs!MaxRows
         /\ Graphs!PaddingSize(size) \in Graphs!Rows /\ size <= Graphs!PaddingSize(size)
         /\ 1 .. size \subseteq Graphs!Rows
<1>1. size \in 1 .. MaxBatch /\ MaxBatch \in Nat \ {0}
  BY DEF Graphs!DraftGraphsAssumption
<1>2. size \in Nat \ {0} /\ size <= MaxBatch
  BY <1>1
<1>3. /\ Graphs!MaxRows \in Nat /\ MaxBatch <= Graphs!MaxRows
      /\ Graphs!PaddingSize(size) \in Nat /\ size <= Graphs!PaddingSize(size)
  BY <1>1, <1>2, PaddingFits DEF Graphs!MaxRows
<1>4. Graphs!PaddingSize(size) <= Graphs!MaxRows
  BY <1>1, <1>2, PaddingGrows DEF Graphs!MaxRows
<1> QED
  BY <1>1, <1>2, <1>3, <1>4 DEF Graphs!Rows

LEMMA Ages == \A o \in Graphs!Origins : Graphs!Aged(o) \in Graphs!Origins
  BY DEF Graphs!Aged, Graphs!Origins

(* A call puts its own rows into the inputs, but an eager MLP. *)
LEMMA Prepares ==
  ASSUME Graphs!TypeOK, NEW size
  PROVE  /\ Graphs!Prepared(size) \in [Graphs!Rows -> Graphs!Origins]
         /\ kind = "lstm" \/ Graphs!GraphMode(size) =>
                \A r \in Graphs!Rows : r <= size => Graphs!Prepared(size)[r] = "now"
<1>1. "now" \in Graphs!Origins
  BY DEF Graphs!Origins
<1>2. \A r \in Graphs!Rows : Graphs!Aged(inputs[r]) \in Graphs!Origins
  BY Ages DEF Graphs!TypeOK
<1> QED
  BY <1>1, <1>2 DEF Graphs!Prepared

LEMMA Writes ==
  ASSUME Graphs!TypeOK, NEW p, NEW n, NEW values \in [Graphs!Rows -> Graphs!Origins]
  PROVE  /\ Graphs!Written(p, n, values) \in [Graphs!Heads -> [Graphs!Rows -> Graphs!Origins]]
         /\ \A h \in Graphs!Heads, r \in Graphs!Rows :
                h <= n /\ r <= p => Graphs!Written(p, n, values)[h][r] = values[r]
<1>1. \A h \in Graphs!Heads, r \in Graphs!Rows : Graphs!Aged(next[h][r]) \in Graphs!Origins
  BY Ages DEF Graphs!TypeOK
<1> QED
  BY <1>1 DEF Graphs!Written

LEMMA ReplayKeeps ==
  ASSUME Graphs!DraftGraphsAssumption, GraphsInv, UNCHANGED <<kind, eager>>,
         NEW size \in BatchSizes, NEW n \in 1 .. NPredict, ~Graphs!Raises(size, n), Graphs!GraphMode(size),
         Graphs!Generate(size, n), Graphs!PaddingSize(size) \in DOMAIN graphs
  PROVE  GraphsInv'
<1> DEFINE p == Graphs!PaddingSize(size)
           g == graphs[p]
<1>1. Graphs!TypeOK /\ GraphsAreWhole
  BY DEF GraphsInv
<1>2. /\ size \in Nat \ {0} /\ size <= MaxBatch /\ p \in Graphs!Rows /\ size <= p /\ 1 .. size \subseteq Graphs!Rows
  BY BuffersHaveRoom
<1>3. /\ inputs' = Graphs!Prepared(size) /\ graphs' = graphs
      /\ next' = Graphs!Written(g.rows, g.heads, inputs')
      /\ out' = [h \in 1 .. n |-> [r \in 1 .. size |-> next'[h][r]]]
      /\ proposal' = [rows |-> size, heads |-> n, by |-> "replay"]
  BY DEF Graphs!Generate, Graphs!GenerateFor
<1>4. g.rows = p /\ g.heads \in 1 .. Lookahead
  BY <1>1 DEF Graphs!TypeOK, GraphsAreWhole
<1>5. /\ inputs' \in [Graphs!Rows -> Graphs!Origins]
      /\ \A r \in Graphs!Rows : r <= size => inputs'[r] = "now"
  BY <1>1, <1>3, Prepares
<1>6. /\ next' \in [Graphs!Heads -> [Graphs!Rows -> Graphs!Origins]]
      /\ \A h \in Graphs!Heads, r \in Graphs!Rows : h <= g.heads /\ r <= p => next'[h][r] = inputs'[r]
  BY <1>1, <1>3, <1>4, <1>5, Writes
<1>7. 1 .. n \subseteq Graphs!Heads /\ n \in 0 .. NPredict /\ size \in 0 .. MaxBatch
  BY <1>2 DEF Graphs!Heads, Graphs!DraftGraphsAssumption
<1>8. proposal'.rows = size /\ proposal'.heads = n /\ proposal'.by = "replay"
  BY <1>3
<1>9. out' \in [1 .. n -> [1 .. size -> Graphs!Origins]]
  <2>1. \A h \in 1 .. n : \A r \in 1 .. size : next'[h][r] \in Graphs!Origins
    BY <1>2, <1>6, <1>7
  <2> QED
    BY <1>3, <2>1
<1>10. Graphs!TypeOK'
  BY <1>1, <1>3, <1>5, <1>6, <1>7, <1>8, <1>9 DEF Graphs!TypeOK
<1>11. Graphs!Computed' = g.heads
  BY <1>3, <1>8 DEF Graphs!Computed
<1>12. \A h \in 1 .. n : h <= g.heads => \A r \in 1 .. size : out'[h][r] = "now"
  <2> SUFFICES ASSUME NEW h \in 1 .. n, h <= g.heads, NEW r \in 1 .. size PROVE out'[h][r] = "now"
    OBVIOUS
  <2>1. h \in Graphs!Heads /\ r \in Graphs!Rows /\ r <= size /\ r <= p
    <3>1. p \in Nat /\ size <= p
      BY <1>2 DEF Graphs!Rows
    <3> HIDE DEF p
    <3> QED
      BY <1>2, <1>7, <3>1
  <2>2. next'[h][r] = inputs'[r] /\ inputs'[r] = "now"
    BY <1>5, <1>6, <2>1
  <2>3. out'[h][r] = next'[h][r]
    BY <1>3
  <2> QED
    BY <2>2, <2>3
<1>13. DOMAIN out' = 1 .. n /\ \A h \in 1 .. n : DOMAIN out'[h] = 1 .. size
  BY <1>3
<1> HIDE DEF g, p
<1>14. Graphs!ComputedDraftsAreTheirs'
  BY <1>11, <1>12, <1>13 DEF Graphs!ComputedDraftsAreTheirs
<1>15. Graphs!LstmCapturesAreZero'
  BY <1>8 DEF Graphs!LstmCapturesAreZero
<1>16. Graphs!BuffersHoldTheBatch' /\ GraphsAreWhole'
  BY <1>1, <1>3, <1>8 DEF Graphs!BuffersHoldTheBatch, GraphsAreWhole
<1> QED
  BY <1>10, <1>14, <1>15, <1>16 DEF GraphsInv

LEMMA CaptureKeeps ==
  ASSUME Graphs!DraftGraphsAssumption, GraphsInv, UNCHANGED <<kind, eager>>,
         NEW size \in BatchSizes, NEW n \in 1 .. NPredict, ~Graphs!Raises(size, n), Graphs!GraphMode(size),
         Graphs!Generate(size, n), Graphs!PaddingSize(size) \notin DOMAIN graphs
  PROVE  GraphsInv'
<1> DEFINE p == Graphs!PaddingSize(size)
           zeros == [r \in Graphs!Rows |-> "zero"]
<1>1. Graphs!TypeOK /\ GraphsAreWhole
  BY DEF GraphsInv
<1>2. /\ size \in Nat \ {0} /\ size <= MaxBatch /\ p \in Graphs!Rows /\ size <= p /\ 1 .. size \subseteq Graphs!Rows
  BY BuffersHaveRoom
<1>3. /\ inputs' = Graphs!Prepared(size) /\ next' = Graphs!Captured(p, n)
      /\ graphs' = [q \in DOMAIN graphs \union {p} |-> IF q = p THEN [heads |-> n, rows |-> p] ELSE graphs[q]]
      /\ out' = [h \in 1 .. n |-> [r \in 1 .. size |-> next'[h][r]]]
      /\ proposal' = [rows |-> size, heads |-> n, by |-> "capture"]
  BY DEF Graphs!Generate, Graphs!GenerateFor
<1>4. n \in 1 .. Lookahead
  BY DEF Graphs!Raises, Graphs!DraftGraphsAssumption
<1>5. inputs' \in [Graphs!Rows -> Graphs!Origins]
  BY <1>1, <1>3, Prepares
<1>6. /\ next' \in [Graphs!Heads -> [Graphs!Rows -> Graphs!Origins]]
      /\ kind = "lstm" => \A h \in Graphs!Heads, r \in Graphs!Rows : h <= n /\ r <= p => next'[h][r] = "zero"
  <2>1. zeros \in [Graphs!Rows -> Graphs!Origins]
    BY DEF Graphs!Origins
  <2>2. CASE kind = "lstm"
    <3>1. next' = Graphs!Written(p, n, zeros)
      BY <1>3, <2>2 DEF Graphs!Captured
    <3>2. /\ next' \in [Graphs!Heads -> [Graphs!Rows -> Graphs!Origins]]
          /\ \A h \in Graphs!Heads, r \in Graphs!Rows : h <= n /\ r <= p => next'[h][r] = zeros[r]
      <4> HIDE DEF zeros, p
      <4> QED
        BY <1>1, <2>1, <3>1, Writes
    <3>3. \A r \in Graphs!Rows : zeros[r] = "zero"
      OBVIOUS
    <3> HIDE DEF zeros, p
    <3> QED
      BY <3>2, <3>3
  <2>3. CASE kind # "lstm"
    <3>1. next' = Graphs!Written(0, n, inputs)
      BY <1>3, <2>3 DEF Graphs!Captured
    <3>2. inputs \in [Graphs!Rows -> Graphs!Origins]
      BY <1>1 DEF Graphs!TypeOK
    <3> QED
      BY <1>1, <2>3, <3>1, <3>2, Writes
  <2> QED
    BY <2>2, <2>3
<1>7. 1 .. n \subseteq Graphs!Heads /\ n \in 0 .. NPredict /\ size \in 0 .. MaxBatch
  BY <1>2 DEF Graphs!Heads, Graphs!DraftGraphsAssumption
<1>8. proposal'.rows = size /\ proposal'.heads = n /\ proposal'.by = "capture"
  BY <1>3
<1>9. out' \in [1 .. n -> [1 .. size -> Graphs!Origins]]
  <2>1. \A h \in 1 .. n : \A r \in 1 .. size : next'[h][r] \in Graphs!Origins
    BY <1>2, <1>6, <1>7
  <2> QED
    BY <1>3, <2>1
<1>10. /\ DOMAIN graphs' \subseteq Graphs!Rows /\ GraphsAreWhole'
       /\ \A q \in DOMAIN graphs' : graphs'[q] \in [heads : 1 .. Lookahead, rows : Graphs!Rows]
  <2>1. /\ DOMAIN graphs' = DOMAIN graphs \union {p}
        /\ \A q \in DOMAIN graphs' : graphs'[q] = IF q = p THEN [heads |-> n, rows |-> p] ELSE graphs[q]
    BY <1>3
  <2>2. p \in Graphs!Rows
    BY <1>2
  <2> HIDE DEF p
  <2>3. \A q \in DOMAIN graphs' : graphs'[q] \in [heads : 1 .. Lookahead, rows : Graphs!Rows] /\ graphs'[q].rows = q
    <3> TAKE q \in DOMAIN graphs'
    <3>1. CASE q = p
      <4>1. graphs'[q] = [heads |-> n, rows |-> p]
        BY <2>1, <3>1
      <4> QED
        BY <1>4, <2>2, <3>1, <4>1
    <3>2. CASE q # p
      <4>1. q \in DOMAIN graphs /\ graphs'[q] = graphs[q]
        BY <2>1, <3>2
      <4> QED
        BY <1>1, <4>1 DEF Graphs!TypeOK, GraphsAreWhole
    <3> QED
      BY <3>1, <3>2
  <2> QED
    BY <1>1, <2>1, <2>2, <2>3 DEF Graphs!TypeOK, GraphsAreWhole
<1>11. Graphs!TypeOK'
  <2>1. proposal' \in [rows : 0 .. MaxBatch, heads : 0 .. NPredict, by : {"eager", "capture", "replay", "error"}]
    BY <1>3, <1>7
  <2> HIDE DEF p, zeros
  <2> QED
    BY <1>1, <1>5, <1>6, <1>8, <1>9, <1>10, <2>1 DEF Graphs!TypeOK
<1>12. Graphs!Computed' = 0
  BY <1>8 DEF Graphs!Computed
<1>13. DOMAIN out' = 1 .. n /\ \A h \in 1 .. n : DOMAIN out'[h] = 1 .. size
  BY <1>3
<1>14. Graphs!ComputedDraftsAreTheirs'
  <2>1. \A h \in 1 .. n : ~(h <= 0)
    OBVIOUS
  <2> QED
    BY <1>12, <1>13, <2>1 DEF Graphs!ComputedDraftsAreTheirs
<1>15. Graphs!LstmCapturesAreZero'
  <2> SUFFICES ASSUME kind = "lstm", NEW h \in 1 .. n, NEW r \in 1 .. size PROVE out'[h][r] = "zero"
    BY <1>13 DEF Graphs!LstmCapturesAreZero
  <2>1. h \in Graphs!Heads /\ r \in Graphs!Rows /\ h <= n /\ r <= p
    <3>1. p \in Nat /\ size <= p
      BY <1>2 DEF Graphs!Rows
    <3> HIDE DEF p
    <3> QED
      BY <1>2, <1>7, <3>1
  <2>2. next'[h][r] = "zero"
    BY <1>6, <2>1
  <2>3. out'[h][r] = next'[h][r]
    BY <1>3
  <2> QED
    BY <2>2, <2>3
<1>16. Graphs!BuffersHoldTheBatch'
  BY <1>8 DEF Graphs!BuffersHoldTheBatch
<1> QED
  BY <1>10, <1>11, <1>14, <1>15, <1>16 DEF GraphsInv

LEMMA EagerKeeps ==
  ASSUME Graphs!DraftGraphsAssumption, GraphsInv, UNCHANGED <<kind, eager>>,
         NEW size \in BatchSizes, NEW n \in 1 .. NPredict, Graphs!GenerateEager(size, n)
  PROVE  GraphsInv'
<1>1. Graphs!TypeOK /\ GraphsAreWhole
  BY DEF GraphsInv
<1>2. size \in 0 .. MaxBatch /\ n \in 0 .. NPredict /\ 1 .. size \subseteq Graphs!Rows
  BY BuffersHaveRoom DEF Graphs!DraftGraphsAssumption
<1>3. /\ inputs' = Graphs!Prepared(size) /\ next' = Graphs!Written(0, n, inputs) /\ graphs' = graphs
      /\ out' = [h \in 1 .. n |-> [r \in 1 .. size |-> IF kind = "lstm" THEN inputs'[r] ELSE "now"]]
      /\ proposal' = [rows |-> size, heads |-> n, by |-> "eager"]
  BY DEF Graphs!GenerateEager
<1>4. proposal'.rows = size /\ proposal'.heads = n /\ proposal'.by = "eager"
  BY <1>3
<1>5. /\ inputs' \in [Graphs!Rows -> Graphs!Origins]
      /\ kind = "lstm" => \A r \in Graphs!Rows : r <= size => inputs'[r] = "now"
  BY <1>1, <1>3, Prepares
<1>6. next' \in [Graphs!Heads -> [Graphs!Rows -> Graphs!Origins]]
  <2>1. inputs \in [Graphs!Rows -> Graphs!Origins]
    BY <1>1 DEF Graphs!TypeOK
  <2> QED
    BY <1>1, <1>3, <2>1, Writes
<1>7. out' = [h \in 1 .. n |-> [r \in 1 .. size |-> "now"]]
  <2>1. \A r \in 1 .. size : (IF kind = "lstm" THEN inputs'[r] ELSE "now") = "now"
    BY <1>2, <1>5
  <2>2. [r \in 1 .. size |-> IF kind = "lstm" THEN inputs'[r] ELSE "now"] = [r \in 1 .. size |-> "now"]
    BY <2>1
  <2> QED
    BY <1>3, <2>2
<1>8. Graphs!TypeOK'
  <2>1. "now" \in Graphs!Origins
    BY DEF Graphs!Origins
  <2>2. out' \in [1 .. n -> [1 .. size -> Graphs!Origins]]
    BY <1>7, <2>1
  <2> QED
    BY <1>1, <1>2, <1>3, <1>4, <1>5, <1>6, <2>2 DEF Graphs!TypeOK
<1>9. DOMAIN out' = 1 .. n /\ \A h \in 1 .. n : DOMAIN out'[h] = 1 .. size /\ \A r \in 1 .. size : out'[h][r] = "now"
  BY <1>7
<1>10. Graphs!ComputedDraftsAreTheirs' /\ Graphs!LstmCapturesAreZero'
  BY <1>4, <1>9 DEF Graphs!ComputedDraftsAreTheirs, Graphs!LstmCapturesAreZero
<1>11. Graphs!BuffersHoldTheBatch' /\ GraphsAreWhole'
  BY <1>1, <1>3, <1>4 DEF Graphs!BuffersHoldTheBatch, GraphsAreWhole
<1> QED
  BY <1>8, <1>10, <1>11 DEF GraphsInv

LEMMA RaiseKeeps ==
  ASSUME Graphs!DraftGraphsAssumption, GraphsInv, UNCHANGED <<kind, eager>>,
         NEW size \in BatchSizes, NEW n \in 1 .. NPredict, Graphs!Raise(size, n)
  PROVE  GraphsInv'
<1>1. Graphs!TypeOK /\ GraphsAreWhole
  BY DEF GraphsInv
<1>2. /\ Graphs!Raises(size, n) /\ UNCHANGED <<graphs, inputs, next>> /\ out' = <<>>
      /\ proposal' = [rows |-> size, heads |-> n, by |-> "error"]
  BY DEF Graphs!Raise
<1>3. proposal'.rows = size /\ proposal'.heads = n /\ proposal'.by = "error"
  BY <1>2
<1>4. size \in 0 .. MaxBatch /\ n \in 0 .. NPredict
  BY BuffersHaveRoom DEF Graphs!DraftGraphsAssumption
<1>5. n > Lookahead
  <2>1. /\ Graphs!PaddingSize(size) \in Graphs!Rows /\ size \in Nat /\ size <= MaxBatch
        /\ MaxBatch <= Graphs!MaxRows /\ Graphs!MaxRows \in Nat
    BY BuffersHaveRoom
  <2>2. ~(Graphs!PaddingSize(size) > Graphs!MaxRows) /\ ~(size > Graphs!MaxRows)
    BY <2>1 DEF Graphs!Rows, Graphs!DraftGraphsAssumption
  <2> QED
    BY <1>2, <2>2 DEF Graphs!Raises
<1>6. Graphs!TypeOK'
  BY <1>1, <1>2, <1>3, <1>4 DEF Graphs!TypeOK
<1>7. DOMAIN out' = {}
  BY <1>2
<1>8. Graphs!ComputedDraftsAreTheirs' /\ Graphs!LstmCapturesAreZero'
  BY <1>7 DEF Graphs!ComputedDraftsAreTheirs, Graphs!LstmCapturesAreZero
<1>9. Graphs!BuffersHoldTheBatch' /\ GraphsAreWhole'
  BY <1>1, <1>2, <1>3, <1>5 DEF Graphs!BuffersHoldTheBatch, GraphsAreWhole
<1> QED
  BY <1>6, <1>8, <1>9 DEF GraphsInv

LEMMA GraphsKeep ==
  ASSUME Graphs!DraftGraphsAssumption
  PROVE  GraphsInv /\ [Graphs!Next]_(Graphs!vars) => GraphsInv'
<1> SUFFICES ASSUME GraphsInv, [Graphs!Next]_(Graphs!vars) PROVE GraphsInv'
  OBVIOUS
<1>1. ASSUME NEW size \in BatchSizes, NEW n \in 1 .. NPredict, Graphs!GenerateProposals(size, n), UNCHANGED <<kind, eager>>
      PROVE  GraphsInv'
  BY <1>1, ReplayKeeps, CaptureKeeps, EagerKeeps, RaiseKeeps DEF Graphs!GenerateProposals
<1>2. CASE UNCHANGED Graphs!vars
  BY <1>2 DEF Graphs!vars, GraphsInv, Graphs!TypeOK, Graphs!ComputedDraftsAreTheirs, Graphs!LstmCapturesAreZero,
              Graphs!BuffersHoldTheBatch, GraphsAreWhole, Graphs!Computed
<1> QED
  BY <1>1, <1>2 DEF Graphs!Next

(* generate_proposals of either model: whatever batches came before and    *)
(* however their sizes are padded, the tokens of the heads computed for a  *)
(* call, all without a graph and those of the graph that is replayed, are  *)
(* of its own rows; no batch up to disable_by_batch_size overruns a        *)
(* buffer; and the LSTM's call that captures a graph returns zeros.  It is *)
(* not about the other tokens of a capturing call, nor of heads beyond     *)
(* those of the replayed graph, which are not of the call.                 *)
THEOREM GraphsAnswerTheirCall ==
  ASSUME Graphs!DraftGraphsAssumption
  PROVE  Graphs!Spec => [](/\ Graphs!TypeOK /\ Graphs!ComputedDraftsAreTheirs /\ Graphs!LstmCapturesAreZero
                           /\ Graphs!BuffersHoldTheBatch)
<1>1. Graphs!Init => GraphsInv
  <2> SUFFICES ASSUME Graphs!Init PROVE GraphsInv
    OBVIOUS
  <2>1. /\ kind \in {"mlp", "lstm"} /\ eager \in BOOLEAN /\ graphs = <<>> /\ out = <<>>
        /\ inputs = [r \in Graphs!Rows |-> "none"]
        /\ next = [h \in Graphs!Heads |-> [r \in Graphs!Rows |-> "none"]]
        /\ proposal = [rows |-> 0, heads |-> 0, by |-> "eager"]
    BY DEF Graphs!Init
  <2>2. "none" \in Graphs!Origins /\ 0 \in 0 .. MaxBatch /\ 0 \in 0 .. NPredict
    BY DEF Graphs!Origins, Graphs!DraftGraphsAssumption
  <2>3. DOMAIN graphs = {} /\ DOMAIN out = {} /\ 1 .. 0 = {}
    BY <2>1
  <2>4. Graphs!TypeOK
    <3>1. out \in [1 .. 0 -> [1 .. 0 -> Graphs!Origins]]
      BY <2>1
    <3> QED
      BY <2>1, <2>2, <2>3, <3>1 DEF Graphs!TypeOK
  <2> QED
    BY <2>1, <2>3, <2>4 DEF GraphsInv, Graphs!ComputedDraftsAreTheirs, Graphs!LstmCapturesAreZero,
                            Graphs!BuffersHoldTheBatch, GraphsAreWhole
<1>2. GraphsInv => /\ Graphs!TypeOK /\ Graphs!ComputedDraftsAreTheirs /\ Graphs!LstmCapturesAreZero
                   /\ Graphs!BuffersHoldTheBatch
  BY DEF GraphsInv
<1> QED
  BY <1>1, <1>2, GraphsKeep, PTL DEF Graphs!Spec

-----------------------------------------------------------------------------
(* SwiftKVWeights.                                                         *)

(* The tensors of a layer that are copied, and what a copy leaves. *)
Copied(l) == Layers!Projections(l) \ {"inv_freq", "bias"}
Copy(l, proj) ==
  <<<<l, Layers!Target(proj)[1]>>, Layers!Target(proj)[2], proj, Layers!ModeDuring(Layers!UseShiftMode(l))>>

LayersInv ==
  /\ mode \in {"tp", "shift"}
  /\ \A x \in loaded : \E l \in Layers!Layers : \E proj \in Copied(l) : x = Copy(l, proj)
  /\ \A l \in Layers!Layers : \A proj \in Copied(l) : <<l, proj>> \in pending \/ Copy(l, proj) \in loaded

LEMMA OnlyBiasesAreSkipped ==
  ASSUME NEW l \in Layers!Layers, NEW proj \in Layers!Projections(l)
  PROVE  Layers!Skipped(l, proj) <=> proj \in {"inv_freq", "bias"}
<1>1. <<l, "bias">> \notin Layers!Params
  <2> SUFFICES ASSUME NEW k \in Layers!Layers, <<l, "bias">> \in {k} \X Layers!ParamsOf(k) PROVE FALSE
    BY DEF Layers!Params
  <2>1. "bias" \in Layers!ParamsOf(k)
    OBVIOUS
  <2> QED
    BY <2>1 DEF Layers!ParamsOf
<1> QED
  BY <1>1 DEF Layers!Skipped

(* Where the tensors of a layer go. *)
LEMMA Targets ==
  /\ Layers!Target("q_proj") = <<"qkv_proj", "q">>
  /\ Layers!Target("k_proj") = <<"qkv_proj", "k">>
  /\ Layers!Target("v_proj") = <<"qkv_proj", "v">>
  /\ Layers!Target("gate_proj") = <<"gate_up_proj", "0">>
  /\ Layers!Target("up_proj") = <<"gate_up_proj", "1">>
  /\ Layers!Target("k_proj_swiftkv") = <<"kv_proj_swiftkv", "k">>
  /\ Layers!Target("v_proj_swiftkv") = <<"kv_proj_swiftkv", "v">>
  /\ Layers!Target("q_proj_swiftkv") = <<"q_proj_swiftkv", "all">>
  /\ Layers!Target("o_proj") = <<"o_proj", "all">>
  /\ Layers!Target("down_proj") = <<"down_proj", "all">>
  /\ Layers!Target("kv_scale") = <<"kv_scale", "all">>
<1>1. DOMAIN Layers!Stacked = {"q_proj", "k_proj", "v_proj", "gate_proj", "up_proj", "k_proj_swiftkv", "v_proj_swiftkv"}
  BY DEF Layers!Stacked
<1>2. \A proj \in {"q_proj_swiftkv", "o_proj", "down_proj", "kv_scale"} : Layers!Target(proj) = <<proj, "all">>
  BY <1>1 DEF Layers!Target
<1>3. \A proj \in DOMAIN Layers!Stacked : Layers!Target(proj) = Layers!Stacked[proj]
  BY DEF Layers!Target
<1> QED
  BY <1>1, <1>2, <1>3 DEF Layers!Stacked

(* Each shard is the target of just one tensor. *)
LEMMA OneTensorEach ==
  ASSUME NEW l \in Layers!Layers, NEW name \in Layers!ParamsOf(l), NEW s \in Layers!Shards[name]
  PROVE  \E proj \in Copied(l) :
            /\ Layers!Target(proj) = <<name, s>>
            /\ \A other \in Copied(l) : Layers!Target(other) = <<name, s>> => other = proj
<1> DEFINE before == {"q_proj", "k_proj", "v_proj", "gate_proj", "up_proj", "o_proj", "down_proj", "kv_scale"}
           after == {"q_proj_swiftkv", "k_proj_swiftkv", "v_proj_swiftkv"}
<1>1. Copied(l) = before \union (IF Layers!AfterCut(l) THEN after ELSE {})
  BY DEF Copied, Layers!Projections
<1>2. \A a, b \in before \union after :
         Layers!Target(a) = Layers!Target(b) => a = b
  BY Targets
<1>3. \E proj \in Copied(l) : Layers!Target(proj) = <<name, s>>
  <2>1. CASE name = "qkv_proj"
    <3>1. s \in {"q", "k", "v"}
      BY <2>1 DEF Layers!Shards
    <3> QED
      BY <1>1, <2>1, <3>1, Targets
  <2>2. CASE name = "gate_up_proj"
    <3>1. s \in {"0", "1"}
      BY <2>2 DEF Layers!Shards
    <3> QED
      BY <1>1, <2>2, <3>1, Targets
  <2>3. CASE name \in {"o_proj", "down_proj", "kv_scale"}
    <3>1. s = "all"
      BY <2>3 DEF Layers!Shards
    <3> QED
      BY <1>1, <2>3, <3>1, Targets
  <2>4. CASE name = "q_proj_swiftkv" /\ Layers!AfterCut(l)
    <3>1. s = "all"
      BY <2>4 DEF Layers!Shards
    <3> QED
      BY <1>1, <2>4, <3>1, Targets
  <2>5. CASE name = "kv_proj_swiftkv" /\ Layers!AfterCut(l)
    <3>1. s \in {"k", "v"}
      BY <2>5 DEF Layers!Shards
    <3> QED
      BY <1>1, <2>5, <3>1, Targets
  <2> QED
    BY <2>1, <2>2, <2>3, <2>4, <2>5 DEF Layers!ParamsOf
<1>4. Copied(l) \subseteq before \union after
  BY <1>1
<1> HIDE DEF before, after
<1> QED
  BY <1>2, <1>3, <1>4

LEMMA LayersKeep == LayersInv /\ [Layers!Next]_(Layers!vars) => LayersInv'
<1> SUFFICES ASSUME LayersInv, [Layers!Next]_(Layers!vars) PROVE LayersInv'
  OBVIOUS
<1>1. ASSUME NEW l \in Layers!Layers, NEW proj \in Layers!Projections(l), Layers!Load(l, proj)
      PROVE  LayersInv'
  <2>1. /\ pending' = pending \ {<<l, proj>>} /\ mode' = mode
        /\ loaded' = IF Layers!Skipped(l, proj) THEN loaded ELSE loaded \union {Copy(l, proj)}
    BY <1>1 DEF Layers!Load, Copy
  <2>2. proj \in Copied(l) <=> ~Layers!Skipped(l, proj)
    BY OnlyBiasesAreSkipped DEF Copied
  <2>3. \A k \in Layers!Layers : \A p \in Copied(k) : Copy(k, p)' = Copy(k, p)
    BY <2>1 DEF Copy, Layers!ModeDuring
  <2>4. \A x \in loaded' : \E k \in Layers!Layers : \E p \in Copied(k) : x = Copy(k, p)
    BY <2>1, <2>2 DEF LayersInv
  <2>5. \A k \in Layers!Layers : \A p \in Copied(k) : <<k, p>> \in pending' \/ Copy(k, p) \in loaded'
    <3> TAKE k \in Layers!Layers
    <3> TAKE p \in Copied(k)
    <3>1. CASE k = l /\ p = proj
      BY <2>1, <2>2, <3>1
    <3>2. CASE ~(k = l /\ p = proj)
      <4>1. <<k, p>> # <<l, proj>>
        BY <3>2
      <4> QED
        BY <2>1, <4>1 DEF LayersInv
    <3> QED
      BY <3>1, <3>2
  <2>6. mode' \in {"tp", "shift"}
    BY <2>1 DEF LayersInv
  <2> QED
    BY <2>3, <2>4, <2>5, <2>6 DEF LayersInv
<1>2. CASE UNCHANGED Layers!vars
  BY <1>2 DEF Layers!vars, LayersInv, Copy, Layers!ModeDuring
<1> QED
  BY <1>1, <1>2 DEF Layers!Next

LEMMA ShardsAreFilled == LayersInv => Layers!LoadedWhereBuilt /\ Layers!EveryShardFilledOnce
<1> SUFFICES ASSUME LayersInv PROVE Layers!LoadedWhereBuilt /\ Layers!EveryShardFilledOnce
  OBVIOUS
<1>1. Layers!LoadedWhereBuilt
  <2> SUFFICES ASSUME NEW x \in loaded PROVE x[4] = Layers!BuiltIn(x[1][1], mode)
    BY DEF Layers!LoadedWhereBuilt
  <2>1. PICK l \in Layers!Layers : \E proj \in Copied(l) : x = Copy(l, proj)
    BY DEF LayersInv
  <2>2. x[4] = Layers!ModeDuring(Layers!UseShiftMode(l)) /\ x[1][1] = l
    BY <2>1 DEF Copy
  <2>3. "shift" # "unset"
    OBVIOUS
  <2> QED
    BY <2>2, <2>3 DEF Layers!BuiltIn, Layers!UseShiftMode, Layers!ModeDuring
<1>2. Layers!EveryShardFilledOnce
  <2> SUFFICES ASSUME pending = {}, NEW p \in Layers!Params, NEW s \in Layers!Shards[p[2]]
               PROVE  \E x \in loaded : /\ x[1] = p /\ x[2] = s
                                        /\ \A y \in loaded : y[1] = p /\ y[2] = s => y = x
    BY DEF Layers!EveryShardFilledOnce
  <2>1. PICK l \in Layers!Layers : p \in {l} \X Layers!ParamsOf(l)
    BY DEF Layers!Params
  <2>2. p = <<l, p[2]>> /\ p[2] \in Layers!ParamsOf(l)
    BY <2>1
  <2>3. PICK proj \in Copied(l) : /\ Layers!Target(proj) = <<p[2], s>>
                                  /\ \A other \in Copied(l) : Layers!Target(other) = <<p[2], s>> => other = proj
    BY <2>2, OneTensorEach
  <2>4. Copy(l, proj) \in loaded
    BY DEF LayersInv
  <2>5. Copy(l, proj)[1] = p /\ Copy(l, proj)[2] = s
    BY <2>2, <2>3 DEF Copy
  <2>6. ASSUME NEW y \in loaded, y[1] = p, y[2] = s PROVE y = Copy(l, proj)
    <3>1. PICK k \in Layers!Layers : \E q \in Copied(k) : y = Copy(k, q)
      BY DEF LayersInv
    <3>2. PICK q \in Copied(k) : y = Copy(k, q)
      BY <3>1
    <3>3. <<k, Layers!Target(q)[1]>> = p /\ Layers!Target(q)[2] = s
      BY <2>6, <3>2 DEF Copy
    <3>4. k = l /\ Layers!Target(q)[1] = p[2]
      BY <2>2, <3>3
    <3>5. Layers!Target(q) = <<p[2], s>>
      <4>1. q \in Copied(l)
        BY <3>4
      <4>2. \E a, b : Layers!Target(q) = <<a, b>>
        <5>1. q \in {"q_proj", "k_proj", "v_proj", "gate_proj", "up_proj", "o_proj", "down_proj", "kv_scale",
                     "q_proj_swiftkv", "k_proj_swiftkv", "v_proj_swiftkv"}
          BY <4>1 DEF Copied, Layers!Projections
        <5> QED
          BY <5>1, Targets
      <4> QED
        BY <3>3, <3>4, <4>2
    <3>6. q = proj
      BY <2>3, <3>4, <3>5
    <3> QED
      BY <3>2, <3>4, <3>6
  <2> QED
    BY <2>4, <2>5, <2>6
<1> QED
  BY <1>1, <1>2

(* load_weights of a SwiftKV model, for any number of layers, wherever the *)
(* cut is and in whichever mode the model is built: every shard of every   *)
(* parameter is copied from one tensor, under the group it was cut for.    *)
THEOREM LayersAreLoaded == Layers!Spec => [](Layers!LoadedWhereBuilt /\ Layers!EveryShardFilledOnce)
<1>1. Layers!Init => LayersInv
  <2> SUFFICES ASSUME Layers!Init PROVE LayersInv
    OBVIOUS
  <2>1. mode \in {"tp", "shift"} /\ loaded = {}
    BY DEF Layers!Init
  <2>2. PICK omitted \in SUBSET ({"bias", "inv_freq"} \cap UNION {Layers!Projections(l) : l \in Layers!Layers}) :
           pending = UNION {{l} \X (Layers!Projections(l) \ omitted) : l \in Layers!Layers}
    BY DEF Layers!Init
  <2>3. \A l \in Layers!Layers : \A proj \in Copied(l) : <<l, proj>> \in pending
    <3> TAKE l \in Layers!Layers
    <3> TAKE proj \in Copied(l)
    <3>1. proj \in Layers!Projections(l) \ omitted
      BY DEF Copied
    <3>2. <<l, proj>> \in {l} \X (Layers!Projections(l) \ omitted)
      BY <3>1
    <3> QED
      BY <2>2, <3>2
  <2> QED
    BY <2>1, <2>3 DEF LayersInv
<1> QED
  BY <1>1, LayersKeep, ShardsAreFilled, PTL DEF Layers!Spec

-----------------------------------------------------------------------------
(* SpeculatorWeights.                                                      *)

FamilyNames ==
  {"emb", "proj", "ln", "forget_emb", "projs", "cell_ln", "state_ln", "head", "qhead"}

LEMMA NumParamsIs ==
  /\ DOMAIN Drafter!NumParams = FamilyNames
  /\ LET heads == IF draftConfig.method = "mlp" THEN draftConfig.lookahead ELSE draftConfig.n
         lstm  == draftConfig.method = "sum_lstm"
     IN  /\ Drafter!NumParams["emb"] = IF lstm THEN 0 ELSE IF draftConfig.tie THEN 1 ELSE heads
         /\ Drafter!NumParams["proj"] = IF lstm THEN 0 ELSE IF draftConfig.tie THEN Drafter!MinOf(2, heads) ELSE heads
         /\ Drafter!NumParams["ln"] = IF lstm THEN 0 ELSE IF draftConfig.tie THEN 1 ELSE heads
         /\ \A f \in {"forget_emb", "cell_ln", "state_ln"} : Drafter!NumParams[f] = IF lstm THEN 1 ELSE 0
         /\ Drafter!NumParams["projs"] = IF lstm THEN 2 ELSE 0
         /\ Drafter!NumParams["head"] = IF draftConfig.tie THEN 1 ELSE draftConfig.lookahead
         /\ Drafter!NumParams["qhead"] = IF draftConfig.tie THEN 1 ELSE 0
BY DEF Drafter!NumParams, FamilyNames

LEMMA ConfigIs ==
  ASSUME Drafter!SpeculatorWeightsAssumption, draftConfig \in Drafter!Configs
  PROVE  /\ draftConfig.method \in {"mlp", "sum_rnn", "sum_lstm"} /\ draftConfig.tie \in BOOLEAN
         /\ draftConfig.n \in 1 .. MaxHeads /\ draftConfig.lookahead \in 1 .. MaxHeads
         /\ draftConfig.lookahead <= draftConfig.n /\ MaxHeads \in Nat
         /\ draftConfig.method = "sum_lstm" => draftConfig.tie
BY DEF Drafter!Configs, Drafter!SpeculatorWeightsAssumption

(* The module a head uses exists, and is no later than the head's own.     *)
LEMMA HeadsHaveModules ==
  ASSUME Drafter!SpeculatorWeightsAssumption, draftConfig \in Drafter!Configs,
         NEW f \in Drafter!Families, NEW h \in Drafter!First(draftConfig.lookahead)
  PROVE  /\ f \in FamilyNames /\ h \in Nat /\ h < draftConfig.n
         /\ Drafter!Actual(f, h) \in Nat /\ Drafter!Actual(f, h) <= h
         /\ Drafter!NumParams[f] \in Nat /\ Drafter!Actual(f, h) < Drafter!NumParams[f]
         /\ Drafter!NumParams[f] <= MaxHeads + 2
         /\ Drafter!Used(f, h) \in Drafter!Params
<1> DEFINE n == draftConfig.n
           ahead == draftConfig.lookahead
           heads == IF draftConfig.method = "mlp" THEN ahead ELSE n
           count == Drafter!NumParams[f]
           a == Drafter!Actual(f, h)
<1>1. f \in FamilyNames /\ count > 0
  BY NumParamsIs DEF Drafter!Families
<1>2. /\ n \in 1 .. MaxHeads /\ ahead \in 1 .. MaxHeads /\ ahead <= n /\ MaxHeads \in Nat
      /\ draftConfig.tie \in BOOLEAN
      /\ draftConfig.method = "sum_lstm" => draftConfig.tie
  BY ConfigIs
<1>3. h \in Nat /\ h < ahead /\ h < n /\ heads \in 1 .. MaxHeads /\ ahead <= heads
  BY <1>2 DEF Drafter!First
<1>4. IF draftConfig.tie THEN a = (IF f \in {"proj", "projs"} THEN IF h < 1 THEN h ELSE 1 ELSE 0) ELSE a = h
  BY DEF Drafter!Actual, Drafter!MinOf
<1>5. /\ f = "projs" => count = 2
      /\ f \in {"forget_emb", "cell_ln", "state_ln", "qhead"} => (count = 1 /\ draftConfig.tie)
      /\ f = "proj" => count = IF draftConfig.tie THEN IF 2 < heads THEN 2 ELSE heads ELSE heads
      /\ f \in {"emb", "ln"} => count = IF draftConfig.tie THEN 1 ELSE heads
      /\ f = "head" => count = IF draftConfig.tie THEN 1 ELSE ahead
  <2>1. f \in {"projs", "forget_emb", "cell_ln", "state_ln"} => draftConfig.method = "sum_lstm"
    BY <1>1, NumParamsIs
  <2>2. f \in {"proj", "emb", "ln"} => draftConfig.method # "sum_lstm"
    BY <1>1, NumParamsIs
  <2>3. f = "qhead" => (count = 1 /\ draftConfig.tie)
    BY <1>1, NumParamsIs
  <2>4. f = "projs" => count = 2
    BY <2>1, NumParamsIs
  <2>5. f \in {"forget_emb", "cell_ln", "state_ln"} => (count = 1 /\ draftConfig.tie)
    BY <1>2, <2>1, NumParamsIs
  <2>6. f = "proj" => count = IF draftConfig.tie THEN IF 2 < heads THEN 2 ELSE heads ELSE heads
    BY <2>2, NumParamsIs DEF Drafter!MinOf
  <2>7. f \in {"emb", "ln"} => count = IF draftConfig.tie THEN 1 ELSE heads
    BY <2>2, NumParamsIs
  <2>8. f = "head" => count = IF draftConfig.tie THEN 1 ELSE ahead
    BY NumParamsIs
  <2> HIDE DEF count, heads, ahead
  <2> QED
    BY <2>3, <2>4, <2>5, <2>6, <2>7, <2>8
<1>6. f = "projs" => draftConfig.tie
  <2>1. f = "projs" => draftConfig.method = "sum_lstm"
    BY <1>1, NumParamsIs
  <2> QED
    BY <1>2, <2>1
<1> HIDE DEF n, ahead, heads, count, a
<1>7. a \in Nat /\ a <= h /\ count \in Nat /\ a < count /\ count <= MaxHeads + 2
  <2>1. CASE f \in {"projs", "proj"}
    BY <1>2, <1>3, <1>4, <1>5, <1>6, <2>1
  <2>2. CASE f \in {"emb", "ln", "head"}
    BY <1>2, <1>3, <1>4, <1>5, <2>2
  <2>3. CASE f \in {"forget_emb", "cell_ln", "state_ln", "qhead"}
    BY <1>2, <1>3, <1>4, <1>5, <2>3
  <2> QED
    BY <1>1, <2>1, <2>2, <2>3 DEF FamilyNames
<1>8. <<f, a>> \in Drafter!Params
  <2>1. a \in Drafter!First(MaxHeads + 2)
    BY <1>2, <1>7 DEF Drafter!First
  <2>2. f \in DOMAIN Drafter!NumParams
    BY <1>1, NumParamsIs
  <2> QED
    BY <1>7, <2>1, <2>2 DEF Drafter!Params, count
<1> QED
  BY <1>1, <1>3, <1>7, <1>8 DEF a, count, n, Drafter!Used

LEMMA GateNames ==
  /\ Drafter!ToSet(Drafter!Gates) = {"forget_proj", "input_proj", "output_proj", "cell_proj"}
  /\ Drafter!ToSet(Drafter!Gates) \intersect FamilyNames = {}
  /\ DOMAIN Drafter!Gates = 1 .. 4
  /\ \A g \in Drafter!ToSet(Drafter!Gates) : Drafter!Gates[CHOOSE k \in DOMAIN Drafter!Gates : Drafter!Gates[k] = g] = g
<1>1. /\ DOMAIN Drafter!Gates = 1 .. 4
      /\ Drafter!Gates[1] = "forget_proj" /\ Drafter!Gates[2] = "input_proj"
      /\ Drafter!Gates[3] = "output_proj" /\ Drafter!Gates[4] = "cell_proj"
  BY DEF Drafter!Gates
<1>2. Drafter!ToSet(Drafter!Gates) = {Drafter!Gates[i] : i \in DOMAIN Drafter!Gates}
  BY DEF Drafter!ToSet
<1>3. Drafter!ToSet(Drafter!Gates) = {"forget_proj", "input_proj", "output_proj", "cell_proj"}
  <2>1. \A i \in 1 .. 4 : i = 1 \/ i = 2 \/ i = 3 \/ i = 4
    OBVIOUS
  <2> QED
    BY <1>1, <1>2, <2>1
<1>4. \A g \in Drafter!ToSet(Drafter!Gates) : \E k \in DOMAIN Drafter!Gates : Drafter!Gates[k] = g
  BY <1>2
<1> QED
  BY <1>1, <1>3, <1>4 DEF FamilyNames

(* A checkpoint has the weight of every module a head uses, and it is the  *)
(* one trained for the head.                                               *)
LEMMA ModulesAreTrained ==
  ASSUME Drafter!SpeculatorWeightsAssumption, draftConfig \in Drafter!Configs,
         NEW f \in Drafter!Families, f \notin {"projs", "qhead"},
         NEW h \in Drafter!First(draftConfig.lookahead)
  PROVE  /\ <<f, Drafter!Actual(f, h)>> \in Drafter!Trained
         /\ Drafter!Value(<<f, Drafter!Actual(f, h)>>) = Drafter!Value(<<f, h>>)
<1> DEFINE a == Drafter!Actual(f, h)
           count(g) == IF complete THEN draftConfig.n ELSE Drafter!NumParams[g]
           plain == {w \in (DOMAIN Drafter!NumParams \ {"qhead", "projs"}) \X Drafter!First(MaxHeads) :
                        Drafter!NumParams[w[1]] > 0 /\ w[2] < count(w[1])}
<1>1. /\ f \in FamilyNames /\ h \in Nat /\ h < draftConfig.n /\ a \in Nat /\ a <= h
      /\ Drafter!NumParams[f] \in Nat /\ a < Drafter!NumParams[f]
  BY HeadsHaveModules
<1>2. draftConfig.n \in 1 .. MaxHeads /\ MaxHeads \in Nat
  BY ConfigIs
<1>3. <<f, a>> \in plain
  <2>1. f \in DOMAIN Drafter!NumParams \ {"qhead", "projs"} /\ Drafter!NumParams[f] > 0
    BY <1>1, NumParamsIs
  <2>2. a \in Drafter!First(MaxHeads) /\ a < count(f)
    BY <1>1, <1>2 DEF Drafter!First
  <2> QED
    BY <2>1, <2>2
<1>4. <<f, a>> \in Drafter!Trained
  BY <1>3 DEF Drafter!Trained
<1>5. f \notin Drafter!ToSet(Drafter!Gates)
  BY <1>1, GateNames
<1>6. Drafter!Value(<<f, a>>) = Drafter!Value(<<f, h>>)
  <2>1. CASE ~draftConfig.tie
    <3>1. a = h
      BY <2>1 DEF Drafter!Actual
    <3> QED
      BY <3>1
  <2>2. CASE draftConfig.tie /\ f = "proj"
    <3>1. a = IF h < 1 THEN h ELSE 1
      BY <2>2 DEF Drafter!Actual, Drafter!MinOf
    <3>2. CASE h = 0
      BY <3>1, <3>2
    <3>3. CASE h # 0
      <4>1. a = 1 /\ h > 0
        BY <1>1, <3>1, <3>3
      <4> QED
        BY <2>2, <4>1 DEF Drafter!Value
    <3> QED
      BY <3>2, <3>3
  <2>3. CASE draftConfig.tie /\ f # "proj"
    <3>1. \A i : Drafter!Value(<<f, i>>) = <<f, 0>>
      BY <1>5, <2>3 DEF Drafter!Value
    <3> QED
      BY <3>1
  <2> QED
    BY <2>1, <2>2, <2>3
<1> QED
  BY <1>4, <1>6 DEF a

(* A checkpoint is loaded whole or not at all. *)
DrafterInv ==
  /\ draftConfig \in Drafter!Configs
  /\ \/ params = [p \in Drafter!Params |-> Idle]
     \/ params = <<>>
     \/ params = [p \in Drafter!Params |-> Drafter!Loaded(p)]

LEMMA DrafterKeeps == DrafterInv /\ [Drafter!Next]_(Drafter!vars) => DrafterInv'
<1> SUFFICES ASSUME DrafterInv, [Drafter!Next]_(Drafter!vars) PROVE DrafterInv'
  OBVIOUS
<1>1. UNCHANGED <<draftConfig, prefixed, complete>>
  BY DEF Drafter!Next, Drafter!Load, Drafter!vars
<1>2. /\ Drafter!Params' = Drafter!Params
      /\ \A p : Drafter!Loaded(p)' = Drafter!Loaded(p)
  BY <1>1 DEF Drafter!Params, Drafter!NumParams, Drafter!Loaded, Drafter!Trained, Drafter!Value
<1>3. CASE params' = params
  BY <1>1, <1>2, <1>3 DEF DrafterInv
<1>4. CASE params' = <<>>
  BY <1>1, <1>2, <1>4 DEF DrafterInv
<1>5. CASE params' = [p \in Drafter!Params |-> Drafter!Loaded(p)]
  BY <1>1, <1>2, <1>5 DEF DrafterInv
<1> QED
  BY <1>3, <1>4, <1>5 DEF Drafter!Next, Drafter!Load, Drafter!vars

LEMMA DrafterIsLoaded ==
  ASSUME Drafter!SpeculatorWeightsAssumption, DrafterInv
  PROVE  Drafter!TypeOK /\ Drafter!HeadsUseTheirWeights /\ Drafter!GatesUseTheirProjection
<1>1. draftConfig \in Drafter!Configs
  BY DEF DrafterInv
<1>2. Drafter!TypeOK
  <2>1. DOMAIN params \in {Drafter!Params, {}}
    BY DEF DrafterInv
  <2>2. "head" \in Drafter!Families
    <3>1. Drafter!NumParams["head"] > 0
      BY <1>1, ConfigIs, NumParamsIs
    <3> QED
      BY <3>1, NumParamsIs DEF Drafter!Families, FamilyNames
  <2>3. draftConfig.lookahead - 1 \in Drafter!First(draftConfig.lookahead)
    BY <1>1, ConfigIs DEF Drafter!First
  <2>4. Drafter!Used("head", draftConfig.lookahead - 1) \in Drafter!Params
    BY <1>1, <2>2, <2>3, HeadsHaveModules
  <2> QED
    BY <2>1, <2>4 DEF Drafter!TypeOK
<1>3. Drafter!IsLoaded => params = [p \in Drafter!Params |-> Drafter!Loaded(p)]
  BY DEF DrafterInv, Drafter!IsLoaded
<1>4. Drafter!HeadsUseTheirWeights
  <2> SUFFICES ASSUME Drafter!IsLoaded, NEW f \in Drafter!Families, NEW h \in Drafter!First(draftConfig.lookahead)
               PROVE  /\ Drafter!Used(f, h) \in DOMAIN params
                      /\ f \notin {"projs", "qhead"} => params[Drafter!Used(f, h)] = Drafter!Value(<<f, h>>)
                      /\ f = "qhead" => params[Drafter!Used(f, h)] = params[Drafter!Used("head", h)]
    BY DEF Drafter!HeadsUseTheirWeights
  <2>1. Drafter!Used(f, h) \in Drafter!Params
    BY <1>1, HeadsHaveModules
  <2>2. \A p \in Drafter!Params : params[p] = Drafter!Loaded(p)
    BY <1>3
  <2>3. ASSUME f \notin {"projs", "qhead"} PROVE params[Drafter!Used(f, h)] = Drafter!Value(<<f, h>>)
    <3>1. /\ <<f, Drafter!Actual(f, h)>> \in Drafter!Trained
          /\ Drafter!Value(<<f, Drafter!Actual(f, h)>>) = Drafter!Value(<<f, h>>)
      BY <1>1, <2>3, ModulesAreTrained
    <3>2. Drafter!Loaded(Drafter!Used(f, h)) = Drafter!Value(<<f, Drafter!Actual(f, h)>>)
      BY <2>3, <3>1 DEF Drafter!Loaded, Drafter!Used
    <3> QED
      BY <2>1, <2>2, <3>1, <3>2
  <2>4. ASSUME f = "qhead" PROVE params[Drafter!Used(f, h)] = params[Drafter!Used("head", h)]
    <3>1. Drafter!NumParams["qhead"] > 0
      BY <2>4 DEF Drafter!Families
    <3>2. draftConfig.tie /\ "head" \in Drafter!Families
      <4>1. draftConfig.tie
        BY <3>1, NumParamsIs
      <4>2. Drafter!NumParams["head"] > 0
        BY <4>1, NumParamsIs
      <4> QED
        BY <4>1, <4>2, NumParamsIs DEF Drafter!Families, FamilyNames
    <3>3. Drafter!Used("qhead", h) = <<"qhead", 0>> /\ Drafter!Used("head", h) = <<"head", 0>>
      BY <3>2 DEF Drafter!Used, Drafter!Actual
    <3>4. Drafter!Used("head", h) \in Drafter!Params
      BY <1>1, <3>2, HeadsHaveModules
    <3>5. Drafter!Loaded(<<"qhead", 0>>) = Drafter!Loaded(<<"head", 0>>)
      BY DEF Drafter!Loaded
    <3> QED
      BY <2>1, <2>2, <2>4, <3>3, <3>4, <3>5
  <2> QED
    BY <1>3, <2>1, <2>3, <2>4
<1>5. Drafter!GatesUseTheirProjection
  <2> SUFFICES ASSUME Drafter!IsLoaded, Drafter!Fuses, NEW g \in Drafter!ToSet(Drafter!Gates),
                      NEW h \in Drafter!First(draftConfig.lookahead)
               PROVE  Drafter!GateOf(g, Drafter!Actual("projs", h)) = <<g, Drafter!Actual("projs", h)>>
    BY DEF Drafter!GatesUseTheirProjection
  <2> DEFINE i == Drafter!Actual("projs", h)
             k == CHOOSE j \in DOMAIN Drafter!Gates : Drafter!Gates[j] = g
  <2>1. "projs" \in Drafter!Families
    <3>1. Drafter!NumParams["projs"] > 0
      BY NumParamsIs DEF Drafter!Fuses
    <3> QED
      BY <3>1, NumParamsIs DEF Drafter!Families, FamilyNames
  <2>2. <<"projs", i>> \in Drafter!Params
    BY <1>1, <2>1, HeadsHaveModules DEF Drafter!Used
  <2>3. params[<<"projs", i>>] = Drafter!Fused(i)
    BY <1>3, <2>2 DEF Drafter!Loaded
  <2>4. k \in 1 .. 4 /\ Drafter!Gates[k] = g
    <3>1. \E j \in DOMAIN Drafter!Gates : Drafter!Gates[j] = g
      BY DEF Drafter!ToSet
    <3> QED
      BY <3>1, GateNames
  <2>5. Drafter!Fused(i)[k] = <<g, i>>
    <3> HIDE DEF k
    <3> QED
      BY <2>4 DEF Drafter!Fused
  <2> QED
    BY <2>3, <2>5 DEF Drafter!GateOf
<1> QED
  BY <1>2, <1>4, <1>5

(* load_weights of either draft model, for any number of heads, tied or    *)
(* not, from either kind of checkpoint: every head computes with the       *)
(* weights trained for it, every gate with its projection.                 *)
THEOREM DrafterHasItsWeights ==
  ASSUME Drafter!SpeculatorWeightsAssumption
  PROVE  Drafter!Spec => [](Drafter!TypeOK /\ Drafter!HeadsUseTheirWeights /\ Drafter!GatesUseTheirProjection)
<1>1. Drafter!Init => DrafterInv
  BY DEF Drafter!Init, DrafterInv
<1>2. DrafterInv => Drafter!TypeOK /\ Drafter!HeadsUseTheirWeights /\ Drafter!GatesUseTheirProjection
  BY DrafterIsLoaded
<1> QED
  BY <1>1, <1>2, DrafterKeeps, PTL DEF Drafter!Spec

-----------------------------------------------------------------------------
(* Flattening a sequence of sequences: each is found behind those before. *)

(* f[i] is the first i sequences of s in one.                              *)
Joined(f, s, i) == IF i = 1 THEN s[i] ELSE f[i - 1] \o s[i]
Glued(n, s, f) == f = [i \in 1 .. n |-> Joined(f, s, i)]

LEMMA GluedMore ==
  ASSUME NEW n \in Nat, NEW s, NEW f, Glued(n, s, f)
  PROVE  \E g : Glued(n + 1, s, g)
<1> DEFINE g == [i \in 1 .. n + 1 |-> Joined(f, s, i)]
<1>1. \A i \in 1 .. n : f[i] = Joined(f, s, i)
  BY Zenon DEF Glued
<1>2. \A i \in 1 .. n : i \in 1 .. n + 1
  OBVIOUS
<1>3. \A i \in 1 .. n : g[i] = f[i]
  BY <1>1, <1>2
<1>4. ASSUME NEW i \in 1 .. n + 1 PROVE Joined(f, s, i) = Joined(g, s, i)
  <2>1. CASE i = 1
    BY <2>1 DEF Joined
  <2>2. CASE i # 1
    <3>1. i - 1 \in 1 .. n
      BY <2>2
    <3>2. g[i - 1] = f[i - 1]
      BY <1>3, <3>1
    <3> HIDE DEF g
    <3> QED
      BY <3>2, Zenon DEF Joined
  <2> QED
    BY <2>1, <2>2
<1>5. g = [i \in 1 .. n + 1 |-> Joined(f, s, i)]
  OBVIOUS
<1> HIDE DEF g
<1>6. g = [i \in 1 .. n + 1 |-> Joined(g, s, i)]
  BY <1>4, <1>5
<1>7. Glued(n + 1, s, g)
  BY <1>6, Zenon DEF Glued
<1> QED
  BY <1>7

LEMMA GluedUpTo == ASSUME NEW s, NEW n \in Nat PROVE \E f : Glued(n, s, f)
<1> DEFINE Bad == {m \in Nat : ~ \E f : Glued(m, s, f)}
<1>1. Bad = {}
  <2> SUFFICES ASSUME Bad # {} PROVE FALSE
    OBVIOUS
  <2>1. PICK m \in Bad : \A k \in Bad : m <= k
    <3> HIDE DEF Bad
    <3>1. Bad \subseteq Nat
      BY DEF Bad
    <3> QED
      BY <3>1, Least
  <2>2. m # 0
    <3> DEFINE f == [i \in 1 .. 0 |-> s[i]]
    <3>1. Glued(0, s, f)
      BY DEF Glued
    <3> QED
      BY <3>1
  <2>3. m - 1 \in Nat /\ (m - 1) + 1 = m
    BY <2>2
  <2>4. m - 1 \notin Bad
    <3> HIDE DEF Bad
    <3> QED
      BY <2>1, <2>3
  <2>5. \E f : Glued((m - 1) + 1, s, f)
    BY <2>3, <2>4, GluedMore
  <2> QED
    BY <2>3, <2>5
<1> QED
  BY <1>1

LEMMA FlattenGlues ==
  ASSUME NEW s, Len(s) \in Nat \ {0}
  PROVE  \E f : /\ \A i \in 1 .. Len(s) : f[i] = Joined(f, s, i)
                /\ Rows!FlattenSeq(s) = f[Len(s)]
<1> DEFINE f == CHOOSE f : Glued(Len(s), s, f)
<1>1. Glued(Len(s), s, f)
  BY GluedUpTo
<1>2. Rows!FlattenSeq(s) = f[Len(s)]
  <2>1. Len(s) # 0
    OBVIOUS
  <2> QED
    BY <2>1, Zenon DEF Rows!FlattenSeq, Glued, Joined
<1> HIDE DEF f
<1>3. \A i \in 1 .. Len(s) : f[i] = Joined(f, s, i)
  BY <1>1, Zenon DEF Glued
<1> QED
  BY <1>2, <1>3

(* Each of the first m sequences is found in f[m], at its offset.          *)
Placed(m, S, f, s, off) ==
  /\ f[m] \in Seq(S) /\ Len(f[m]) = off[m]
  /\ \A i \in 1 .. m : \A j \in 1 .. Len(s[i]) : f[m][off[i - 1] + j] = s[i][j]

Offsets(n, S, s, off) ==
  \A i \in 1 .. n : /\ off[i - 1] \in Nat /\ off[i] = off[i - 1] + Len(s[i])
                    /\ s[i] \in Seq(S)

LEMMA OffsetsGrow ==
  ASSUME NEW n \in Nat, NEW S, NEW s, NEW off, Offsets(n, S, s, off), NEW i \in 1 .. n
  PROVE  \A k \in i .. n : off[k] \in Nat /\ off[i] <= off[k]
<1> DEFINE Bad == {k \in Nat : k \in i .. n /\ ~(off[k] \in Nat /\ off[i] <= off[k])}
<1> SUFFICES ASSUME Bad # {} PROVE FALSE
  OBVIOUS
<1>1. PICK k \in Bad : \A m \in Bad : k <= m
  <2> HIDE DEF Bad
  <2>1. Bad \subseteq Nat
    BY DEF Bad
  <2> QED
    BY <2>1, Least
<1>2. /\ \A m \in 1 .. n : Len(s[m]) \in Nat
      /\ \A m \in 1 .. n : off[m - 1] \in Nat /\ off[m] = off[m - 1] + Len(s[m])
      /\ \A m \in 1 .. n : off[m] \in Nat
  <2> SUFFICES ASSUME NEW m \in 1 .. n
               PROVE  /\ Len(s[m]) \in Nat /\ off[m - 1] \in Nat
                      /\ off[m] = off[m - 1] + Len(s[m]) /\ off[m] \in Nat
    OBVIOUS
  <2>1. off[m - 1] \in Nat /\ off[m] = off[m - 1] + Len(s[m]) /\ s[m] \in Seq(S)
    BY DEF Offsets
  <2> QED
    BY <2>1
<1>3. k # i
  <2>1. off[i] \in Nat
    BY <1>2
  <2> QED
    BY <2>1
<1>4. k \in i + 1 .. n /\ k - 1 \in i .. n /\ k - 1 \in Nat /\ k \in 1 .. n
  BY <1>3
<1>5. k - 1 \notin Bad
  <2> HIDE DEF Bad
  <2> QED
    BY <1>1, <1>4
<1>6. off[k - 1] \in Nat /\ off[i] <= off[k - 1] /\ off[i] \in Nat
  <2>1. off[k - 1] \in Nat /\ off[i] <= off[k - 1]
    BY <1>4, <1>5
  <2> QED
    BY <1>2, <2>1
<1>7. off[k] = off[k - 1] + Len(s[k]) /\ Len(s[k]) \in Nat
  BY <1>2, <1>4
<1>8. off[k] \in Nat /\ off[i] <= off[k]
  BY <1>6, <1>7
<1> QED
  BY <1>8

LEMMA PlacedFirst ==
  ASSUME NEW n \in Nat \ {0}, NEW S, NEW s, NEW off, off[0] = 0, Offsets(n, S, s, off),
         NEW f, f[1] = Joined(f, s, 1)
  PROVE  Placed(1, S, f, s, off)
<1>1. f[1] = s[1]
  BY Zenon DEF Joined
<1>2. 1 \in 1 .. n /\ 1 - 1 = 0
  OBVIOUS
<1>3. off[1] = off[0] + Len(s[1]) /\ s[1] \in Seq(S) /\ Len(s[1]) \in Nat
  BY <1>2 DEF Offsets
<1>4. f[1] \in Seq(S) /\ Len(f[1]) = off[1]
  BY <1>1, <1>3
<1>5. ASSUME NEW i \in 1 .. 1, NEW j \in 1 .. Len(s[i]) PROVE f[1][off[i - 1] + j] = s[i][j]
  <2>1. i = 1 /\ i - 1 = 0 /\ off[i - 1] + j = j
    <3>1. i = 1
      OBVIOUS
    <3>2. j \in Nat /\ i - 1 = 0
      BY <1>3, <3>1
    <3> QED
      BY <3>1, <3>2
  <2> QED
    BY <1>1, <2>1
<1> QED
  BY <1>4, <1>5 DEF Placed

LEMMA PlacedNext ==
  ASSUME NEW n \in Nat \ {0}, NEW S, NEW s, NEW off, off[0] = 0, Offsets(n, S, s, off),
         NEW m \in 2 .. n, NEW f, f[m] = Joined(f, s, m), Placed(m - 1, S, f, s, off)
  PROVE  Placed(m, S, f, s, off)
<1> DEFINE p == f[m - 1]
           q == s[m]
<1>1. m \in 1 .. n /\ m # 1 /\ m - 1 \in 1 .. n
  OBVIOUS
<1>2. f[m] = p \o q
  BY <1>1, Zenon DEF Joined
<1>3. p \in Seq(S) /\ Len(p) = off[m - 1] /\ Len(p) \in Nat
  BY DEF Placed
<1>4. q \in Seq(S) /\ off[m] = off[m - 1] + Len(q) /\ Len(q) \in Nat
  BY <1>1 DEF Offsets
<1>5. \A i \in 1 .. m - 1 : \A j \in 1 .. Len(s[i]) : p[off[i - 1] + j] = s[i][j]
  BY DEF Placed
<1> HIDE DEF p, q
<1>6. f[m] \in Seq(S) /\ Len(f[m]) = off[m]
  <2>1. p \o q \in Seq(S) /\ Len(p \o q) = Len(p) + Len(q)
    BY <1>3, <1>4
  <2> QED
    BY <1>2, <1>3, <1>4, <2>1
<1>7. ASSUME NEW i \in 1 .. m, NEW j \in 1 .. Len(s[i]) PROVE f[m][off[i - 1] + j] = s[i][j]
  <2>1. i \in 1 .. n
    BY <1>1
  <2>2. off[i - 1] \in Nat /\ off[i] = off[i - 1] + Len(s[i]) /\ Len(s[i]) \in Nat
    BY <2>1 DEF Offsets
  <2>3. CASE i = m
    <3>0. j \in 1 .. Len(q)
      BY <2>3 DEF q
    <3>1. f[m][Len(p) + j] = q[j]
      <4>1. Len(p) + j \in 1 .. Len(p) + Len(q) /\ ~(Len(p) + j <= Len(p)) /\ (Len(p) + j) - Len(p) = j
        <5> DEFINE x == Len(p)
                   y == Len(q)
        <5>1. x \in Nat /\ y \in Nat /\ j \in 1 .. y
          BY <1>3, <1>4, <3>0
        <5> HIDE DEF x, y
        <5>2. x + j \in 1 .. x + y /\ ~(x + j <= x) /\ (x + j) - x = j
          BY <5>1
        <5> QED
          BY <5>2 DEF x, y
      <4>2. \A k \in 1 .. Len(p) + Len(q) : (p \o q)[k] = IF k <= Len(p) THEN p[k] ELSE q[k - Len(p)]
        BY <1>3, <1>4, ConcatProperties
      <4>3. (p \o q)[Len(p) + j] = q[(Len(p) + j) - Len(p)]
        BY <4>1, <4>2, Zenon
      <4> QED
        BY <1>2, <4>1, <4>3
    <3> QED
      BY <1>3, <2>3, <3>1 DEF q
  <2>4. CASE i # m
    <3>1. i \in 1 .. m - 1
      BY <2>4
    <3>2. off[i] <= off[m - 1]
      BY <1>1, <2>1, <3>1, OffsetsGrow
    <3>3. off[i - 1] + j \in 1 .. Len(p)
      BY <1>3, <2>2, <3>2
    <3>4. f[m][off[i - 1] + j] = p[off[i - 1] + j]
      BY <1>2, <1>3, <1>4, <3>3
    <3> QED
      BY <1>5, <3>1, <3>4
  <2> QED
    BY <2>3, <2>4
<1> QED
  BY <1>6, <1>7 DEF Placed

(* The sequences of s are found in flat, each at its offset.               *)
LaidOut(flat, s, off) ==
  /\ Len(flat) = off[Len(s)]
  /\ \A i \in 1 .. Len(s) : \A j \in 1 .. Len(s[i]) : flat[off[i - 1] + j] = s[i][j]

LEMMA FlattenPlaces ==
  ASSUME NEW S, NEW s, Len(s) \in Nat \ {0}, NEW off, off[0] = 0, Offsets(Len(s), S, s, off)
  PROVE  Rows!FlattenSeq(s) \in Seq(S) /\ LaidOut(Rows!FlattenSeq(s), s, off)
<1> DEFINE n == Len(s)
<1> HIDE DEF n
<1>1. n \in Nat \ {0} /\ Offsets(n, S, s, off)
  BY DEF n
<1>2. PICK f : (\A i \in 1 .. n : f[i] = Joined(f, s, i)) /\ Rows!FlattenSeq(s) = f[n]
  BY FlattenGlues DEF n
<1> DEFINE Bad == {m \in 1 .. n : ~Placed(m, S, f, s, off)}
<1>3. Bad = {}
  <2> SUFFICES ASSUME Bad # {} PROVE FALSE
    OBVIOUS
  <2>1. PICK m \in Bad : \A k \in Bad : m <= k
    <3> HIDE DEF Bad
    <3>1. Bad \subseteq Nat
      BY <1>1 DEF Bad
    <3> QED
      BY <3>1, Least
  <2>2. m \in 1 .. n
    OBVIOUS
  <2>3. m # 1
    <3>1. f[1] = Joined(f, s, 1)
      BY <1>1, <1>2
    <3>2. Placed(1, S, f, s, off)
      BY <1>1, <3>1, PlacedFirst
    <3> QED
      BY <3>2
  <2>4. m \in 2 .. n /\ m - 1 \in 1 .. n
    BY <1>1, <2>2, <2>3
  <2>5. m - 1 \notin Bad
    <3> HIDE DEF Bad
    <3> QED
      BY <1>1, <2>1, <2>2
  <2>6. Placed(m - 1, S, f, s, off)
    BY <2>4, <2>5
  <2>7. Placed(m, S, f, s, off)
    BY <1>1, <1>2, <2>2, <2>4, <2>6, PlacedNext
  <2> QED
    BY <2>7
<1>4. Placed(n, S, f, s, off)
  BY <1>1, <1>3
<1> QED
  BY <1>2, <1>4 DEF Placed, LaidOut, n

-----------------------------------------------------------------------------
(* DraftRows.                                                              *)

(* f[i] is the sum of g[1] to g[i].                                        *)
Summed(f, g, i) == IF i = 0 THEN 0 ELSE f[i - 1] + g[i]
Sums(n, g, f) == f = [i \in 0 .. n |-> Summed(f, g, i)]

LEMMA SumsMore ==
  ASSUME NEW n \in Nat, NEW g, NEW f, Sums(n, g, f)
  PROVE  \E h : Sums(n + 1, g, h)
<1> DEFINE h == [i \in 0 .. n + 1 |-> Summed(f, g, i)]
<1>1. \A i \in 0 .. n : f[i] = Summed(f, g, i)
  BY Zenon DEF Sums
<1>2. \A i \in 0 .. n : i \in 0 .. n + 1
  OBVIOUS
<1>3. \A i \in 0 .. n : h[i] = f[i]
  BY <1>1, <1>2
<1>4. ASSUME NEW i \in 0 .. n + 1 PROVE Summed(f, g, i) = Summed(h, g, i)
  <2>1. CASE i = 0
    BY <2>1 DEF Summed
  <2>2. CASE i # 0
    <3>1. i - 1 \in 0 .. n
      BY <2>2
    <3>2. h[i - 1] = f[i - 1]
      BY <1>3, <3>1
    <3> HIDE DEF h
    <3> QED
      BY <3>2, Zenon DEF Summed
  <2> QED
    BY <2>1, <2>2
<1>5. h = [i \in 0 .. n + 1 |-> Summed(f, g, i)]
  OBVIOUS
<1> HIDE DEF h
<1>6. h = [i \in 0 .. n + 1 |-> Summed(h, g, i)]
  BY <1>4, <1>5
<1>7. Sums(n + 1, g, h)
  BY <1>6, Zenon DEF Sums
<1> QED
  BY <1>7

LEMMA SumsUpTo == ASSUME NEW g, NEW n \in Nat PROVE \E f : Sums(n, g, f)
<1> DEFINE Bad == {m \in Nat : ~ \E f : Sums(m, g, f)}
<1>1. Bad = {}
  <2> SUFFICES ASSUME Bad # {} PROVE FALSE
    OBVIOUS
  <2>1. PICK m \in Bad : \A k \in Bad : m <= k
    <3> HIDE DEF Bad
    <3>1. Bad \subseteq Nat
      BY DEF Bad
    <3> QED
      BY <3>1, Least
  <2>2. m # 0
    <3> DEFINE f == [i \in 0 .. 0 |-> 0]
    <3>1. f = [i \in 0 .. 0 |-> Summed(f, g, i)]
      BY DEF Summed
    <3>2. Sums(0, g, f)
      BY <3>1 DEF Sums
    <3> QED
      BY <3>2
  <2>3. m - 1 \in Nat /\ (m - 1) + 1 = m
    BY <2>2
  <2>4. m - 1 \notin Bad
    <3> HIDE DEF Bad
    <3> QED
      BY <2>1, <2>3
  <2>5. \E f : Sums((m - 1) + 1, g, f)
    BY <2>3, <2>4, SumsMore
  <2> QED
    BY <2>3, <2>5
<1> QED
  BY <1>1

RowsInv == batch \in UNION {[1 .. n -> Rows!BatchRows] : n \in 1 .. NumRows}

LEMMA RowsTypes ==
  ASSUME Rows!DraftRowsAssumption, RowsInv
  PROVE  /\ Len(batch) \in Nat \ {0} /\ Rows!Indices = 1 .. Len(batch)
         /\ \A i \in 1 .. Len(batch) : /\ batch[i] \in Rows!BatchRows
                                       /\ batch[i].draft \in Nat /\ batch[i].gen \in Nat \ {0}
                                       /\ batch[i].gen <= batch[i].draft + 1 /\ batch[i].last \in BOOLEAN
                                       /\ Rows!NumSampled(i) = batch[i].draft + 1
<1>1. PICK n \in 1 .. NumRows : batch \in [1 .. n -> Rows!BatchRows]
  BY DEF RowsInv
<1>2. NumRows \in Nat /\ MaxDraft \in Nat
  BY DEF Rows!DraftRowsAssumption
<1>3. n \in Nat \ {0} /\ batch \in Seq(Rows!BatchRows) /\ DOMAIN batch = 1 .. n
  BY <1>1, <1>2
<1>4. Len(batch) = n
  BY <1>1, <1>3, LenProperties
<1> QED
  BY <1>1, <1>2, <1>3, <1>4 DEF Rows!Indices, Rows!BatchRows, Rows!NumSampled

LEMMA CumsumSums ==
  ASSUME Rows!DraftRowsAssumption, RowsInv
  PROVE  /\ Rows!Cumsum[0] = 0
         /\ \A i \in 1 .. Len(batch) : /\ Rows!Cumsum[i - 1] \in Nat
                                       /\ Rows!Cumsum[i] = Rows!Cumsum[i - 1] + Rows!NumSampled(i)
<1> DEFINE n == Len(batch)
           g == [i \in 0 .. n |-> Rows!NumSampled(i)]
           c == CHOOSE f : f = [i \in 0 .. n |-> IF i = 0 THEN 0 ELSE f[i - 1] + Rows!NumSampled(i)]
<1>0. n \in Nat /\ \A i \in 1 .. n : Rows!NumSampled(i) \in Nat
  BY RowsTypes
<1>1. PICK f : Sums(n, g, f)
  BY <1>0, SumsUpTo
<1>2. \E h : h = [i \in 0 .. n |-> IF i = 0 THEN 0 ELSE h[i - 1] + Rows!NumSampled(i)]
  <2>1. f = [i \in 0 .. n |-> Summed(f, g, i)]
    BY <1>1 DEF Sums
  <2>2. \A i \in 0 .. n : Summed(f, g, i) = IF i = 0 THEN 0 ELSE f[i - 1] + Rows!NumSampled(i)
    BY DEF Summed
  <2> HIDE DEF g, n
  <2>3. f = [i \in 0 .. n |-> IF i = 0 THEN 0 ELSE f[i - 1] + Rows!NumSampled(i)]
    BY <2>1, <2>2
  <2> QED
    BY <2>3
<1>3. c = [i \in 0 .. n |-> IF i = 0 THEN 0 ELSE c[i - 1] + Rows!NumSampled(i)]
  <2> HIDE DEF n, g
  <2> QED
    BY <1>2, Zenon
<1>4. Rows!Cumsum = c
  BY Zenon DEF Rows!Cumsum
<1> HIDE DEF c, g, n
<1>5. \A i \in 0 .. n : c[i] = IF i = 0 THEN 0 ELSE c[i - 1] + Rows!NumSampled(i)
  BY <1>3, Zenon
<1>6. c[0] = 0 /\ \A i \in 1 .. n : i \in 0 .. n /\ i - 1 \in 0 .. n /\ c[i] = c[i - 1] + Rows!NumSampled(i)
  BY <1>0, <1>5
<1> DEFINE Bad == {i \in 0 .. n : ~(c[i] \in Nat)}
<1>7. Bad = {}
  <2> SUFFICES ASSUME Bad # {} PROVE FALSE
    OBVIOUS
  <2>1. PICK i \in Bad : \A k \in Bad : i <= k
    <3> HIDE DEF Bad
    <3>1. Bad \subseteq Nat
      BY <1>0 DEF Bad
    <3> QED
      BY <3>1, Least
  <2>2. i # 0
    BY <1>6
  <2>3. i \in 1 .. n /\ i - 1 \in 0 .. n /\ i - 1 < i
    BY <1>0, <2>2
  <2>4. i - 1 \notin Bad
    <3> HIDE DEF Bad
    <3> QED
      BY <1>0, <2>1, <2>3
  <2>5. c[i - 1] \in Nat
    BY <2>3, <2>4
  <2>6. c[i] \in Nat
    BY <1>0, <1>6, <2>3, <2>5
  <2> QED
    BY <2>6
<1>8. \A i \in 1 .. n : c[i - 1] \in Nat
  BY <1>6, <1>7
<1> QED
  BY <1>4, <1>6, <1>8 DEF n

(* The states of row i, as they lie in the flat tensor.                    *)
StatesOf(i) == [j \in 1 .. batch[i].draft + 1 |-> <<i, j>>]

LEMMA StatesAreFound ==
  ASSUME Rows!DraftRowsAssumption, RowsInv
  PROVE  /\ Len(Rows!SampleHiddenStates) = Rows!Cumsum[Len(batch)]
         /\ \A i \in 1 .. Len(batch) : \A j \in 1 .. batch[i].draft + 1 :
                Rows!SampleHiddenStates[Rows!Cumsum[i - 1] + j] = <<i, j>>
<1> DEFINE n == Len(batch)
           s == [i \in Rows!Indices |-> StatesOf(i)]
           S == Nat \X Nat
<1>1. n \in Nat \ {0} /\ Rows!Indices = 1 .. n
  BY RowsTypes
<1>2. ASSUME NEW i \in 1 .. n
      PROVE  s[i] \in Seq(S) /\ Len(s[i]) = Rows!NumSampled(i) /\ DOMAIN s[i] = 1 .. batch[i].draft + 1
             /\ \A j \in 1 .. batch[i].draft + 1 : s[i][j] = <<i, j>>
  <2>1. batch[i].draft \in Nat /\ Rows!NumSampled(i) = batch[i].draft + 1
    BY RowsTypes
  <2>2. s[i] = StatesOf(i)
    BY <1>1
  <2>3. StatesOf(i) \in Seq(S) /\ Len(StatesOf(i)) = batch[i].draft + 1
    <3>1. \A j \in 1 .. batch[i].draft + 1 : <<i, j>> \in S
      BY <1>1, <2>1
    <3> HIDE DEF S
    <3>2. StatesOf(i) \in [1 .. batch[i].draft + 1 -> S]
      BY <3>1 DEF StatesOf
    <3>3. StatesOf(i) \in Seq(S)
      BY <2>1, <3>2
    <3> QED
      BY <2>1, <3>2, <3>3, LenProperties
  <2>4. DOMAIN StatesOf(i) = 1 .. batch[i].draft + 1 /\ \A j \in 1 .. batch[i].draft + 1 : StatesOf(i)[j] = <<i, j>>
    BY DEF StatesOf
  <2> HIDE DEF s
  <2> QED
    BY <2>1, <2>2, <2>3, <2>4
<1>3. Len(s) = n
  <2>1. s \in [1 .. n -> Seq(S)]
    BY <1>1, <1>2
  <2>2. s \in Seq(Seq(S))
    BY <1>1, <2>1
  <2> HIDE DEF s
  <2> QED
    BY <1>1, <2>1, <2>2, LenProperties
<1>4. Rows!Cumsum[0] = 0 /\ Offsets(n, S, s, Rows!Cumsum)
  <2> HIDE DEF s, S
  <2> QED
    BY <1>2, CumsumSums DEF Offsets
<1>5. Rows!SampleHiddenStates = Rows!FlattenSeq(s)
  BY DEF Rows!SampleHiddenStates, StatesOf
<1> HIDE DEF s, S, n
<1>6. /\ Len(Rows!FlattenSeq(s)) = Rows!Cumsum[n]
      /\ \A i \in 1 .. n : \A j \in 1 .. Len(s[i]) : Rows!FlattenSeq(s)[Rows!Cumsum[i - 1] + j] = s[i][j]
  <2>1. Len(s) \in Nat \ {0} /\ Rows!Cumsum[0] = 0 /\ Offsets(Len(s), S, s, Rows!Cumsum)
    BY <1>1, <1>3, <1>4
  <2>2. /\ Len(Rows!FlattenSeq(s)) = Rows!Cumsum[Len(s)]
        /\ \A i \in 1 .. Len(s) : \A j \in 1 .. Len(s[i]) : Rows!FlattenSeq(s)[Rows!Cumsum[i - 1] + j] = s[i][j]
    <3>1. Len(s) \in Nat \ {0}
      BY <2>1
    <3>2. LaidOut(Rows!FlattenSeq(s), s, Rows!Cumsum)
      BY <2>1, <3>1, FlattenPlaces
    <3> QED
      BY <3>2, Zenon DEF LaidOut
  <2> QED
    BY <1>3, <2>2
<1>7. \A i \in 1 .. n : \A j \in 1 .. batch[i].draft + 1 :
         Rows!FlattenSeq(s)[Rows!Cumsum[i - 1] + j] = <<i, j>>
  <2> SUFFICES ASSUME NEW i \in 1 .. n, NEW j \in 1 .. batch[i].draft + 1
               PROVE  Rows!FlattenSeq(s)[Rows!Cumsum[i - 1] + j] = <<i, j>>
    OBVIOUS
  <2>1. Rows!NumSampled(i) = batch[i].draft + 1
    BY RowsTypes DEF n
  <2>2. j \in 1 .. Len(s[i]) /\ s[i][j] = <<i, j>>
    BY <1>2, <2>1
  <2> QED
    BY <1>6, <2>2
<1> QED
  BY <1>5, <1>6, <1>7 DEF n

LEMMA Greatest ==
  ASSUME NEW T, T \subseteq Nat, T # {}, NEW b \in Nat, \A y \in T : y <= b
  PROVE  \E x \in T : \A y \in T : y <= x
<1> DEFINE D == {b - y : y \in T}
<1>1. D \subseteq Nat /\ D # {}
  <2>1. \A y \in T : b - y \in Nat
    OBVIOUS
  <2> QED
    BY <2>1
<1>2. PICK d \in D : \A e \in D : d <= e
  <2> HIDE DEF D
  <2> QED
    BY <1>1, Least
<1>3. PICK x \in T : d = b - x
  OBVIOUS
<1>4. ASSUME NEW y \in T PROVE y <= x
  <2>1. b - y \in D
    OBVIOUS
  <2>2. d <= b - y /\ x \in Nat /\ y \in Nat
    BY <1>2, <2>1
  <2> QED
    BY <1>3, <2>2
<1> QED
  BY <1>4

(* Without drafts the tensor has one state per row, and is left as it is.  *)
LEMMA NoDraftsAtAll ==
  ASSUME Rows!DraftRowsAssumption, RowsInv, Rows!MaxGenLen = 1
  PROVE  \A i \in 1 .. Len(batch) : batch[i].draft = 0 /\ Rows!Cumsum[i - 1] = i - 1
<1> DEFINE n == Len(batch)
           T == {batch[i].draft + 1 : i \in 1 .. n}
<1>1. n \in Nat \ {0} /\ Rows!Indices = 1 .. n
      /\ \A i \in 1 .. n : batch[i] \in Rows!BatchRows /\ batch[i].draft \in Nat /\ Rows!NumSampled(i) = batch[i].draft + 1
  BY RowsTypes
<1>2. \A i \in 1 .. n : batch[i].draft \in 0 .. MaxDraft /\ MaxDraft \in Nat
  BY <1>1 DEF Rows!BatchRows, Rows!DraftRowsAssumption
<1>3. Rows!MaxGenLen = Rows!Max(T)
  BY <1>1 DEF Rows!MaxGenLen
<1>4. T \subseteq Nat /\ T # {} /\ MaxDraft + 1 \in Nat /\ \A y \in T : y <= MaxDraft + 1
  BY <1>1, <1>2
<1>5. \E x \in T : \A y \in T : x >= y
  <2> HIDE DEF T
  <2>1. PICK x \in T : \A y \in T : y <= x
    BY <1>4, Greatest
  <2>2. \A y \in T : x >= y
    BY <1>4, <2>1
  <2> QED
    BY <2>2
<1>6. \A y \in T : 1 >= y
  <2> HIDE DEF T
  <2> QED
    BY <1>3, <1>5, Zenon DEF Rows!Max
<1>7. \A i \in 1 .. n : batch[i].draft = 0
  <2> SUFFICES ASSUME NEW i \in 1 .. n PROVE batch[i].draft = 0
    OBVIOUS
  <2>1. batch[i].draft + 1 \in T /\ batch[i].draft \in Nat
    BY <1>1
  <2>2. 1 >= batch[i].draft + 1
    <3> HIDE DEF T
    <3> QED
      BY <1>6, <2>1
  <2> QED
    BY <2>1, <2>2
<1> HIDE DEF n, T
<1>8. Rows!Cumsum[0] = 0 /\ \A i \in 1 .. n : Rows!Cumsum[i] = Rows!Cumsum[i - 1] + 1
  BY <1>1, <1>7, CumsumSums DEF n
<1> DEFINE Bad == {i \in 0 .. n : Rows!Cumsum[i] # i}
<1>9. Bad = {}
  <2> SUFFICES ASSUME Bad # {} PROVE FALSE
    OBVIOUS
  <2>1. PICK i \in Bad : \A k \in Bad : i <= k
    <3> HIDE DEF Bad
    <3>1. Bad \subseteq Nat
      BY <1>1 DEF Bad
    <3> QED
      BY <3>1, Least
  <2>2. i # 0
    BY <1>8
  <2>3. i \in 1 .. n /\ i - 1 \in 0 .. n /\ i - 1 < i
    BY <1>1, <2>2
  <2>4. i - 1 \notin Bad
    <3> HIDE DEF Bad
    <3> QED
      BY <1>1, <2>1, <2>3
  <2>5. Rows!Cumsum[i - 1] = i - 1
    BY <2>3, <2>4
  <2>6. Rows!Cumsum[i] = i
    BY <1>1, <1>8, <2>3, <2>5
  <2> QED
    BY <2>6
<1>10. \A i \in 1 .. n : Rows!Cumsum[i - 1] = i - 1
  <2>1. \A i \in 1 .. n : i - 1 \in 0 .. n
    BY <1>1
  <2> QED
    BY <1>9, <2>1
<1> QED
  BY <1>7, <1>10 DEF n

LEMMA PreviousIsOwn ==
  ASSUME Rows!DraftRowsAssumption, RowsInv, NEW i \in 1 .. Len(batch)
  PROVE  /\ Rows!HiddenStatesIdx[i] \in 0 .. Len(Rows!SampleHiddenStates) - 1
         /\ Rows!PreviousHiddenStates[i] = <<i, batch[i].gen>>
<1>1. /\ Rows!Indices = 1 .. Len(batch) /\ Len(batch) \in Nat
      /\ batch[i].draft \in Nat /\ batch[i].gen \in Nat \ {0} /\ batch[i].gen <= batch[i].draft + 1
      /\ Rows!NumSampled(i) = batch[i].draft + 1
  BY RowsTypes
<1> DEFINE d == batch[i].draft
           g == batch[i].gen
           before == Rows!Cumsum[i - 1]
<1>2. before \in Nat /\ Rows!Cumsum[i] = before + Rows!NumSampled(i)
  BY CumsumSums
<1>3. Rows!HiddenStatesIdx[i] = g - 1 + Rows!Cumsum[i] - Rows!NumSampled(i)
  BY <1>1 DEF Rows!HiddenStatesIdx
<1>4. /\ d \in Nat /\ g \in Nat \ {0} /\ g <= d + 1 /\ Rows!NumSampled(i) = d + 1
      /\ g \in 1 .. d + 1
  <2>1. d \in Nat /\ g \in Nat \ {0} /\ g <= d + 1 /\ Rows!NumSampled(i) = d + 1
    BY <1>1
  <2> HIDE DEF d, g
  <2> QED
    BY <2>1
<1>5. Rows!SampleHiddenStates[before + g] = <<i, g>>
  <2>1. \A j \in 1 .. d + 1 : Rows!SampleHiddenStates[before + j] = <<i, j>>
    BY StatesAreFound
  <2> HIDE DEF d, g, before
  <2> QED
    BY <1>4, <2>1
<1>10. Rows!HiddenStatesIdx[i] = before + (g - 1) /\ Rows!HiddenStatesIdx[i] + 1 = before + g
  <2> HIDE DEF d, g, before
  <2> QED
    BY <1>2, <1>3, <1>4
<1>6. Rows!Cumsum[i] <= Rows!Cumsum[Len(batch)] /\ Rows!Cumsum[Len(batch)] \in Nat
  <2> DEFINE s == [k \in 1 .. Len(batch) |-> [j \in 1 .. Rows!NumSampled(k) |-> 0]]
  <2>1. Offsets(Len(batch), {0}, s, Rows!Cumsum)
    <3> SUFFICES ASSUME NEW k \in 1 .. Len(batch)
                 PROVE  /\ Rows!Cumsum[k - 1] \in Nat /\ Rows!Cumsum[k] = Rows!Cumsum[k - 1] + Len(s[k])
                        /\ s[k] \in Seq({0})
      BY DEF Offsets
    <3>1. Rows!NumSampled(k) \in Nat
      BY RowsTypes
    <3>2. s[k] = [j \in 1 .. Rows!NumSampled(k) |-> 0]
      OBVIOUS
    <3> HIDE DEF s
    <3>3. s[k] \in [1 .. Rows!NumSampled(k) -> {0}]
      BY <3>2
    <3>4. s[k] \in Seq({0})
      BY <3>1, <3>3
    <3>5. Len(s[k]) = Rows!NumSampled(k)
      BY <3>1, <3>3, <3>4, LenProperties
    <3> QED
      BY <3>4, <3>5, CumsumSums
  <2> HIDE DEF s
  <2>2. Len(batch) \in i .. Len(batch)
    BY <1>1
  <2> QED
    BY <1>1, <2>1, <2>2, OffsetsGrow
<1>7. Rows!HiddenStatesIdx[i] \in 0 .. Len(Rows!SampleHiddenStates) - 1
  <2>1. Len(Rows!SampleHiddenStates) = Rows!Cumsum[Len(batch)]
    BY StatesAreFound
  <2> HIDE DEF d, g, before
  <2> QED
    BY <1>2, <1>4, <1>6, <1>10, <2>1
<1>8. CASE Rows!MaxGenLen = 1
  <2>1. d = 0 /\ before = i - 1
    BY <1>8, NoDraftsAtAll
  <2>2. before + g = i
    <3> HIDE DEF d, g, before
    <3> QED
      BY <1>4, <2>1
  <2>3. Rows!PreviousHiddenStates = Rows!SampleHiddenStates
    BY <1>8, Zenon DEF Rows!PreviousHiddenStates
  <2> QED
    BY <1>5, <1>7, <2>2, <2>3
<1>9. CASE Rows!MaxGenLen # 1
  <2>1. Rows!PreviousHiddenStates[i] = Rows!SampleHiddenStates[Rows!HiddenStatesIdx[i] + 1]
    BY <1>1, <1>9 DEF Rows!PreviousHiddenStates
  <2> QED
    BY <1>5, <1>7, <1>10, <2>1
<1> QED
  BY <1>8, <1>9

(* The answers are in the order of the rows that have one.                 *)
LEMMA AnswersInOrder ==
  ASSUME Rows!DraftRowsAssumption, RowsInv, NEW i \in Rows!Valid
  PROVE  /\ Rows!NumValid(i) \in 1 .. Rows!Cardinality(Rows!Valid)
         /\ Rows!ValidIndex(Rows!NumValid(i)) = i
<1> DEFINE UpTo(k) == {j \in Rows!Valid : j <= k}
<1>1. Rows!Valid \subseteq 1 .. Len(batch) /\ Len(batch) \in Nat
  BY RowsTypes DEF Rows!Valid
<1>2. IsFiniteSet(Rows!Valid)
  <2>1. IsFiniteSet(1 .. Len(batch))
    BY <1>1, FS_Interval
  <2> QED
    BY <1>1, <2>1, FS_Subset
<1>3. \A k \in Rows!Valid : /\ UpTo(k) \subseteq Rows!Valid /\ k \in UpTo(k)
                            /\ IsFiniteSet(UpTo(k)) /\ Cardinality(UpTo(k)) \in 1 .. Cardinality(Rows!Valid)
  <2> SUFFICES ASSUME NEW k \in Rows!Valid
               PROVE  /\ UpTo(k) \subseteq Rows!Valid /\ k \in UpTo(k)
                      /\ IsFiniteSet(UpTo(k)) /\ Cardinality(UpTo(k)) \in 1 .. Cardinality(Rows!Valid)
    OBVIOUS
  <2>1. UpTo(k) \subseteq Rows!Valid /\ k \in UpTo(k)
    BY <1>1
  <2> HIDE DEF UpTo
  <2>2. IsFiniteSet(UpTo(k)) /\ Cardinality(UpTo(k)) <= Cardinality(Rows!Valid)
    BY <1>2, <2>1, FS_Subset
  <2>3. Cardinality(UpTo(k)) \in Nat /\ Cardinality(UpTo(k)) # 0 /\ Cardinality(Rows!Valid) \in Nat
    BY <1>2, <2>1, <2>2, FS_CardinalityType, FS_EmptySet
  <2> QED
    BY <2>1, <2>2, <2>3
<1>4. ASSUME NEW j \in Rows!Valid, NEW k \in Rows!Valid, j < k PROVE Cardinality(UpTo(j)) # Cardinality(UpTo(k))
  <2>0. \A x \in Rows!Valid : x \in Nat
    BY <1>1
  <2>1. UpTo(j) \subseteq UpTo(k) /\ k \notin UpTo(j)
    BY <1>4, <2>0
  <2>2. k \in UpTo(k) /\ IsFiniteSet(UpTo(k))
    BY <1>3
  <2> HIDE DEF UpTo
  <2> QED
    BY <2>1, <2>2, FS_Subset
<1>5. \A k : Rows!NumValid(k) = Cardinality(UpTo(k)) /\ Rows!Cardinality(Rows!Valid) = Cardinality(Rows!Valid)
  BY DEF Rows!NumValid, Rows!Cardinality, Cardinality
<1> HIDE DEF UpTo
<1>6. \A k \in Rows!Valid : Rows!NumValid(k) = Rows!NumValid(i) => k = i
  <2> SUFFICES ASSUME NEW k \in Rows!Valid, k # i PROVE Cardinality(UpTo(k)) # Cardinality(UpTo(i))
    BY <1>5
  <2>1. k < i \/ i < k
    BY <1>1
  <2> QED
    BY <1>4, <2>1
<1>7. Rows!ValidIndex(Rows!NumValid(i)) = i
  BY <1>6 DEF Rows!ValidIndex
<1> QED
  BY <1>3, <1>5, <1>7

(* prepare_hidden_states, propose and the rows left out of a draft, for    *)
(* any number of rows and any drafts: each draft goes on from the last     *)
(* token its own row had accepted, and goes back to that row.              *)
THEOREM EveryRowGetsItsDraft ==
  ASSUME Rows!DraftRowsAssumption
  PROVE  Rows!Spec => [](Rows!TypeOK /\ Rows!DraftsFollowTheirRow)
<1>1. RowsInv => Rows!TypeOK /\ Rows!DraftsFollowTheirRow
  <2> SUFFICES ASSUME RowsInv PROVE Rows!TypeOK /\ Rows!DraftsFollowTheirRow
    OBVIOUS
  <2>1. Rows!Indices = 1 .. Len(batch)
    BY RowsTypes
  <2>2. Rows!TypeOK
    BY <2>1, StatesAreFound, PreviousIsOwn DEF Rows!TypeOK
  <2>3. ASSUME NEW i \in Rows!Indices
        PROVE  Rows!FinalDrafts[i] = IF batch[i].last THEN <<i, <<i, batch[i].gen>>>> ELSE <<>>
    <3>1. CASE batch[i].last
      <4>1. i \in Rows!Valid
        BY <3>1 DEF Rows!Valid
      <4>2. Rows!NumValid(i) \in 1 .. Rows!Cardinality(Rows!Valid) /\ Rows!ValidIndex(Rows!NumValid(i)) = i
        BY <4>1, AnswersInOrder
      <4>3. Rows!Propose[Rows!NumValid(i)] = <<i, Rows!PreviousHiddenStates[i]>>
        BY <4>2 DEF Rows!Propose
      <4>4. Rows!PreviousHiddenStates[i] = <<i, batch[i].gen>>
        BY <2>1, PreviousIsOwn
      <4> QED
        BY <3>1, <4>3, <4>4 DEF Rows!FinalDrafts
    <3>2. CASE ~batch[i].last
      BY <3>2 DEF Rows!FinalDrafts
    <3> QED
      BY <3>1, <3>2
  <2> QED
    BY <2>2, <2>3 DEF Rows!DraftsFollowTheirRow
<1>2. Rows!Init => RowsInv
  BY DEF Rows!Init, RowsInv
<1>3. RowsInv /\ [Rows!Next]_batch => RowsInv'
  BY DEF RowsInv, Rows!Next, Rows!BatchRows
<1> QED
  BY <1>1, <1>2, <1>3, PTL DEF Rows!Spec

-----------------------------------------------------------------------------
(* Sums of lengths, and the places in what they add up to.                 *)

(* off adds up the n lengths.                                              *)
Steps(n, len, off) ==
  /\ off[0] = 0
  /\ \A i \in 1 .. n : off[i - 1] \in Nat /\ len[i] \in Nat /\ off[i] = off[i - 1] + len[i]

LEMMA StepsTypes ==
  ASSUME NEW n \in Nat, NEW len, NEW off, Steps(n, len, off)
  PROVE  \A i \in 0 .. n : off[i] \in Nat
<1> SUFFICES ASSUME NEW i \in 0 .. n PROVE off[i] \in Nat
  OBVIOUS
<1>1. CASE i = 0
  BY <1>1 DEF Steps
<1>2. CASE i # 0
  <2>1. i \in 1 .. n
    BY <1>2
  <2>2. off[i - 1] \in Nat /\ len[i] \in Nat /\ off[i] = off[i - 1] + len[i]
    BY <2>1 DEF Steps
  <2> QED
    BY <2>2
<1> QED
  BY <1>1, <1>2

LEMMA StepsGrow ==
  ASSUME NEW n \in Nat, NEW len, NEW off, Steps(n, len, off), NEW i \in 0 .. n
  PROVE  \A k \in i .. n : off[i] <= off[k]
<1> DEFINE Bad == {k \in i .. n : ~(off[i] <= off[k])}
<1> SUFFICES ASSUME Bad # {} PROVE FALSE
  OBVIOUS
<1>1. PICK k \in Bad : \A m \in Bad : k <= m
  <2> HIDE DEF Bad
  <2>1. Bad \subseteq Nat
    BY DEF Bad
  <2> QED
    BY <2>1, Least
<1>2. \A m \in 0 .. n : off[m] \in Nat
  BY StepsTypes
<1>3. k # i
  <2>1. off[i] \in Nat
    BY <1>2
  <2> QED
    BY <2>1
<1>4. k \in 1 .. n /\ k - 1 \in i .. n /\ k - 1 \in 0 .. n /\ k - 1 < k /\ k \in 0 .. n
  BY <1>3
<1>5. k - 1 \notin Bad
  <2> HIDE DEF Bad
  <2> QED
    BY <1>1, <1>4
<1>6. off[i] <= off[k - 1]
  BY <1>4, <1>5
<1>7. off[k - 1] \in Nat /\ len[k] \in Nat /\ off[k] = off[k - 1] + len[k] /\ off[i] \in Nat
  BY <1>2, <1>4 DEF Steps
<1>8. off[i] <= off[k]
  BY <1>6, <1>7
<1> QED
  BY <1>8

(* A place behind the first i - 1 and within the i-th.                     *)
LEMMA PlaceIn ==
  ASSUME NEW n \in Nat, NEW len, NEW off, Steps(n, len, off),
         NEW i \in 1 .. n, NEW k \in 1 .. len[i]
  PROVE  /\ off[i - 1] \in Nat /\ off[i] \in Nat /\ off[n] \in Nat /\ len[i] \in Nat
         /\ off[i] = off[i - 1] + len[i] /\ off[i] <= off[n]
         /\ off[i - 1] + k \in 1 .. off[n] /\ off[i - 1] + k <= off[i]
<1>1. off[i - 1] \in Nat /\ len[i] \in Nat /\ off[i] = off[i - 1] + len[i]
  BY DEF Steps
<1>2. i \in 0 .. n /\ n \in i .. n
  OBVIOUS
<1>3. off[i] <= off[n] /\ off[n] \in Nat /\ off[i] \in Nat
  BY <1>2, StepsTypes, StepsGrow
<1> QED
  BY <1>1, <1>3

LEMMA Located ==
  ASSUME NEW n \in Nat, NEW len, NEW off, Steps(n, len, off), NEW q \in 1 .. off[n]
  PROVE  \E i \in 1 .. n : \E k \in 1 .. len[i] : q = off[i - 1] + k
<1> DEFINE Above == {i \in 0 .. n : q <= off[i]}
<1>0. \A i \in 0 .. n : off[i] \in Nat
  BY StepsTypes
<1>1. off[n] \in Nat /\ n \in 0 .. n /\ q \in Nat /\ q >= 1 /\ q <= off[n]
  BY <1>0
<1>2. PICK i \in Above : \A m \in Above : i <= m
  <2>1. n \in Above
    BY <1>1
  <2> HIDE DEF Above
  <2>2. Above \subseteq Nat
    BY DEF Above
  <2> QED
    BY <2>1, <2>2, Least
<1>3. i # 0
  <2>1. off[0] = 0
    BY DEF Steps
  <2> QED
    BY <1>1, <2>1
<1>4. i \in 1 .. n /\ i - 1 \in 0 .. n /\ i - 1 < i
  BY <1>3
<1>5. i - 1 \notin Above
  <2> HIDE DEF Above
  <2> QED
    BY <1>2, <1>4
<1>6. off[i - 1] < q /\ q <= off[i]
  BY <1>0, <1>1, <1>4, <1>5
<1>7. off[i - 1] \in Nat /\ len[i] \in Nat /\ off[i] = off[i - 1] + len[i]
  BY <1>4 DEF Steps
<1>8. q - off[i - 1] \in 1 .. len[i] /\ q = off[i - 1] + (q - off[i - 1])
  BY <1>1, <1>6, <1>7
<1> QED
  BY <1>4, <1>8

LEMMA LocatedOnce ==
  ASSUME NEW n \in Nat, NEW len, NEW off, Steps(n, len, off),
         NEW i \in 1 .. n, NEW k \in 1 .. len[i], NEW j \in 1 .. n, NEW m \in 1 .. len[j],
         off[i - 1] + k = off[j - 1] + m
  PROVE  i = j /\ k = m
<1>1. \A x \in 1 .. n : \A y \in 1 .. n : x < y => off[x] <= off[y - 1]
  <2> SUFFICES ASSUME NEW x \in 1 .. n, NEW y \in 1 .. n, x < y PROVE off[x] <= off[y - 1]
    OBVIOUS
  <2>1. x \in 0 .. n /\ y - 1 \in x .. n
    OBVIOUS
  <2> QED
    BY <2>1, StepsGrow
<1>2. off[i - 1] \in Nat /\ off[j - 1] \in Nat /\ off[i - 1] + k <= off[i] /\ off[j - 1] + m <= off[j]
      /\ off[i] \in Nat /\ off[j] \in Nat /\ k \in Nat \ {0} /\ m \in Nat \ {0}
  <2>1. off[i - 1] \in Nat /\ off[i - 1] + k <= off[i] /\ off[i] \in Nat /\ len[i] \in Nat
    BY PlaceIn
  <2>2. off[j - 1] \in Nat /\ off[j - 1] + m <= off[j] /\ off[j] \in Nat /\ len[j] \in Nat
    BY PlaceIn
  <2> QED
    BY <2>1, <2>2
<1>3. ~(i < j)
  BY <1>1, <1>2
<1>4. ~(j < i)
  BY <1>1, <1>2
<1>5. i = j
  BY <1>3, <1>4
<1> QED
  BY <1>2, <1>5

(* The model's sums add up the lengths.                                    *)
LEMMA CumulatedSteps ==
  ASSUME NEW s, Len(s) \in Nat, \A i \in 1 .. Len(s) : s[i] \in Nat
  PROVE  Steps(Len(s), s, Pass!Cumulated(s)) /\ DOMAIN Pass!Cumulated(s) = 0 .. Len(s)
<1> DEFINE n == Len(s)
           c == CHOOSE f : f = [k \in 0 .. n |-> IF k = 0 THEN 0 ELSE f[k - 1] + s[k]]
<1>1. PICK f : Sums(n, s, f)
  BY SumsUpTo
<1>2. \E h : h = [k \in 0 .. n |-> IF k = 0 THEN 0 ELSE h[k - 1] + s[k]]
  <2>1. f = [k \in 0 .. n |-> Summed(f, s, k)]
    BY <1>1 DEF Sums
  <2>2. \A k \in 0 .. n : Summed(f, s, k) = IF k = 0 THEN 0 ELSE f[k - 1] + s[k]
    BY DEF Summed
  <2> HIDE DEF n
  <2>3. f = [k \in 0 .. n |-> IF k = 0 THEN 0 ELSE f[k - 1] + s[k]]
    BY <2>1, <2>2
  <2> QED
    BY <2>3
<1>3. c = [k \in 0 .. n |-> IF k = 0 THEN 0 ELSE c[k - 1] + s[k]]
  <2> HIDE DEF n
  <2> QED
    BY <1>2, Zenon
<1>4. Pass!Cumulated(s) = c
  BY Zenon DEF Pass!Cumulated
<1>5. n \in Nat /\ \A i \in 1 .. n : s[i] \in Nat
  OBVIOUS
<1> HIDE DEF c, n
<1>6. DOMAIN c = 0 .. n
  BY <1>3, Zenon
<1>7. \A k \in 0 .. n : c[k] = IF k = 0 THEN 0 ELSE c[k - 1] + s[k]
  BY <1>3, Zenon
<1>8. c[0] = 0 /\ \A i \in 1 .. n : c[i] = c[i - 1] + s[i]
  BY <1>5, <1>7
<1> DEFINE Bad == {i \in 0 .. n : ~(c[i] \in Nat)}
<1>9. Bad = {}
  <2> SUFFICES ASSUME Bad # {} PROVE FALSE
    OBVIOUS
  <2>1. PICK i \in Bad : \A k \in Bad : i <= k
    <3> HIDE DEF Bad
    <3>1. Bad \subseteq Nat
      BY <1>5 DEF Bad
    <3> QED
      BY <3>1, Least
  <2>2. i # 0
    BY <1>8
  <2>3. i \in 1 .. n /\ i - 1 \in 0 .. n /\ i - 1 < i
    BY <1>5, <2>2
  <2>4. i - 1 \notin Bad
    <3> HIDE DEF Bad
    <3> QED
      BY <1>5, <2>1, <2>3
  <2>5. c[i - 1] \in Nat
    BY <2>3, <2>4
  <2>6. c[i] \in Nat
    <3>1. c[i] = c[i - 1] + s[i]
      BY <1>8, <2>3
    <3>2. s[i] \in Nat
      BY <1>5, <2>3
    <3> QED
      BY <2>5, <3>1, <3>2
  <2> QED
    BY <2>6
<1>10. \A i \in 1 .. n : c[i - 1] \in Nat
  <2>1. \A i \in 1 .. n : i - 1 \in 0 .. n
    BY <1>5
  <2> QED
    BY <1>9, <2>1
<1>11. Steps(n, s, c)
  BY <1>5, <1>8, <1>10 DEF Steps
<1> QED
  BY <1>4, <1>6, <1>11 DEF n

(* flat holds the sequences of s, each behind the lengths before it.       *)
Lays(flat, S, n, len, off, s) ==
  /\ flat \in Seq(S) /\ Len(flat) = off[n] /\ DOMAIN flat = 1 .. off[n]
  /\ \A i \in 1 .. n : \A j \in 1 .. len[i] : flat[off[i - 1] + j] = s[i][j]

(* FlattenSeq lays sequences behind each other.                            *)
LEMMA FlattenLays ==
  ASSUME NEW n \in Nat \ {0}, NEW S, NEW len, NEW off, Steps(n, len, off),
         NEW s \in [1 .. n -> Seq(S)], \A i \in 1 .. n : Len(s[i]) = len[i]
  PROVE  Lays(Pass!FlattenSeq(s), S, n, len, off, s)
<1>1. Len(s) = n
  <2>1. s \in Seq(Seq(S)) /\ DOMAIN s = 1 .. n
    OBVIOUS
  <2> QED
    BY <2>1, LenProperties
<1>2. Offsets(Len(s), S, s, off)
  BY <1>1 DEF Steps, Offsets
<1>3. Len(s) \in Nat \ {0} /\ off[0] = 0
  BY <1>1 DEF Steps
<1>4. Pass!FlattenSeq(s) = Rows!FlattenSeq(s)
  BY Zenon DEF Pass!FlattenSeq, Rows!FlattenSeq
<1>5. Rows!FlattenSeq(s) \in Seq(S) /\ LaidOut(Rows!FlattenSeq(s), s, off)
  BY <1>2, <1>3, FlattenPlaces
<1>6. Len(Rows!FlattenSeq(s)) = off[n]
  BY <1>1, <1>5 DEF LaidOut
<1>7. DOMAIN Rows!FlattenSeq(s) = 1 .. off[n]
  BY <1>5, <1>6, LenProperties
<1>8. \A i \in 1 .. n : \A j \in 1 .. len[i] : Rows!FlattenSeq(s)[off[i - 1] + j] = s[i][j]
  BY <1>1, <1>5 DEF LaidOut
<1> QED
  BY <1>4, <1>5, <1>6, <1>7, <1>8 DEF Lays

-----------------------------------------------------------------------------
(* SwiftKVForward: the batch as it was scheduled.                          *)

OfBatch ==
  /\ backend \in Backends
  /\ tokens \in UNION {[1 .. n -> Pass!BatchReqs] : n \in 1 .. MaxReqs}

Lengths == [i \in Pass!Reqs |-> tokens[i].n]
Logits == [i \in Pass!Reqs |-> tokens[i].logits]
PageCounts == [i \in Pass!Reqs |-> tokens[i].pages]
LogitsLoc == Pass!Cumulated(Logits)
PageLoc == Pass!Cumulated(PageCounts)
Pages == Pass!FlattenSeq([i \in Pass!Reqs |-> [p \in 1 .. tokens[i].pages |-> <<i, p>>]])

LEMMA BatchTypes ==
  ASSUME Pass!SwiftKVAssumption, OfBatch
  PROVE  /\ Len(tokens) \in Nat \ {0} /\ Len(tokens) <= MaxReqs /\ Pass!Reqs = 1 .. Len(tokens)
         /\ \A i \in 1 .. Len(tokens) :
               /\ tokens[i] \in Pass!BatchReqs
               /\ tokens[i].n \in 1 .. MaxTokens /\ tokens[i].n \in Nat
               /\ tokens[i].logits \in Nat \ {0} /\ tokens[i].logits <= tokens[i].n
               /\ tokens[i].pages \in Nat \ {0}
<1>1. PICK n \in 1 .. MaxReqs : tokens \in [1 .. n -> Pass!BatchReqs]
  BY DEF OfBatch
<1>2. MaxReqs \in Nat /\ MaxTokens \in Nat /\ MaxPages \in Nat
  BY DEF Pass!SwiftKVAssumption
<1>3. n \in Nat \ {0} /\ n <= MaxReqs /\ tokens \in Seq(Pass!BatchReqs) /\ DOMAIN tokens = 1 .. n
  BY <1>1, <1>2
<1>4. Len(tokens) = n
  BY <1>1, <1>3, LenProperties
<1>5. \A i \in 1 .. n : tokens[i] \in Pass!BatchReqs
  BY <1>1
<1>6. \A r \in Pass!BatchReqs : /\ r.n \in 1 .. MaxTokens /\ r.n \in Nat
                                /\ r.logits \in Nat \ {0} /\ r.logits <= r.n /\ r.pages \in Nat \ {0}
  BY <1>2 DEF Pass!BatchReqs
<1> QED
  BY <1>3, <1>4, <1>5, <1>6 DEF Pass!Reqs

LEMMA LenOfColumn ==
  ASSUME NEW n \in Nat, NEW S, NEW s \in [1 .. n -> S]
  PROVE  Len(s) = n /\ s \in Seq(S) /\ DOMAIN s = 1 .. n
<1>1. s \in Seq(S) /\ DOMAIN s = 1 .. n
  OBVIOUS
<1> QED
  BY <1>1, LenProperties

LEMMA BatchSteps ==
  ASSUME Pass!SwiftKVAssumption, OfBatch
  PROVE  /\ Steps(Len(tokens), Lengths, Pass!QueryStartLoc) /\ DOMAIN Pass!QueryStartLoc = 0 .. Len(tokens)
         /\ Steps(Len(tokens), Logits, LogitsLoc)
         /\ Steps(Len(tokens), PageCounts, PageLoc) /\ DOMAIN PageLoc = 0 .. Len(tokens)
<1> DEFINE n == Len(tokens)
<1>1. n \in Nat /\ Pass!Reqs = 1 .. n
  BY BatchTypes
<1>2. Lengths \in [1 .. n -> Nat] /\ Logits \in [1 .. n -> Nat] /\ PageCounts \in [1 .. n -> Nat]
  BY <1>1, BatchTypes DEF Lengths, Logits, PageCounts
<1> HIDE DEF n
<1>3. Len(Lengths) = n /\ Len(Logits) = n /\ Len(PageCounts) = n
  BY <1>1, <1>2, LenOfColumn
<1>4. /\ \A i \in 1 .. n : Lengths[i] \in Nat
      /\ \A i \in 1 .. n : Logits[i] \in Nat
      /\ \A i \in 1 .. n : PageCounts[i] \in Nat
  BY <1>2
<1>5. Steps(n, Lengths, Pass!Cumulated(Lengths)) /\ DOMAIN Pass!Cumulated(Lengths) = 0 .. n
  BY <1>1, <1>3, <1>4, CumulatedSteps
<1>6. Steps(n, Logits, Pass!Cumulated(Logits))
  BY <1>1, <1>3, <1>4, CumulatedSteps
<1>7. Steps(n, PageCounts, Pass!Cumulated(PageCounts)) /\ DOMAIN Pass!Cumulated(PageCounts) = 0 .. n
  BY <1>1, <1>3, <1>4, CumulatedSteps
<1>8. Pass!QueryStartLoc = Pass!Cumulated(Lengths)
  BY DEF Pass!QueryStartLoc, Lengths
<1> QED
  BY <1>5, <1>6, <1>7, <1>8 DEF LogitsLoc, PageLoc, n

LEMMA TokensLaid ==
  ASSUME Pass!SwiftKVAssumption, OfBatch
  PROVE  /\ DOMAIN Pass!Tokens = 1 .. Pass!QueryStartLoc[Len(tokens)]
         /\ Pass!QueryStartLoc[Len(tokens)] \in Nat
         /\ \A i \in 1 .. Len(tokens) : \A j \in 1 .. tokens[i].n :
               Pass!Tokens[Pass!QueryStartLoc[i - 1] + j] = <<i, j>>
<1> DEFINE n == Len(tokens)
           S == Nat \X Nat
           s == [i \in Pass!Reqs |-> [j \in 1 .. tokens[i].n |-> <<i, j>>]]
<1>1. n \in Nat \ {0} /\ Pass!Reqs = 1 .. n /\ \A i \in 1 .. n : tokens[i].n \in Nat
  BY BatchTypes
<1>2. ASSUME NEW i \in 1 .. n
      PROVE  /\ s[i] \in Seq(S) /\ Len(s[i]) = tokens[i].n
             /\ \A j \in 1 .. tokens[i].n : s[i][j] = <<i, j>>
  <2> DEFINE m == tokens[i].n
  <2>1. s[i] = [j \in 1 .. m |-> <<i, j>>] /\ m \in Nat
    BY <1>1
  <2>2. [j \in 1 .. m |-> <<i, j>>] \in [1 .. m -> S]
    BY <1>1, <2>1
  <2> HIDE DEF m, s, S
  <2>3. s[i] \in Seq(S) /\ Len(s[i]) = m
    BY <2>1, <2>2, LenOfColumn
  <2>4. \A j \in 1 .. m : s[i][j] = <<i, j>>
    BY <2>1
  <2> QED
    BY <2>3, <2>4 DEF m
<1>3. s \in [1 .. n -> Seq(S)]
  <2>1. s = [i \in 1 .. n |-> s[i]]
    BY <1>1
  <2> HIDE DEF s, S
  <2> QED
    BY <1>2, <2>1
<1>4. \A i \in 1 .. n : Lengths[i] = tokens[i].n
  BY <1>1 DEF Lengths
<1>5. Pass!Tokens = Pass!FlattenSeq(s)
  BY DEF Pass!Tokens
<1>6. Steps(n, Lengths, Pass!QueryStartLoc)
  BY BatchSteps
<1> HIDE DEF s, S, n
<1>7. \A i \in 1 .. n : Len(s[i]) = Lengths[i]
  BY <1>2, <1>4
<1>8. /\ DOMAIN Pass!FlattenSeq(s) = 1 .. Pass!QueryStartLoc[n]
      /\ \A i \in 1 .. n : \A j \in 1 .. Lengths[i] : Pass!FlattenSeq(s)[Pass!QueryStartLoc[i - 1] + j] = s[i][j]
  <2>1. Lays(Pass!FlattenSeq(s), S, n, Lengths, Pass!QueryStartLoc, s)
    BY <1>1, <1>3, <1>6, <1>7, FlattenLays
  <2> QED
    BY <2>1 DEF Lays
<1>9. \A i \in 1 .. n : \A j \in 1 .. tokens[i].n : Pass!FlattenSeq(s)[Pass!QueryStartLoc[i - 1] + j] = <<i, j>>
  BY <1>2, <1>4, <1>8
<1>10. Pass!QueryStartLoc[n] \in Nat
  <2>1. n \in 0 .. n
    BY <1>1
  <2> QED
    BY <1>1, <1>6, <2>1, StepsTypes
<1> QED
  BY <1>5, <1>8, <1>9, <1>10 DEF n

LEMMA PagesLaid ==
  ASSUME Pass!SwiftKVAssumption, OfBatch
  PROVE  /\ Pages \in Seq(Nat \X Nat) /\ Len(Pages) = PageLoc[Len(tokens)]
         /\ \A i \in 1 .. Len(tokens) : \A p \in 1 .. tokens[i].pages :
               Pages[PageLoc[i - 1] + p] = <<i, p>>
<1> DEFINE n == Len(tokens)
           S == Nat \X Nat
           s == [i \in Pass!Reqs |-> [p \in 1 .. tokens[i].pages |-> <<i, p>>]]
<1>1. n \in Nat \ {0} /\ Pass!Reqs = 1 .. n /\ \A i \in 1 .. n : tokens[i].pages \in Nat
  BY BatchTypes
<1>2. ASSUME NEW i \in 1 .. n
      PROVE  /\ s[i] \in Seq(S) /\ Len(s[i]) = tokens[i].pages
             /\ \A p \in 1 .. tokens[i].pages : s[i][p] = <<i, p>>
  <2> DEFINE m == tokens[i].pages
  <2>1. s[i] = [p \in 1 .. m |-> <<i, p>>] /\ m \in Nat
    BY <1>1
  <2>2. [p \in 1 .. m |-> <<i, p>>] \in [1 .. m -> S]
    BY <1>1, <2>1
  <2> HIDE DEF m, s, S
  <2>3. s[i] \in Seq(S) /\ Len(s[i]) = m
    BY <2>1, <2>2, LenOfColumn
  <2>4. \A p \in 1 .. m : s[i][p] = <<i, p>>
    BY <2>1
  <2> QED
    BY <2>3, <2>4 DEF m
<1>3. s \in [1 .. n -> Seq(S)]
  <2>1. s = [i \in 1 .. n |-> s[i]]
    BY <1>1
  <2> HIDE DEF s, S
  <2> QED
    BY <1>2, <2>1
<1>4. \A i \in 1 .. n : PageCounts[i] = tokens[i].pages
  BY <1>1 DEF PageCounts
<1>5. Pages = Pass!FlattenSeq(s)
  BY DEF Pages
<1>6. Steps(n, PageCounts, PageLoc)
  BY BatchSteps
<1> HIDE DEF s, n
<1>7. \A i \in 1 .. n : Len(s[i]) = PageCounts[i]
  BY <1>2, <1>4
<1> HIDE DEF S
<1>8. /\ Pass!FlattenSeq(s) \in Seq(S) /\ Len(Pass!FlattenSeq(s)) = PageLoc[n]
      /\ \A i \in 1 .. n : \A p \in 1 .. PageCounts[i] : Pass!FlattenSeq(s)[PageLoc[i - 1] + p] = s[i][p]
  <2>1. Lays(Pass!FlattenSeq(s), S, n, PageCounts, PageLoc, s)
    BY <1>1, <1>3, <1>6, <1>7, FlattenLays
  <2> QED
    BY <2>1 DEF Lays
<1>9. \A i \in 1 .. n : \A p \in 1 .. tokens[i].pages : Pass!FlattenSeq(s)[PageLoc[i - 1] + p] = <<i, p>>
  BY <1>2, <1>4, <1>8
<1> QED
  BY <1>5, <1>8, <1>9 DEF n, S

LEMMA LogitsLaid ==
  ASSUME Pass!SwiftKVAssumption, OfBatch
  PROVE  /\ DOMAIN Pass!LogitsIndices = 1 .. LogitsLoc[Len(tokens)] /\ Pass!NumSurviving = LogitsLoc[Len(tokens)]
         /\ LogitsLoc[Len(tokens)] \in Nat
         /\ \A i \in 1 .. Len(tokens) : \A k \in 1 .. tokens[i].logits :
               Pass!LogitsIndices[LogitsLoc[i - 1] + k] = Pass!QueryStartLoc[i] - tokens[i].logits + k - 1
<1> DEFINE n == Len(tokens)
           S == Int
           s == [i \in Pass!Reqs |-> [k \in 1 .. tokens[i].logits |-> Pass!QueryStartLoc[i] - tokens[i].logits + k - 1]]
<1>1. n \in Nat \ {0} /\ Pass!Reqs = 1 .. n /\ \A i \in 1 .. n : tokens[i].logits \in Nat
  BY BatchTypes
<1>0. \A i \in 1 .. n : Pass!QueryStartLoc[i] \in Nat
  <2>1. \A i \in 1 .. n : i \in 0 .. n
    BY <1>1
  <2>2. Steps(n, Lengths, Pass!QueryStartLoc)
    BY BatchSteps
  <2> HIDE DEF n
  <2> QED
    BY <1>1, <2>1, <2>2, StepsTypes
<1>2. ASSUME NEW i \in 1 .. n
      PROVE  /\ s[i] \in Seq(S) /\ Len(s[i]) = tokens[i].logits
             /\ \A k \in 1 .. tokens[i].logits : s[i][k] = Pass!QueryStartLoc[i] - tokens[i].logits + k - 1
  <2> DEFINE m == tokens[i].logits
             q == Pass!QueryStartLoc[i]
  <2>1. s[i] = [k \in 1 .. m |-> q - m + k - 1] /\ m \in Nat /\ q \in Nat
    BY <1>0, <1>1
  <2> HIDE DEF m, s, q
  <2>2. [k \in 1 .. m |-> q - m + k - 1] \in [1 .. m -> S]
    BY <2>1
  <2> HIDE DEF S
  <2>3. s[i] \in Seq(S) /\ Len(s[i]) = m
    BY <2>1, <2>2, LenOfColumn
  <2>4. \A k \in 1 .. m : s[i][k] = q - m + k - 1
    BY <2>1
  <2> QED
    BY <2>3, <2>4 DEF m, q
<1>3. s \in [1 .. n -> Seq(S)]
  <2>1. s = [i \in 1 .. n |-> s[i]]
    BY <1>1
  <2> HIDE DEF s, S
  <2> QED
    BY <1>2, <2>1
<1>4. \A i \in 1 .. n : Logits[i] = tokens[i].logits
  BY <1>1 DEF Logits
<1>5. Pass!LogitsIndices = Pass!FlattenSeq(s) /\ Pass!NumSurviving = Len(Pass!FlattenSeq(s))
  BY DEF Pass!LogitsIndices, Pass!NumSurviving
<1>6. Steps(n, Logits, LogitsLoc)
  BY BatchSteps
<1> HIDE DEF s, S, n
<1>7. \A i \in 1 .. n : Len(s[i]) = Logits[i]
  BY <1>2, <1>4
<1>8. /\ DOMAIN Pass!FlattenSeq(s) = 1 .. LogitsLoc[n] /\ Len(Pass!FlattenSeq(s)) = LogitsLoc[n]
      /\ \A i \in 1 .. n : \A k \in 1 .. Logits[i] : Pass!FlattenSeq(s)[LogitsLoc[i - 1] + k] = s[i][k]
  <2>1. Lays(Pass!FlattenSeq(s), S, n, Logits, LogitsLoc, s)
    BY <1>1, <1>3, <1>6, <1>7, FlattenLays
  <2> QED
    BY <2>1 DEF Lays
<1>9. \A i \in 1 .. n : \A k \in 1 .. tokens[i].logits :
         Pass!FlattenSeq(s)[LogitsLoc[i - 1] + k] = Pass!QueryStartLoc[i] - tokens[i].logits + k - 1
  BY <1>2, <1>4, <1>8
<1>10. LogitsLoc[n] \in Nat
  <2>1. n \in 0 .. n
    BY <1>1
  <2> QED
    BY <1>1, <1>6, <2>1, StepsTypes
<1> QED
  BY <1>5, <1>8, <1>9, <1>10 DEF n

(* The k-th of the logits of request i is of its token that is as far from *)
(* its last.                                                               *)
LEMMA TokenOfLogits ==
  ASSUME Pass!SwiftKVAssumption, OfBatch, NEW i \in 1 .. Len(tokens), NEW k \in 1 .. tokens[i].logits
  PROVE  /\ LogitsLoc[i - 1] + k \in 1 .. LogitsLoc[Len(tokens)]
         /\ Pass!LogitsIndices[LogitsLoc[i - 1] + k] \in Nat
         /\ Pass!LogitsIndices[LogitsLoc[i - 1] + k] + 1 \in DOMAIN Pass!Tokens
         /\ Pass!QueryStartLoc[i - 1] <= Pass!LogitsIndices[LogitsLoc[i - 1] + k]
         /\ Pass!LogitsIndices[LogitsLoc[i - 1] + k] < Pass!QueryStartLoc[i]
         /\ Pass!Tokens[Pass!LogitsIndices[LogitsLoc[i - 1] + k] + 1] = <<i, tokens[i].n - tokens[i].logits + k>>
<1> DEFINE n == Len(tokens)
           m == tokens[i].n
           l == tokens[i].logits
           j == m - l + k
           before == Pass!QueryStartLoc[i - 1]
           after == Pass!QueryStartLoc[i]
           all == Pass!QueryStartLoc[n]
           at == Pass!LogitsIndices[LogitsLoc[i - 1] + k]
<1>1. n \in Nat /\ Pass!Reqs = 1 .. n /\ m \in Nat /\ l \in Nat \ {0} /\ l <= m
  BY BatchTypes
<1>2. Lengths[i] = m /\ Logits[i] = l
  BY <1>1 DEF Lengths, Logits
<1>3. Steps(n, Lengths, Pass!QueryStartLoc) /\ Steps(n, Logits, LogitsLoc)
  BY BatchSteps
<1>4. at = after - l + k - 1
  BY LogitsLaid
<1>5. DOMAIN Pass!Tokens = 1 .. all /\ \A x \in 1 .. m : Pass!Tokens[before + x] = <<i, x>>
  BY TokensLaid
<1>6. i \in 1 .. n /\ k \in 1 .. l
  OBVIOUS
<1>7. LogitsLoc[i - 1] + k \in 1 .. LogitsLoc[n]
  <2>1. k \in 1 .. Logits[i]
    BY <1>2, <1>6
  <2> HIDE DEF n, l
  <2> QED
    BY <1>1, <1>3, <1>6, <2>1, PlaceIn
<1>8. j \in 1 .. m
  <2> HIDE DEF m, l
  <2> QED
    BY <1>1, <1>6
<1>9. before \in Nat /\ after \in Nat /\ all \in Nat /\ after = before + m /\ before + j \in 1 .. all
  <2>1. j \in 1 .. Lengths[i]
    BY <1>2, <1>8
  <2> HIDE DEF n, m, l, j
  <2>2. /\ before \in Nat /\ after \in Nat /\ all \in Nat /\ after = before + Lengths[i]
        /\ before + j \in 1 .. all
    BY <1>1, <1>3, <1>6, <2>1, PlaceIn
  <2> QED
    BY <1>2, <2>2
<1>10. at + 1 = before + j /\ at \in Nat /\ before <= at /\ at < after
  <2> HIDE DEF before, after, all, m, l, at
  <2> QED
    BY <1>1, <1>4, <1>6, <1>9
<1>11. Pass!Tokens[at + 1] = <<i, j>>
  <2> HIDE DEF before, j, m, at
  <2> QED
    BY <1>5, <1>8, <1>10
<1> HIDE DEF at, before, after, all
<1>12. at + 1 \in DOMAIN Pass!Tokens
  BY <1>5, <1>9, <1>10
<1> QED
  BY <1>7, <1>10, <1>11, <1>12 DEF n, m, l, j, at, before, after, all

(* Every place of the logits indices is one of these.                      *)
LEMMA LogitsAreOfRequests ==
  ASSUME Pass!SwiftKVAssumption, OfBatch, NEW q \in 1 .. LogitsLoc[Len(tokens)]
  PROVE  \E i \in 1 .. Len(tokens) : \E k \in 1 .. tokens[i].logits : q = LogitsLoc[i - 1] + k
<1>1. Len(tokens) \in Nat /\ Pass!Reqs = 1 .. Len(tokens)
  BY BatchTypes
<1>2. Steps(Len(tokens), Logits, LogitsLoc)
  BY BatchSteps
<1>3. \E i \in 1 .. Len(tokens) : \E k \in 1 .. Logits[i] : q = LogitsLoc[i - 1] + k
  BY <1>1, <1>2, Located
<1>4. \A i \in 1 .. Len(tokens) : Logits[i] = tokens[i].logits
  BY <1>1 DEF Logits
<1> QED
  BY <1>3, <1>4

(* No token has its logits computed twice.                                 *)
LEMMA LogitsDiffer ==
  ASSUME Pass!SwiftKVAssumption, OfBatch,
         NEW q \in 1 .. LogitsLoc[Len(tokens)], NEW p \in 1 .. LogitsLoc[Len(tokens)],
         Pass!LogitsIndices[q] = Pass!LogitsIndices[p]
  PROVE  q = p
<1>1a. PICK i \in 1 .. Len(tokens) : \E k \in 1 .. tokens[i].logits : q = LogitsLoc[i - 1] + k
  BY LogitsAreOfRequests
<1>1. PICK k \in 1 .. tokens[i].logits : q = LogitsLoc[i - 1] + k
  BY <1>1a
<1>2a. PICK j \in 1 .. Len(tokens) : \E m \in 1 .. tokens[j].logits : p = LogitsLoc[j - 1] + m
  BY LogitsAreOfRequests
<1>2. PICK m \in 1 .. tokens[j].logits : p = LogitsLoc[j - 1] + m
  BY <1>2a
<1>3. Pass!Tokens[Pass!LogitsIndices[q] + 1] = <<i, tokens[i].n - tokens[i].logits + k>>
  BY <1>1, TokenOfLogits
<1>4. Pass!Tokens[Pass!LogitsIndices[p] + 1] = <<j, tokens[j].n - tokens[j].logits + m>>
  BY <1>2, TokenOfLogits
<1>5. i = j /\ tokens[i].n - tokens[i].logits + k = tokens[j].n - tokens[j].logits + m
  BY <1>3, <1>4
<1>6. tokens[i].n \in Nat /\ tokens[i].logits \in Nat
  BY BatchTypes
<1>7. k = m
  <2> DEFINE a == tokens[i].n
             b == tokens[i].logits
  <2>1. a \in Nat /\ b \in Nat /\ k \in 1 .. b /\ m \in 1 .. b /\ a - b + k = a - b + m
    BY <1>5, <1>6
  <2> HIDE DEF a, b
  <2> QED
    BY <2>1
<1> QED
  BY <1>1, <1>2, <1>5, <1>7

(* Before the first token of a request are the logits of those before it.  *)
LEMMA SearchSortedIs ==
  ASSUME Pass!SwiftKVAssumption, OfBatch, meta.logits = Pass!LogitsIndices, NEW i \in 0 .. Len(tokens)
  PROVE  Pass!SearchSorted(Pass!QueryStartLoc[i]) = LogitsLoc[i]
<1> DEFINE n == Len(tokens)
           at == Pass!QueryStartLoc[i]
           Below == {q \in DOMAIN meta.logits : meta.logits[q] < at}
<1>1. n \in Nat /\ Pass!Reqs = 1 .. n /\ \A j \in 1 .. n : tokens[j].logits \in Nat /\ Logits[j] = tokens[j].logits
  BY BatchTypes DEF Logits
<1>2. DOMAIN meta.logits = 1 .. LogitsLoc[n] /\ LogitsLoc[n] \in Nat
  BY LogitsLaid
<1>3. Steps(n, Logits, LogitsLoc) /\ Steps(n, Lengths, Pass!QueryStartLoc)
  BY BatchSteps
<1>4. \A j \in 0 .. n : LogitsLoc[j] \in Nat /\ Pass!QueryStartLoc[j] \in Nat
  <2> HIDE DEF n
  <2> QED
    BY <1>1, <1>3, StepsTypes
<1>5. \A j \in 0 .. n : \A x \in j .. n : LogitsLoc[j] <= LogitsLoc[x] /\ Pass!QueryStartLoc[j] <= Pass!QueryStartLoc[x]
  <2> HIDE DEF n
  <2> QED
    BY <1>1, <1>3, StepsGrow
<1>6. ASSUME NEW q \in 1 .. LogitsLoc[n] PROVE meta.logits[q] < at <=> q <= LogitsLoc[i]
  <2>1a. PICK j \in 1 .. n : \E k \in 1 .. tokens[j].logits : q = LogitsLoc[j - 1] + k
    BY LogitsAreOfRequests
  <2>1. PICK k \in 1 .. tokens[j].logits : q = LogitsLoc[j - 1] + k
    BY <2>1a
  <2> DEFINE x == Pass!LogitsIndices[q]
  <2>2. x \in Nat /\ Pass!QueryStartLoc[j - 1] <= x /\ x < Pass!QueryStartLoc[j]
    BY <2>1, TokenOfLogits
  <2>3. q <= LogitsLoc[j] /\ LogitsLoc[j - 1] < q
    <3>1. k \in 1 .. Logits[j]
      BY <1>1
    <3>2. LogitsLoc[j - 1] + k <= LogitsLoc[j] /\ LogitsLoc[j - 1] \in Nat /\ Logits[j] \in Nat
      <4> HIDE DEF n
      <4> QED
        BY <1>1, <1>3, <3>1, PlaceIn
    <3> QED
      BY <2>1, <3>1, <3>2
  <2>4. CASE j <= i
    <3>1. j \in 0 .. n /\ i \in j .. n
      BY <1>1, <2>4
    <3>2. LogitsLoc[j] <= LogitsLoc[i] /\ Pass!QueryStartLoc[j] <= at
      BY <1>5, <3>1
    <3>3. LogitsLoc[j] \in Nat /\ LogitsLoc[i] \in Nat /\ Pass!QueryStartLoc[j] \in Nat /\ at \in Nat /\ q \in Nat
      BY <1>2, <1>4, <3>1
    <3> HIDE DEF at, x
    <3>4. x < at /\ q <= LogitsLoc[i]
      BY <2>2, <2>3, <3>2, <3>3
    <3> QED
      BY <3>4 DEF x
  <2>5. CASE ~(j <= i)
    <3>1. i \in 0 .. n /\ j - 1 \in i .. n /\ j - 1 \in 0 .. n
      BY <1>1, <2>5
    <3>2. LogitsLoc[i] <= LogitsLoc[j - 1] /\ at <= Pass!QueryStartLoc[j - 1]
      BY <1>5, <3>1
    <3>3. LogitsLoc[j - 1] \in Nat /\ LogitsLoc[i] \in Nat /\ Pass!QueryStartLoc[j - 1] \in Nat /\ at \in Nat /\ q \in Nat
      BY <1>2, <1>4, <3>1
    <3> HIDE DEF at, x
    <3>4. ~(x < at) /\ ~(q <= LogitsLoc[i])
      BY <2>2, <2>3, <3>2, <3>3
    <3> QED
      BY <3>4 DEF x
  <2> QED
    BY <2>4, <2>5
<1>7. LogitsLoc[i] \in Nat /\ LogitsLoc[i] <= LogitsLoc[n]
  <2>1. n \in i .. n
    BY <1>1
  <2> QED
    BY <1>4, <1>5, <2>1
<1>8. Below = 1 .. LogitsLoc[i]
  <2> HIDE DEF at
  <2>1. \A q : q \in Below <=> q \in 1 .. LogitsLoc[n] /\ q <= LogitsLoc[i]
    BY <1>2, <1>6
  <2> HIDE DEF Below
  <2>2. \A q : q \in 1 .. LogitsLoc[n] /\ q <= LogitsLoc[i] <=> q \in 1 .. LogitsLoc[i]
    BY <1>2, <1>7
  <2> QED
    BY <2>1, <2>2
<1>9. Cardinality(1 .. LogitsLoc[i]) = LogitsLoc[i]
  <2> DEFINE c == LogitsLoc[i]
  <2>1. c \in Nat
    BY <1>7
  <2> HIDE DEF c
  <2>2. Cardinality(1 .. c) = IF 1 > c THEN 0 ELSE c - 1 + 1
    BY <2>1, FS_Interval
  <2>3. Cardinality(1 .. c) = c
    BY <2>1, <2>2
  <2> QED
    BY <2>3 DEF c
<1>10. Pass!SearchSorted(at) = Pass!Cardinality(Below)
  BY DEF Pass!SearchSorted
<1>11. Pass!Cardinality(Below) = Cardinality(Below)
  <2> HIDE DEF Below
  <2> QED
    BY Zenon DEF Pass!Cardinality, Cardinality
<1> QED
  BY <1>8, <1>9, <1>10, <1>11

(* The request a token is found to be of is the one it is of.              *)
LEMMA ReqOfIs ==
  ASSUME Pass!SwiftKVAssumption, OfBatch, meta.starts = Pass!QueryStartLoc,
         NEW i \in 1 .. Len(tokens), NEW k \in 1 .. tokens[i].logits
  PROVE  Pass!ReqOf(Pass!LogitsIndices[LogitsLoc[i - 1] + k]) = i
<1> DEFINE n == Len(tokens)
           at == Pass!LogitsIndices[LogitsLoc[i - 1] + k]
           start == Pass!QueryStartLoc
           Holds(j) == start[j - 1] <= at /\ at < start[j]
<1>1. n \in Nat /\ Pass!Reqs = 1 .. n
  BY BatchTypes
<1>2. at \in Nat /\ Holds(i)
  BY TokenOfLogits
<1>3. Steps(n, Lengths, start)
  BY BatchSteps
<1>4. \A j \in 0 .. n : start[j] \in Nat
  <2> HIDE DEF n, start
  <2> QED
    BY <1>1, <1>3, StepsTypes
<1>5. \A j \in 0 .. n : \A x \in j .. n : start[j] <= start[x]
  <2> HIDE DEF n, start
  <2> QED
    BY <1>1, <1>3, StepsGrow
<1>6. ASSUME NEW j \in 1 .. n, Holds(j) PROVE j = i
  <2> HIDE DEF at, start
  <2>1. start[j - 1] \in Nat /\ start[j] \in Nat /\ start[i - 1] \in Nat /\ start[i] \in Nat
    BY <1>1, <1>4
  <2>2. CASE j < i
    <3>1. start[j] <= start[i - 1]
      BY <1>1, <1>5, <2>2
    <3> QED
      BY <1>2, <1>6, <2>1, <3>1
  <2>3. CASE i < j
    <3>1. start[i] <= start[j - 1]
      BY <1>1, <1>5, <2>3
    <3> QED
      BY <1>2, <1>6, <2>1, <3>1
  <2> QED
    BY <1>1, <2>2, <2>3
<1>7. Pass!ReqOf(at) = CHOOSE j \in 1 .. n : Holds(j)
  BY <1>1 DEF Pass!ReqOf
<1> HIDE DEF Holds, n, at
<1>8. i \in 1 .. n
  BY DEF n
<1>9. (CHOOSE j \in 1 .. n : Holds(j)) = i
  BY <1>2, <1>6, <1>8
<1> QED
  BY <1>7, <1>9 DEF at

(* As many tokens of a request are left as it has logits.                  *)
LEMMA SurvivingIs ==
  ASSUME Pass!SwiftKVAssumption, OfBatch, meta.starts = Pass!QueryStartLoc, meta.logits = Pass!LogitsIndices,
         NEW i \in 1 .. Len(tokens)
  PROVE  Pass!Surviving(i) = tokens[i].logits
<1> DEFINE n == Len(tokens)
           a == LogitsLoc[i - 1]
           b == LogitsLoc[i]
           l == tokens[i].logits
           Of == {q \in DOMAIN meta.logits : Pass!ReqOf(meta.logits[q]) = i}
<1>1. n \in Nat /\ Pass!Reqs = 1 .. n /\ l \in Nat \ {0} /\ \A j \in 1 .. n : Logits[j] = tokens[j].logits
  BY BatchTypes DEF Logits
<1>2. DOMAIN meta.logits = 1 .. LogitsLoc[n] /\ LogitsLoc[n] \in Nat
  BY LogitsLaid
<1>3. Steps(n, Logits, LogitsLoc)
  BY BatchSteps
<1>4. \A j \in 1 .. n : \A k \in 1 .. tokens[j].logits : Pass!ReqOf(meta.logits[LogitsLoc[j - 1] + k]) = j
  BY ReqOfIs
<1>5. a \in Nat /\ b \in Nat /\ b = a + l /\ b <= LogitsLoc[n]
  <2>1. 1 \in 1 .. Logits[i] /\ i \in 1 .. n /\ Logits[i] = l
    BY <1>1
  <2> HIDE DEF n, l
  <2> QED
    BY <1>1, <1>3, <2>1, PlaceIn
<1>6. Of = a + 1 .. b
  <2>1. ASSUME NEW q \in Of PROVE q \in a + 1 .. b
    <3>1. q \in 1 .. LogitsLoc[n] /\ Pass!ReqOf(meta.logits[q]) = i
      BY <1>2
    <3>2a. PICK j \in 1 .. n : \E k \in 1 .. tokens[j].logits : q = LogitsLoc[j - 1] + k
      BY <3>1, LogitsAreOfRequests
    <3>2. PICK k \in 1 .. tokens[j].logits : q = LogitsLoc[j - 1] + k
      BY <3>2a
    <3>3. j = i
      BY <1>4, <3>1, <3>2
    <3>4. q = a + k /\ k \in 1 .. l
      BY <3>2, <3>3
    <3> HIDE DEF a, b, l, Of
    <3> QED
      BY <1>1, <1>5, <3>4
  <2>2. ASSUME NEW q \in a + 1 .. b PROVE q \in Of
    <3> DEFINE k == q - a
    <3>1. k \in 1 .. l /\ q = a + k /\ q \in 1 .. LogitsLoc[n]
      <4> HIDE DEF a, b, l
      <4> QED
        BY <1>1, <1>2, <1>5
    <3>2. Pass!ReqOf(meta.logits[a + k]) = i
      <4> HIDE DEF k
      <4> QED
        BY <1>4, <3>1
    <3> QED
      BY <1>2, <3>1, <3>2
  <2> HIDE DEF Of, a, b
  <2> QED
    BY <2>1, <2>2
<1>7. Cardinality(a + 1 .. b) = l
  <2> HIDE DEF a, b, l
  <2>1. Cardinality(a + 1 .. b) = IF a + 1 > b THEN 0 ELSE b - (a + 1) + 1
    <3>1. a + 1 \in Int /\ b \in Int
      BY <1>5
    <3> QED
      BY <3>1, FS_Interval
  <2> QED
    BY <1>1, <1>5, <2>1
<1>8. Pass!Surviving(i) = Pass!Cardinality(Of)
  BY DEF Pass!Surviving
<1>9. Pass!Cardinality(Of) = Cardinality(Of)
  <2> HIDE DEF Of
  <2> QED
    BY Zenon DEF Pass!Cardinality, Cardinality
<1> QED
  BY <1>6, <1>7, <1>8, <1>9

(* A set of numbers in order has each of them once.                        *)
LEMMA InOrderHasEach ==
  ASSUME NEW n \in Nat, NEW S \in SUBSET (1 .. n)
  PROVE  /\ IsFiniteSet(S) /\ Cardinality(S) \in Nat /\ DOMAIN Pass!InOrder(S) = 1 .. Cardinality(S)
         /\ Pass!InOrder(S) \in Seq(S) /\ Len(Pass!InOrder(S)) = Cardinality(S)
         /\ \A r \in 1 .. Cardinality(S) : Pass!InOrder(S)[r] \in S
         /\ \A r, q \in 1 .. Cardinality(S) : Pass!InOrder(S)[r] = Pass!InOrder(S)[q] => r = q
         /\ \A i \in S : \E r \in 1 .. Cardinality(S) : Pass!InOrder(S)[r] = i
<1> DEFINE UpTo(k) == {j \in S : j <= k}
           c == Cardinality(S)
           g == [i \in S |-> Cardinality(UpTo(i))]
           o == Pass!InOrder(S)
<1>1. IsFiniteSet(S) /\ c \in Nat /\ \A k \in S : k \in Nat
  <2>1. IsFiniteSet(1 .. n)
    BY FS_Interval
  <2>2. IsFiniteSet(S)
    BY <2>1, FS_Subset
  <2>3. c \in Nat
    BY <2>2, FS_CardinalityType
  <2>4. \A k \in S : k \in Nat
    OBVIOUS
  <2> QED
    BY <2>2, <2>3, <2>4
<1>2. \A k \in S : k \in UpTo(k) /\ IsFiniteSet(UpTo(k)) /\ Cardinality(UpTo(k)) \in 1 .. c
  <2> SUFFICES ASSUME NEW k \in S
               PROVE  k \in UpTo(k) /\ IsFiniteSet(UpTo(k)) /\ Cardinality(UpTo(k)) \in 1 .. c
    OBVIOUS
  <2>1. UpTo(k) \subseteq S /\ k \in UpTo(k)
    BY <1>1
  <2> HIDE DEF UpTo
  <2>2. IsFiniteSet(UpTo(k)) /\ Cardinality(UpTo(k)) <= c
    BY <1>1, <2>1, FS_Subset
  <2>3. Cardinality(UpTo(k)) \in Nat /\ Cardinality(UpTo(k)) # 0
    BY <2>1, <2>2, FS_CardinalityType, FS_EmptySet
  <2> HIDE DEF c
  <2> QED
    BY <1>1, <2>1, <2>2, <2>3
<1>3. ASSUME NEW j \in S, NEW k \in S, j < k PROVE Cardinality(UpTo(j)) # Cardinality(UpTo(k))
  <2>0. \A x \in S : x \in Nat
    BY <1>1
  <2>3. j \in Nat /\ k \in Nat /\ ~(k <= j) /\ \A x \in S : x <= j => x <= k
    BY <1>3, <2>0
  <2>1. UpTo(j) \subseteq UpTo(k) /\ k \notin UpTo(j)
    BY <2>3
  <2>2. k \in UpTo(k) /\ IsFiniteSet(UpTo(k))
    BY <1>2
  <2> HIDE DEF UpTo
  <2> QED
    BY <2>1, <2>2, FS_Subset
<1>4. \A j, k \in S : Cardinality(UpTo(j)) = Cardinality(UpTo(k)) => j = k
  <2> SUFFICES ASSUME NEW j \in S, NEW k \in S, j # k PROVE Cardinality(UpTo(j)) # Cardinality(UpTo(k))
    OBVIOUS
  <2>1. j < k \/ k < j
    BY <1>1
  <2> QED
    BY <1>3, <2>1
<1> HIDE DEF UpTo
<1>5. g \in Injection(S, 1 .. c)
  <2>1. g \in [S -> 1 .. c]
    BY <1>2
  <2>2. \A j, k \in S : g[j] = g[k] => j = k
    BY <1>4
  <2> HIDE DEF g, c
  <2> QED
    BY <2>1, <2>2 DEF Injection, IsInjective
<1>6. \A r \in 1 .. c : \E i \in S : g[i] = r
  <2> HIDE DEF g
  <2>1. IsFiniteSet(1 .. c) /\ Cardinality(1 .. c) = c
    <3> HIDE DEF c
    <3>1. IsFiniteSet(1 .. c) /\ Cardinality(1 .. c) = IF 1 > c THEN 0 ELSE c - 1 + 1
      BY <1>1, FS_Interval
    <3> QED
      BY <1>1, <3>1
  <2>2. g \in Surjection(S, 1 .. c)
    BY <1>5, <2>1, FS_Injection
  <2> QED
    BY <2>2 DEF Surjection
<1>8. o = [r \in 1 .. c |-> CHOOSE i \in S : Cardinality(UpTo(i)) = r]
  BY Zenon DEF Pass!InOrder, UpTo, Pass!Cardinality, Cardinality
<1> HIDE DEF o
<1>9. \A r \in 1 .. c : o[r] \in S /\ Cardinality(UpTo(o[r])) = r
  <2> SUFFICES ASSUME NEW r \in 1 .. c PROVE o[r] \in S /\ Cardinality(UpTo(o[r])) = r
    OBVIOUS
  <2>1. o[r] = CHOOSE i \in S : Cardinality(UpTo(i)) = r
    BY <1>8
  <2>2. \E i \in S : Cardinality(UpTo(i)) = r
    BY <1>6
  <2> QED
    BY <2>1, <2>2
<1>10. \A i \in S : o[Cardinality(UpTo(i))] = i
  BY <1>2, <1>4, <1>9
<1>11. o \in [1 .. c -> S] /\ DOMAIN o = 1 .. c
  <2>1. DOMAIN o = 1 .. c /\ o = [r \in 1 .. c |-> o[r]]
    BY <1>8
  <2> QED
    BY <1>9, <2>1
<1>12. o \in Seq(S) /\ Len(o) = c
  <2> HIDE DEF c
  <2> QED
    BY <1>1, <1>11, LenOfColumn
<1>13. \A r, q \in 1 .. c : o[r] = o[q] => r = q
  BY <1>9
<1>14. \A i \in S : \E r \in 1 .. c : o[r] = i
  BY <1>2, <1>10
<1> QED
  BY <1>1, <1>9, <1>11, <1>12, <1>13, <1>14 DEF o, c

(* What torch.argsort may return: permutations, which agree on the values. *)
OneToOne(b, n) ==
  /\ b \in [1 .. n -> 1 .. n]
  /\ \A x, y \in 1 .. n : b[x] = b[y] => x = y
  /\ \A k \in 1 .. n : \E x \in 1 .. n : b[x] = k
Ascends(b, s, n) == \A x, y \in 1 .. n : x <= y => s[b[x]] <= s[b[y]]

LEMMA ArgSortOneToOne ==
  ASSUME NEW n \in Nat, NEW s, DOMAIN s = 1 .. n, \A x \in 1 .. n : s[x] \in Nat,
         NEW c \in Pass!ArgSorts(s)
  PROVE  OneToOne(c, n) /\ Ascends(c, s, n)
<1>1. /\ c \in [1 .. n -> 1 .. n]
      /\ \A j, k \in 1 .. n : j < k => c[j] # c[k] /\ s[c[j]] <= s[c[k]]
  BY DEF Pass!ArgSorts
<1>2. \A x, y \in 1 .. n : c[x] = c[y] => x = y
  BY <1>1
<1>3. c \in Injection(1 .. n, 1 .. n)
  BY <1>1, <1>2 DEF Injection, IsInjective
<1>4. IsFiniteSet(1 .. n)
  BY FS_Interval
<1>5. c \in Surjection(1 .. n, 1 .. n)
  BY <1>3, <1>4, FS_Injection
<1>6. \A k \in 1 .. n : \E x \in 1 .. n : c[x] = k
  BY <1>5 DEF Surjection
<1>7. Ascends(c, s, n)
  <2> SUFFICES ASSUME NEW x \in 1 .. n, NEW y \in 1 .. n, x <= y PROVE s[c[x]] <= s[c[y]]
    BY DEF Ascends
  <2>1. s[c[x]] \in Nat /\ c[x] \in 1 .. n
    BY <1>1
  <2>2. CASE x = y
    BY <2>1, <2>2
  <2>3. CASE x < y
    BY <1>1, <2>3
  <2> QED
    BY <2>2, <2>3
<1> QED
  BY <1>1, <1>2, <1>6, <1>7 DEF OneToOne

LEMMA SortedNoSmaller ==
  ASSUME NEW n \in Nat, NEW s, \A x \in 1 .. n : s[x] \in Nat,
         NEW b, OneToOne(b, n), Ascends(b, s, n),
         NEW c, OneToOne(c, n), Ascends(c, s, n),
         NEW x \in 1 .. n
  PROVE  s[b[x]] <= s[c[x]]
<1> SUFFICES ASSUME ~(s[b[x]] <= s[c[x]]) PROVE FALSE
  OBVIOUS
<1>1. /\ b \in [1 .. n -> 1 .. n] /\ c \in [1 .. n -> 1 .. n]
      /\ \A k \in 1 .. n : \E y \in 1 .. n : b[y] = k
      /\ \A y, z \in 1 .. n : c[y] = c[z] => y = z
  BY DEF OneToOne
<1>2. s[b[x]] \in Nat /\ s[c[x]] \in Nat /\ s[c[x]] < s[b[x]]
  <2>1. b[x] \in 1 .. n /\ c[x] \in 1 .. n
    BY <1>1
  <2>2. s[b[x]] \in Nat /\ s[c[x]] \in Nat
    BY <2>1
  <2> QED
    BY <2>2
<1> DEFINE f == [y \in 1 .. x |-> CHOOSE z \in 1 .. n : b[z] = c[y]]
<1>3. ASSUME NEW y \in 1 .. x PROVE f[y] \in 1 .. x - 1 /\ b[f[y]] = c[y]
  <2> DEFINE z == CHOOSE z \in 1 .. n : b[z] = c[y]
  <2>1. y \in 1 .. n /\ y <= x
    OBVIOUS
  <2>2. c[y] \in 1 .. n
    BY <1>1, <2>1
  <2>3. z \in 1 .. n /\ b[z] = c[y]
    BY <1>1, <2>2
  <2>4. f[y] = z
    OBVIOUS
  <2> HIDE DEF z, f
  <2>5. s[b[z]] <= s[c[x]] /\ s[b[z]] \in Nat
    <3>1. s[c[y]] <= s[c[x]]
      BY <2>1 DEF Ascends
    <3>2. s[c[y]] \in Nat
      BY <2>2
    <3> QED
      BY <2>3, <3>1, <3>2
  <2>6. ~(x <= z)
    <3> SUFFICES ASSUME x <= z PROVE FALSE
      OBVIOUS
    <3>1. s[b[x]] <= s[b[z]]
      BY <2>3 DEF Ascends
    <3> QED
      BY <1>2, <2>5, <3>1
  <2>7. z \in 1 .. x - 1
    BY <2>3, <2>6
  <2> QED
    BY <2>3, <2>4, <2>7
<1>4. f \in [1 .. x -> 1 .. x - 1]
  <2>1. f = [y \in 1 .. x |-> f[y]]
    OBVIOUS
  <2> HIDE DEF f
  <2> QED
    BY <1>3, <2>1
<1> HIDE DEF f
<1>5. /\ IsFiniteSet(1 .. x) /\ Cardinality(1 .. x) = x
      /\ IsFiniteSet(1 .. x - 1) /\ Cardinality(1 .. x - 1) = x - 1
  <2>1. x \in Int /\ x - 1 \in Int /\ 1 \in Int /\ x >= 1
    OBVIOUS
  <2>2. /\ IsFiniteSet(1 .. x) /\ Cardinality(1 .. x) = IF 1 > x THEN 0 ELSE x - 1 + 1
        /\ IsFiniteSet(1 .. x - 1) /\ Cardinality(1 .. x - 1) = IF 1 > x - 1 THEN 0 ELSE x - 1 - 1 + 1
    BY <2>1, FS_Interval
  <2> QED
    BY <2>1, <2>2
<1>6. PICK y \in 1 .. x, z \in 1 .. x : y # z /\ f[y] = f[z]
  <2>1. Cardinality(1 .. x - 1) < Cardinality(1 .. x)
    BY <1>5
  <2> QED
    BY <1>4, <1>5, <2>1, FS_PigeonHole
<1>7. c[y] = c[z] /\ y \in 1 .. n /\ z \in 1 .. n
  BY <1>3, <1>6
<1> QED
  BY <1>1, <1>6, <1>7

(* What is sorted by a permutation is sorted back by its inverse.          *)
LEMMA ArgSortBack ==
  ASSUME NEW n \in Nat, NEW b, OneToOne(b, n), NEW c \in Pass!ArgSorts(b), NEW k \in 1 .. n
  PROVE  c[k] \in 1 .. n /\ b[c[k]] = k
<1> DEFINE d == [y \in 1 .. n |-> CHOOSE x \in 1 .. n : b[x] = y]
<1>1. /\ b \in [1 .. n -> 1 .. n] /\ DOMAIN b = 1 .. n
      /\ \A x, y \in 1 .. n : b[x] = b[y] => x = y
      /\ \A y \in 1 .. n : \E x \in 1 .. n : b[x] = y
  BY DEF OneToOne
<1>2. \A y \in 1 .. n : d[y] \in 1 .. n /\ b[d[y]] = y
  <2> SUFFICES ASSUME NEW y \in 1 .. n PROVE d[y] \in 1 .. n /\ b[d[y]] = y
    OBVIOUS
  <2>1. \E x \in 1 .. n : b[x] = y
    BY <1>1
  <2>2. d[y] = CHOOSE x \in 1 .. n : b[x] = y
    OBVIOUS
  <2> QED
    BY <2>1, <2>2
<1>3. d \in [1 .. n -> 1 .. n]
  <2>1. d = [y \in 1 .. n |-> d[y]]
    OBVIOUS
  <2> HIDE DEF d
  <2> QED
    BY <1>2, <2>1
<1> HIDE DEF d
<1>4. OneToOne(d, n)
  <2>1. \A x \in 1 .. n : d[b[x]] = x
    BY <1>1, <1>2
  <2>2. \A x, y \in 1 .. n : d[x] = d[y] => x = y
    BY <1>2
  <2>3. \A y \in 1 .. n : \E x \in 1 .. n : d[x] = y
    BY <1>1, <2>1
  <2> QED
    BY <1>3, <2>2, <2>3 DEF OneToOne
<1>5. Ascends(d, b, n)
  <2> SUFFICES ASSUME NEW x \in 1 .. n, NEW y \in 1 .. n, x <= y PROVE b[d[x]] <= b[d[y]]
    BY DEF Ascends
  <2> QED
    BY <1>2
<1>6. \A x \in 1 .. n : b[x] \in Nat
  BY <1>1
<1>7. DOMAIN b = 1 .. n /\ c \in Pass!ArgSorts(b)
  BY <1>1
<1>8. c[k] \in 1 .. n /\ b[c[k]] = b[d[k]]
  <2>1. OneToOne(c, n) /\ Ascends(c, b, n)
    BY ONLY n \in Nat, <1>6, <1>7, ArgSortOneToOne
  <2>2. b[c[k]] <= b[d[k]]
    BY ONLY n \in Nat, k \in 1 .. n, <1>4, <1>5, <1>6, <2>1, SortedNoSmaller
  <2>3. b[d[k]] <= b[c[k]]
    BY ONLY n \in Nat, k \in 1 .. n, <1>4, <1>5, <1>6, <2>1, SortedNoSmaller
  <2>4. c[k] \in 1 .. n
    BY <2>1 DEF OneToOne
  <2> QED
    BY <1>2, <1>6, <2>2, <2>3, <2>4
<1> QED
  BY <1>2, <1>8

(* Places are in the order of the lengths they are in, and within them.    *)
LEMMA PlacesInOrder ==
  ASSUME NEW n \in Nat, NEW len, NEW off, Steps(n, len, off),
         NEW i \in 1 .. n, NEW k \in 1 .. len[i], NEW j \in 1 .. n, NEW m \in 1 .. len[j]
  PROVE  off[i - 1] + k < off[j - 1] + m <=> (i < j \/ (i = j /\ k < m))
<1>1. \A x \in 1 .. n : \A y \in 1 .. n : x < y => off[x] <= off[y - 1]
  <2> SUFFICES ASSUME NEW x \in 1 .. n, NEW y \in 1 .. n, x < y PROVE off[x] <= off[y - 1]
    OBVIOUS
  <2>1. x \in 0 .. n /\ y - 1 \in x .. n
    OBVIOUS
  <2> QED
    BY <2>1, StepsGrow
<1>2. off[i - 1] \in Nat /\ off[j - 1] \in Nat /\ off[i - 1] + k <= off[i] /\ off[j - 1] + m <= off[j]
      /\ off[i] \in Nat /\ off[j] \in Nat /\ k \in Nat \ {0} /\ m \in Nat \ {0}
  <2>1. off[i - 1] \in Nat /\ off[i - 1] + k <= off[i] /\ off[i] \in Nat /\ len[i] \in Nat
    BY PlaceIn
  <2>2. off[j - 1] \in Nat /\ off[j - 1] + m <= off[j] /\ off[j] \in Nat /\ len[j] \in Nat
    BY PlaceIn
  <2> QED
    BY <2>1, <2>2
<1>3. CASE i < j
  BY <1>1, <1>2, <1>3
<1>4. CASE j < i
  BY <1>1, <1>2, <1>4
<1>5. CASE i = j
  BY <1>2, <1>5
<1> QED
  BY <1>3, <1>4, <1>5

(* b takes what is the k-th of the r-th in the new order from where the    *)
(* k-th of order[r] was.                                                   *)
Moves(b, n, len, off, order, new) ==
  \A r \in 1 .. n : \A k \in 1 .. len[order[r]] : b[new[r - 1] + k] = off[order[r] - 1] + k

(* The same, with what the r-th has in any order.                          *)
Gathers(b, n, len, off, order, new) ==
  \A r \in 1 .. n : \A k \in 1 .. len[order[r]] :
     \E m \in 1 .. len[order[r]] : b[new[r - 1] + k] = off[order[r] - 1] + m

LEMMA MovesGather ==
  ASSUME NEW b, NEW n, NEW len, NEW off, NEW order, NEW new, Moves(b, n, len, off, order, new)
  PROVE  Gathers(b, n, len, off, order, new)
<1> QED
  BY DEF Moves, Gathers

(* Every place is moved to one place, and what is there has moved there.   *)
LEMMA MovesOneToOne ==
  ASSUME NEW n \in Nat, NEW len, NEW off, Steps(n, len, off),
         NEW order, OneToOne(order, n),
         NEW newlen, \A r \in 1 .. n : newlen[r] = len[order[r]],
         NEW new, Steps(n, newlen, new)
  PROVE  new[n] = off[n] /\ \E b : OneToOne(b, off[n]) /\ Moves(b, n, len, off, order, new)
<1> DEFINE Target(x, y) == \E r \in 1 .. n : \E k \in 1 .. len[order[r]] : x = new[r - 1] + k /\ y = off[order[r] - 1] + k
           b == [x \in 1 .. new[n] |-> CHOOSE y : Target(x, y)]
<1>1. /\ \A r \in 1 .. n : order[r] \in 1 .. n
      /\ \A r, q \in 1 .. n : order[r] = order[q] => r = q
      /\ \A i \in 1 .. n : \E r \in 1 .. n : order[r] = i
  BY DEF OneToOne
<1>2. ASSUME NEW r \in 1 .. n, NEW k \in 1 .. len[order[r]] PROVE new[r - 1] + k \in 1 .. new[n]
  <2>1. k \in 1 .. newlen[r]
    OBVIOUS
  <2> QED
    BY <2>1, PlaceIn
<1>3. ASSUME NEW r \in 1 .. n, NEW k \in 1 .. len[order[r]], NEW y, Target(new[r - 1] + k, y)
      PROVE  y = off[order[r] - 1] + k
  <2>1. PICK q \in 1 .. n : \E m \in 1 .. len[order[q]] : new[r - 1] + k = new[q - 1] + m /\ y = off[order[q] - 1] + m
    BY <1>3
  <2>2. PICK m \in 1 .. len[order[q]] : new[r - 1] + k = new[q - 1] + m /\ y = off[order[q] - 1] + m
    BY <2>1
  <2>3. k \in 1 .. newlen[r] /\ m \in 1 .. newlen[q]
    OBVIOUS
  <2>4. r = q /\ k = m
    BY <2>2, <2>3, LocatedOnce
  <2> QED
    BY <2>2, <2>4
<1>4. ASSUME NEW r \in 1 .. n, NEW k \in 1 .. len[order[r]] PROVE b[new[r - 1] + k] = off[order[r] - 1] + k
  <2>1. Target(new[r - 1] + k, off[order[r] - 1] + k)
    OBVIOUS
  <2> HIDE DEF Target
  <2>2. b[new[r - 1] + k] = CHOOSE y : Target(new[r - 1] + k, y)
    BY <1>2
  <2>3. (CHOOSE y : Target(new[r - 1] + k, y)) = off[order[r] - 1] + k
    BY <1>3, <2>1
  <2> QED
    BY <2>2, <2>3
<1>5. ASSUME NEW x \in 1 .. new[n]
      PROVE  \E r \in 1 .. n : \E k \in 1 .. len[order[r]] : x = new[r - 1] + k
  <2>1. \E r \in 1 .. n : \E k \in 1 .. newlen[r] : x = new[r - 1] + k
    BY Located
  <2> QED
    BY <2>1
<1> HIDE DEF Target
<1>6. DOMAIN b = 1 .. new[n] /\ b = [x \in 1 .. new[n] |-> b[x]]
  OBVIOUS
<1> HIDE DEF b
<1>7. ASSUME NEW x \in 1 .. new[n] PROVE b[x] \in 1 .. off[n]
  <2>1. PICK r \in 1 .. n : \E k \in 1 .. len[order[r]] : x = new[r - 1] + k
    BY <1>5
  <2>2. PICK k \in 1 .. len[order[r]] : x = new[r - 1] + k
    BY <2>1
  <2>3. order[r] \in 1 .. n
    BY <1>1
  <2>4. off[order[r] - 1] + k \in 1 .. off[n]
    BY <2>3, PlaceIn
  <2> QED
    BY <1>4, <2>2, <2>4
<1>8. ASSUME NEW x \in 1 .. new[n], NEW y \in 1 .. new[n], b[x] = b[y] PROVE x = y
  <2>1. PICK r \in 1 .. n : \E k \in 1 .. len[order[r]] : x = new[r - 1] + k
    BY <1>5
  <2>2. PICK k \in 1 .. len[order[r]] : x = new[r - 1] + k
    BY <2>1
  <2>3. PICK q \in 1 .. n : \E m \in 1 .. len[order[q]] : y = new[q - 1] + m
    BY <1>5
  <2>4. PICK m \in 1 .. len[order[q]] : y = new[q - 1] + m
    BY <2>3
  <2>5. order[r] \in 1 .. n /\ order[q] \in 1 .. n
    BY <1>1
  <2>6. off[order[r] - 1] + k = off[order[q] - 1] + m
    BY <1>4, <1>8, <2>2, <2>4
  <2>7. order[r] = order[q] /\ k = m
    BY <2>5, <2>6, LocatedOnce
  <2>8. r = q
    BY <1>1, <2>7
  <2> QED
    BY <2>2, <2>4, <2>7, <2>8
<1>9. ASSUME NEW y \in 1 .. off[n] PROVE \E x \in 1 .. new[n] : b[x] = y
  <2>1. PICK i \in 1 .. n : \E k \in 1 .. len[i] : y = off[i - 1] + k
    BY Located
  <2>2. PICK k \in 1 .. len[i] : y = off[i - 1] + k
    BY <2>1
  <2>3. PICK r \in 1 .. n : order[r] = i
    BY <1>1
  <2>4. k \in 1 .. len[order[r]]
    BY <2>3
  <2>5. new[r - 1] + k \in 1 .. new[n] /\ b[new[r - 1] + k] = y
    BY <1>2, <1>4, <2>2, <2>3, <2>4
  <2> QED
    BY <2>5
<1>10. new[n] = off[n]
  <2>1. new[n] \in Nat /\ off[n] \in Nat
    <3>1. n \in 0 .. n
      OBVIOUS
    <3> QED
      BY <3>1, StepsTypes
  <2>2. b \in Bijection(1 .. new[n], 1 .. off[n])
    <3>1. b \in [1 .. new[n] -> 1 .. off[n]]
      BY <1>6, <1>7
    <3>2. b \in Injection(1 .. new[n], 1 .. off[n])
      BY <1>8, <3>1 DEF Injection, IsInjective
    <3>3. b \in Surjection(1 .. new[n], 1 .. off[n])
      BY <1>9, <3>1 DEF Surjection
    <3> QED
      BY <3>2, <3>3 DEF Bijection
  <2>3. ExistsBijection(1 .. new[n], 1 .. off[n])
    BY <2>2 DEF ExistsBijection
  <2>4. \A c \in Nat : IsFiniteSet(1 .. c) /\ Cardinality(1 .. c) = c
    <3> SUFFICES ASSUME NEW c \in Nat PROVE IsFiniteSet(1 .. c) /\ Cardinality(1 .. c) = c
      OBVIOUS
    <3>1. IsFiniteSet(1 .. c) /\ Cardinality(1 .. c) = IF 1 > c THEN 0 ELSE c - 1 + 1
      BY FS_Interval
    <3> QED
      BY <3>1
  <2>5. Cardinality(1 .. off[n]) = Cardinality(1 .. new[n])
    BY <2>1, <2>3, <2>4, FS_Bijection
  <2> QED
    BY <2>1, <2>4, <2>5
<1>11. OneToOne(b, off[n])
  BY <1>6, <1>7, <1>8, <1>9, <1>10 DEF OneToOne
<1>12. Moves(b, n, len, off, order, new)
  BY <1>4 DEF Moves
<1> QED
  BY <1>10, <1>11, <1>12

PagesOf(i) == [p \in 1 .. tokens[i].pages |-> <<i, p>>]
Single == {i \in Pass!Reqs : tokens[i].logits = 1}
Several == {i \in Pass!Reqs : tokens[i].logits > 1}
NewOrder == Pass!InOrder(Single) \o Pass!InOrder(Several)

(* A piece of what was flattened.                                          *)
LEMMA LaidPiece ==
  ASSUME NEW n \in Nat, NEW S, NEW len, NEW off, Steps(n, len, off),
         NEW flat, NEW s, Lays(flat, S, n, len, off, s),
         NEW i \in 1 .. n, len[i] # 0, s[i] \in Seq(S), Len(s[i]) = len[i]
  PROVE  SubSeq(flat, off[i - 1] + 1, off[i]) = s[i]
<1> DEFINE a == off[i - 1]
           b == off[i]
           l == len[i]
           t == s[i]
           sub == SubSeq(flat, a + 1, b)
<1>1. l \in Nat \ {0} /\ a \in Nat /\ b \in Nat /\ b = a + l /\ b <= off[n] /\ off[n] \in Nat
  <2>1. l \in Nat \ {0}
    BY DEF Steps
  <2>2. 1 \in 1 .. len[i]
    BY <2>1
  <2>3. /\ off[i - 1] \in Nat /\ off[i] \in Nat /\ off[n] \in Nat /\ len[i] \in Nat
        /\ off[i] = off[i - 1] + len[i] /\ off[i] <= off[n]
    BY <2>2, PlaceIn
  <2> QED
    BY <2>1, <2>3
<1>2. flat \in Seq(S) /\ Len(flat) = off[n] /\ \A j \in 1 .. l : flat[a + j] = t[j]
  BY DEF Lays
<1>3. t \in Seq(S) /\ Len(t) = l
  OBVIOUS
<1> HIDE DEF a, b, l, t
<1>4. /\ SubSeq(flat, a + 1, b) \in Seq(S) /\ Len(SubSeq(flat, a + 1, b)) = b - (a + 1) + 1
      /\ \A j \in 1 .. b - (a + 1) + 1 : SubSeq(flat, a + 1, b)[j] = flat[a + 1 + j - 1]
  <2>1. a + 1 \in Int /\ b \in Int /\ a + 1 <= b /\ \A j \in a + 1 .. b : j \in 1 .. Len(flat)
    BY <1>1, <1>2
  <2>2. \A j \in 1 .. Len(flat) : flat[j] \in S
    BY <1>2, ElementOfSeq
  <2>3. \A j \in a + 1 .. b : flat[j] \in S
    BY <2>1, <2>2
  <2>4. /\ SubSeq(flat, a + 1, b) \in Seq(S)
        /\ Len(SubSeq(flat, a + 1, b)) = IF a + 1 <= b THEN b - (a + 1) + 1 ELSE 0
        /\ \A j \in 1 .. b - (a + 1) + 1 : SubSeq(flat, a + 1, b)[j] = flat[a + 1 + j - 1]
    BY <2>1, <2>3, SubSeqProperties
  <2> QED
    BY <2>1, <2>4
<1>5. b - (a + 1) + 1 = l
  BY <1>1
<1>6. Len(sub) = Len(t) /\ sub \in Seq(S)
  BY <1>3, <1>4, <1>5
<1>7. \A j \in 1 .. Len(sub) : sub[j] = t[j]
  <2> SUFFICES ASSUME NEW j \in 1 .. l PROVE sub[j] = t[j]
    BY <1>3, <1>6
  <2>1. sub[j] = flat[a + 1 + j - 1] /\ a + 1 + j - 1 = a + j
    BY <1>1, <1>4, <1>5
  <2> QED
    BY <1>2, <2>1
<1> HIDE DEF sub
<1>8. sub = t
  BY <1>3, <1>6, <1>7, SeqEqual
<1> QED
  BY <1>8 DEF sub, a, b, t

(* FlashInfer's order has each request once.                               *)
LEMMA NewOrderOneToOne ==
  ASSUME Pass!SwiftKVAssumption, OfBatch
  PROVE  OneToOne(NewOrder, Len(tokens)) /\ Len(NewOrder) = Len(tokens) /\ DOMAIN NewOrder = 1 .. Len(tokens)
<1> DEFINE n == Len(tokens)
           d == Pass!InOrder(Single)
           p == Pass!InOrder(Several)
           cd == Cardinality(Single)
           cp == Cardinality(Several)
<1>1. n \in Nat /\ Pass!Reqs = 1 .. n /\ \A i \in 1 .. n : tokens[i].logits \in Nat \ {0}
  BY BatchTypes
<1>2. Single \in SUBSET (1 .. n) /\ Several \in SUBSET (1 .. n)
  BY <1>1 DEF Single, Several
<1>3. Single \cup Several = 1 .. n /\ Single \cap Several = {}
  <2>1. \A i \in 1 .. n : i \in Single \/ i \in Several
    BY <1>1 DEF Single, Several
  <2>2. \A i \in 1 .. n : ~(i \in Single /\ i \in Several)
    BY <1>1 DEF Single, Several
  <2> QED
    BY <1>2, <2>1, <2>2
<1> HIDE DEF n, d, p
<1>4. /\ IsFiniteSet(Single) /\ cd \in Nat
      /\ d \in Seq(Single) /\ Len(d) = cd
      /\ \A r \in 1 .. cd : d[r] \in Single
      /\ \A r, q \in 1 .. cd : d[r] = d[q] => r = q
      /\ \A i \in Single : \E r \in 1 .. cd : d[r] = i
  BY <1>1, <1>2, InOrderHasEach DEF d
<1>5. /\ IsFiniteSet(Several) /\ cp \in Nat
      /\ p \in Seq(Several) /\ Len(p) = cp
      /\ \A r \in 1 .. cp : p[r] \in Several
      /\ \A r, q \in 1 .. cp : p[r] = p[q] => r = q
      /\ \A i \in Several : \E r \in 1 .. cp : p[r] = i
  BY <1>1, <1>2, InOrderHasEach DEF p
<1>6. n = cd + cp
  <2>0. Cardinality(Single \cup Several) = Cardinality(Single) + Cardinality(Several) - Cardinality(Single \cap Several)
    BY <1>4, <1>5, FS_Union
  <2>1. Cardinality(1 .. n) = cd + cp - Cardinality({})
    BY <1>3, <2>0
  <2>2. Cardinality({}) = 0
    BY FS_EmptySet
  <2>3. Cardinality(1 .. n) = IF 1 > n THEN 0 ELSE n - 1 + 1
    BY <1>1, FS_Interval
  <2> HIDE DEF cd, cp
  <2> QED
    BY <1>1, <1>4, <1>5, <2>1, <2>2, <2>3
<1> HIDE DEF cd, cp
<1>7. d \in Seq(1 .. n) /\ p \in Seq(1 .. n)
  <2>1. d \in [1 .. cd -> 1 .. n] /\ p \in [1 .. cp -> 1 .. n]
    <3>1. d = [r \in 1 .. cd |-> d[r]] /\ p = [r \in 1 .. cp |-> p[r]]
      BY <1>4, <1>5
    <3> QED
      BY <1>2, <1>4, <1>5, <3>1
  <2> QED
    BY <1>4, <1>5, <2>1, LenOfColumn
<1>8. /\ d \o p \in Seq(1 .. n) /\ Len(d \o p) = cd + cp
      /\ \A r \in 1 .. cd + cp : (d \o p)[r] = IF r <= cd THEN d[r] ELSE p[r - cd]
  <2>1. /\ d \o p \in Seq(1 .. n) /\ Len(d \o p) = Len(d) + Len(p)
        /\ \A r \in 1 .. Len(d) + Len(p) : (d \o p)[r] = IF r <= Len(d) THEN d[r] ELSE p[r - Len(d)]
    BY <1>7, ConcatProperties
  <2> QED
    BY <1>4, <1>5, <2>1
<1> DEFINE o == d \o p
<1>9. o \in Seq(1 .. n) /\ Len(o) = n /\ DOMAIN o = 1 .. n /\ o \in [1 .. n -> 1 .. n]
  <2>1. o \in Seq(1 .. n) /\ Len(o) = n
    BY <1>6, <1>8
  <2> HIDE DEF o
  <2> QED
    BY <2>1, LenProperties
<1>10. /\ \A r \in 1 .. cd : o[r] = d[r] /\ r \in 1 .. n
       /\ \A r \in 1 .. cp : o[cd + r] = p[r] /\ cd + r \in 1 .. n
       /\ \A r \in 1 .. n : r \in 1 .. cd \/ r - cd \in 1 .. cp
  <2>1. \A r \in 1 .. cd : o[r] = d[r] /\ r \in 1 .. n
    BY <1>4, <1>5, <1>6, <1>8
  <2>2. \A r \in 1 .. cp : o[cd + r] = p[r] /\ cd + r \in 1 .. n
    <3> SUFFICES ASSUME NEW r \in 1 .. cp PROVE o[cd + r] = p[r] /\ cd + r \in 1 .. n
      OBVIOUS
    <3>1. cd + r \in 1 .. cd + cp /\ ~(cd + r <= cd) /\ cd + r - cd = r
      BY <1>4, <1>5
    <3> DEFINE x == cd + r
    <3>2. o[x] = IF x <= cd THEN d[x] ELSE p[x - cd]
      <4>1. x \in 1 .. cd + cp
        BY <3>1
      <4> HIDE DEF x
      <4> QED
        BY <1>8, <4>1
    <3> HIDE DEF o
    <3>3. x - cd = r /\ ~(x <= cd) /\ x \in 1 .. n
      <4>1. r \in Nat \ {0} /\ r <= cp /\ cp \in Nat /\ cd \in Nat /\ n = cd + cp
        BY <1>4, <1>5, <1>6
      <4> QED
        BY <4>1
    <3> HIDE DEF x
    <3>4. o[x] = p[r] /\ x \in 1 .. n
      BY <3>2, <3>3
    <3> QED
      BY <3>4 DEF x
  <2>3. \A r \in 1 .. n : r \in 1 .. cd \/ r - cd \in 1 .. cp
    BY <1>4, <1>5, <1>6
  <2> QED
    BY <2>1, <2>2, <2>3
<1> HIDE DEF o
<1>11. ASSUME NEW r \in 1 .. n, NEW q \in 1 .. n, o[r] = o[q] PROVE r = q
  <2>1. r \in Nat /\ q \in Nat
    OBVIOUS
  <2>2. r - cd \in 1 .. cp => o[r] = p[r - cd]
    <3>1. cd + (r - cd) = r
      BY <1>4, <2>1
    <3> QED
      BY <1>10, <3>1
  <2>3. q - cd \in 1 .. cp => o[q] = p[q - cd]
    <3>1. cd + (q - cd) = q
      BY <1>4, <2>1
    <3> QED
      BY <1>10, <3>1
  <2>4. CASE r \in 1 .. cd /\ q \in 1 .. cd
    BY <1>4, <1>10, <1>11, <2>4
  <2>5. CASE r - cd \in 1 .. cp /\ q - cd \in 1 .. cp
    <3>1. r - cd = q - cd
      BY <1>5, <1>11, <2>2, <2>3, <2>5
    <3> QED
      BY <1>4, <2>1, <3>1
  <2>6. CASE r \in 1 .. cd /\ q - cd \in 1 .. cp
    <3>1. o[r] \in Single /\ o[q] \in Several
      BY <1>4, <1>5, <1>10, <2>3, <2>6
    <3> QED
      BY <1>3, <1>11, <3>1
  <2>7. CASE r - cd \in 1 .. cp /\ q \in 1 .. cd
    <3>1. o[q] \in Single /\ o[r] \in Several
      BY <1>4, <1>5, <1>10, <2>2, <2>7
    <3> QED
      BY <1>3, <1>11, <3>1
  <2> QED
    BY <1>10, <2>4, <2>5, <2>6, <2>7
<1>12. ASSUME NEW i \in 1 .. n PROVE \E r \in 1 .. n : o[r] = i
  <2>1. CASE i \in Single
    BY <1>4, <1>10, <2>1
  <2>2. CASE i \in Several
    BY <1>5, <1>10, <2>2
  <2> QED
    BY <1>3, <2>1, <2>2
<1>13. o = NewOrder
  BY DEF o, d, p, NewOrder
<1>14. OneToOne(o, n)
  BY <1>9, <1>11, <1>12 DEF OneToOne
<1> QED
  BY <1>9, <1>13, <1>14 DEF n

(* Where a request's pages are in those of the batch.                      *)
LEMMA PiecesOfPages ==
  ASSUME Pass!SwiftKVAssumption, OfBatch, NEW i \in 1 .. Len(tokens)
  PROVE  SubSeq(Pages, PageLoc[i - 1] + 1, PageLoc[i]) = PagesOf(i)
<1> DEFINE n == Len(tokens)
           S == Nat \X Nat
           s == [j \in 1 .. n |-> PagesOf(j)]
<1>1. n \in Nat /\ Pass!Reqs = 1 .. n /\ \A j \in 1 .. n : tokens[j].pages \in Nat \ {0}
  BY BatchTypes
<1>2. Steps(n, PageCounts, PageLoc)
  BY BatchSteps
<1>3. \A j \in 1 .. n : PageCounts[j] = tokens[j].pages
  BY <1>1 DEF PageCounts
<1>4. /\ Pages \in Seq(S) /\ Len(Pages) = PageLoc[n]
      /\ \A j \in 1 .. n : \A p \in 1 .. tokens[j].pages : Pages[PageLoc[j - 1] + p] = <<j, p>>
  BY PagesLaid
<1>5. \A j \in 1 .. n : s[j] = PagesOf(j) /\ \A p \in 1 .. tokens[j].pages : s[j][p] = <<j, p>>
  BY DEF PagesOf
<1>6. PagesOf(i) \in Seq(S) /\ Len(PagesOf(i)) = tokens[i].pages
  <2> DEFINE m == tokens[i].pages
  <2>1. m \in Nat
    BY <1>1
  <2>2. [p \in 1 .. m |-> <<i, p>>] \in [1 .. m -> S]
    BY <1>1, <2>1
  <2> HIDE DEF m, S
  <2>3. [p \in 1 .. m |-> <<i, p>>] \in Seq(S) /\ Len([p \in 1 .. m |-> <<i, p>>]) = m
    BY <2>1, <2>2, LenOfColumn
  <2> QED
    BY <2>3 DEF m, PagesOf
<1> HIDE DEF S, s
<1>7. Lays(Pages, S, n, PageCounts, PageLoc, s)
  <2>1. DOMAIN Pages = 1 .. PageLoc[n]
    BY <1>4, LenProperties
  <2>2. \A j \in 1 .. n : \A p \in 1 .. PageCounts[j] : Pages[PageLoc[j - 1] + p] = s[j][p]
    <3> SUFFICES ASSUME NEW j \in 1 .. n, NEW p \in 1 .. PageCounts[j] PROVE Pages[PageLoc[j - 1] + p] = s[j][p]
      OBVIOUS
    <3>1. p \in 1 .. tokens[j].pages
      BY <1>3
    <3>2. Pages[PageLoc[j - 1] + p] = <<j, p>>
      BY <1>4, <3>1
    <3>3. s[j][p] = <<j, p>>
      BY <1>5, <3>1
    <3> QED
      BY <3>2, <3>3
  <2> QED
    BY <1>4, <2>1, <2>2 DEF Lays
<1>8. PageCounts[i] # 0 /\ s[i] = PagesOf(i) /\ Len(s[i]) = PageCounts[i] /\ s[i] \in Seq(S)
  BY <1>1, <1>3, <1>5, <1>6
<1>9. i \in 1 .. n
  OBVIOUS
<1> HIDE DEF n
<1>10. SubSeq(Pages, PageLoc[i - 1] + 1, PageLoc[i]) = s[i]
  BY <1>1, <1>2, <1>7, <1>8, <1>9, LaidPiece
<1> QED
  BY <1>8, <1>10

(* The metadata of the requests in an order: their tokens behind each      *)
(* other, and their pages.                                                 *)
LogitsIn(order) == [r \in DOMAIN order |-> tokens[order[r]].logits]
Arranged(order, starts, pages, indptr) ==
  /\ DOMAIN order = 1 .. Len(tokens) /\ Len(order) = Len(tokens) /\ OneToOne(order, Len(tokens))
  /\ Steps(Len(tokens), LogitsIn(order), starts)
  /\ \A r \in 1 .. Len(tokens) : SubSeq(pages, indptr[r - 1] + 1, indptr[r]) = PagesOf(order[r])

Keep == [i \in Pass!Reqs |-> i]

(* The metadata the remaining layers start from.                           *)
LEMMA AsScheduled ==
  ASSUME meta = Pass!Scheduled
  PROVE  /\ {"order", "starts", "slots", "pages", "indptr", "decodes", "prefillTokens", "decodeWrapper",
             "prefillWrapper", "logits", "sorted", "inverse"} = DOMAIN meta
         /\ meta.order = Keep /\ meta.starts = Pass!QueryStartLoc
         /\ meta.slots = [t \in DOMAIN Pass!Tokens |-> t - 1]
         /\ meta.pages = Pages /\ meta.indptr = PageLoc /\ meta.logits = Pass!LogitsIndices
<1> QED
  BY DEF Pass!Scheduled, Keep, Pages, PageLoc, PageCounts

(* FlashAttention keeps the order of the requests.                         *)
LEMMA KeepArranged ==
  ASSUME Pass!SwiftKVAssumption, OfBatch, meta = Pass!Scheduled,
         NEW starts, starts = [i \in DOMAIN meta.starts |-> Pass!SearchSorted(meta.starts[i])]
  PROVE  /\ Arranged(meta.order, starts, meta.pages, meta.indptr)
         /\ Moves([q \in 1 .. LogitsLoc[Len(tokens)] |-> q], Len(tokens), Logits, LogitsLoc, meta.order, starts)
<1> DEFINE n == Len(tokens)
<1>1. n \in Nat /\ Pass!Reqs = 1 .. n /\ \A i \in 1 .. n : tokens[i].logits \in Nat \ {0} /\ Logits[i] = tokens[i].logits
  BY BatchTypes DEF Logits
<1>2. /\ meta.order = Keep /\ meta.starts = Pass!QueryStartLoc
      /\ meta.pages = Pages /\ meta.indptr = PageLoc /\ meta.logits = Pass!LogitsIndices
  BY AsScheduled
<1>3. \A i \in 0 .. n : starts[i] = LogitsLoc[i]
  <2>1. DOMAIN Pass!QueryStartLoc = 0 .. n
    BY BatchSteps
  <2>2. \A i \in 0 .. n : Pass!SearchSorted(Pass!QueryStartLoc[i]) = LogitsLoc[i]
    BY <1>2, SearchSortedIs
  <2>3. \A i \in 0 .. n : starts[i] = Pass!SearchSorted(Pass!QueryStartLoc[i])
    BY <1>2, <2>1
  <2> QED
    BY <2>2, <2>3
<1>4. DOMAIN Keep = 1 .. n /\ (\A i \in 1 .. n : Keep[i] = i) /\ Len(Keep) = n /\ Keep \in [1 .. n -> 1 .. n]
  <2>1. DOMAIN Keep = 1 .. n /\ (\A i \in 1 .. n : Keep[i] = i) /\ Keep \in [1 .. n -> 1 .. n]
    BY <1>1 DEF Keep
  <2> HIDE DEF n
  <2>2. Len(Keep) = n
    BY <1>1, <2>1, LenOfColumn
  <2> QED
    BY <2>1, <2>2
<1>5. OneToOne(Keep, n)
  BY <1>4 DEF OneToOne
<1>6. Steps(n, Logits, LogitsLoc)
  BY BatchSteps
<1>7. Steps(n, LogitsIn(Keep), starts)
  <2>1. \A i \in 1 .. n : LogitsIn(Keep)[i] = Logits[i]
    BY <1>1, <1>4 DEF LogitsIn
  <2>2. 0 \in 0 .. n /\ \A i \in 1 .. n : i \in 0 .. n /\ i - 1 \in 0 .. n
    BY <1>1
  <2> HIDE DEF n
  <2> QED
    BY <1>3, <1>6, <2>1, <2>2 DEF Steps
<1>8. \A r \in 1 .. n : SubSeq(Pages, PageLoc[r - 1] + 1, PageLoc[r]) = PagesOf(Keep[r])
  BY <1>4, PiecesOfPages
<1>9. Arranged(Keep, starts, Pages, PageLoc)
  BY <1>4, <1>5, <1>7, <1>8 DEF Arranged
<1>10. Moves([q \in 1 .. LogitsLoc[n] |-> q], n, Logits, LogitsLoc, Keep, starts)
  <2> SUFFICES ASSUME NEW r \in 1 .. n, NEW k \in 1 .. Logits[Keep[r]]
               PROVE  [q \in 1 .. LogitsLoc[n] |-> q][starts[r - 1] + k] = LogitsLoc[Keep[r] - 1] + k
    BY DEF Moves
  <2>1. Keep[r] = r /\ r - 1 \in 0 .. n
    BY <1>1, <1>4
  <2>2. starts[r - 1] = LogitsLoc[r - 1]
    BY <1>3, <2>1
  <2>3. LogitsLoc[r - 1] + k \in 1 .. LogitsLoc[n]
    <3>1. k \in 1 .. Logits[r]
      BY <2>1
    <3> HIDE DEF n
    <3> QED
      BY <1>1, <1>6, <3>1, PlaceIn
  <2> QED
    BY <2>1, <2>2, <2>3
<1> QED
  BY <1>2, <1>9, <1>10

(* Classify, FlashInfer's first steps: the requests left with one token    *)
(* before the others.                                                      *)
LEMMA NewOrderIs ==
  ASSUME Pass!SwiftKVAssumption, OfBatch, meta = Pass!Scheduled
  PROVE  /\ Pass!DecodeReqs \o Pass!PrefillReqs = NewOrder
         /\ \A r \in 1 .. Len(tokens) : Pass!Surviving(NewOrder[r]) = LogitsIn(NewOrder)[r]
<1>1. meta.starts = Pass!QueryStartLoc /\ meta.logits = Pass!LogitsIndices
  BY AsScheduled
<1>2. Pass!Reqs = 1 .. Len(tokens)
  BY BatchTypes
<1>3. \A i \in Pass!Reqs : Pass!Surviving(i) = tokens[i].logits
  BY <1>1, <1>2, SurvivingIs
<1>4. {i \in Pass!Reqs : Pass!Surviving(i) = 1} = Single /\ {i \in Pass!Reqs : Pass!Surviving(i) > 1} = Several
  BY <1>3 DEF Single, Several
<1>5. Pass!DecodeReqs = Pass!InOrder(Single) /\ Pass!PrefillReqs = Pass!InOrder(Several)
  BY <1>4 DEF Pass!DecodeReqs, Pass!PrefillReqs
<1>6. OneToOne(NewOrder, Len(tokens)) /\ DOMAIN NewOrder = 1 .. Len(tokens)
  BY NewOrderOneToOne
<1>7. \A r \in 1 .. Len(tokens) : NewOrder[r] \in Pass!Reqs
  BY <1>2, <1>6 DEF OneToOne
<1>8. \A r \in 1 .. Len(tokens) : LogitsIn(NewOrder)[r] = tokens[NewOrder[r]].logits
  BY <1>6 DEF LogitsIn
<1> QED
  BY <1>3, <1>5, <1>7, <1>8 DEF NewOrder

(* The pages move with their requests.                                     *)
LEMMA NewPieces ==
  ASSUME Pass!SwiftKVAssumption, OfBatch, meta = Pass!Scheduled,
         NEW indptr,
         indptr = Pass!Cumulated([r \in DOMAIN NewOrder |-> meta.indptr[NewOrder[r]] - meta.indptr[NewOrder[r] - 1]]),
         NEW r \in 1 .. Len(tokens)
  PROVE  SubSeq(Pass!Rearranged(NewOrder), indptr[r - 1] + 1, indptr[r]) = PagesOf(NewOrder[r])
<1> DEFINE n == Len(tokens)
           S == Nat \X Nat
           s == [q \in 1 .. n |-> PagesOf(NewOrder[q])]
           len == [q \in DOMAIN NewOrder |-> PageLoc[NewOrder[q]] - PageLoc[NewOrder[q] - 1]]
           flat == Pass!Rearranged(NewOrder)
<1>1. n \in Nat \ {0} /\ Pass!Reqs = 1 .. n /\ \A j \in 1 .. n : tokens[j].pages \in Nat \ {0}
  BY BatchTypes
<1>2. meta.pages = Pages /\ meta.indptr = PageLoc
  BY AsScheduled
<1>3. DOMAIN NewOrder = 1 .. n /\ \A q \in 1 .. n : NewOrder[q] \in 1 .. n
  BY NewOrderOneToOne DEF OneToOne
<1>4. Steps(n, PageCounts, PageLoc) /\ \A i \in 1 .. n : PageCounts[i] = tokens[i].pages
  BY <1>1, BatchSteps DEF PageCounts
<1>5. ASSUME NEW i \in 1 .. n
      PROVE  /\ PageLoc[i] - PageLoc[i - 1] = tokens[i].pages
             /\ PagesOf(i) \in Seq(S) /\ Len(PagesOf(i)) = tokens[i].pages
  <2> DEFINE m == tokens[i].pages
             a == PageLoc[i - 1]
             b == PageLoc[i]
  <2>1. m \in Nat
    BY <1>1
  <2>2. [p \in 1 .. m |-> <<i, p>>] \in [1 .. m -> S]
    BY <1>1, <2>1
  <2>3. a \in Nat /\ b = a + m
    BY <1>4 DEF Steps
  <2> HIDE DEF m, S, a, b
  <2>4. [p \in 1 .. m |-> <<i, p>>] \in Seq(S) /\ Len([p \in 1 .. m |-> <<i, p>>]) = m
    BY <2>1, <2>2, LenOfColumn
  <2>5. b - a = m
    BY <2>1, <2>3
  <2> QED
    BY <2>4, <2>5 DEF m, a, b, PagesOf
<1>6. \A q \in 1 .. n : s[q] = PagesOf(NewOrder[q]) /\ len[q] = tokens[NewOrder[q]].pages
                        /\ s[q] \in Seq(S) /\ Len(s[q]) = len[q] /\ len[q] \in Nat \ {0}
  <2> HIDE DEF S
  <2> SUFFICES ASSUME NEW q \in 1 .. n
               PROVE  s[q] = PagesOf(NewOrder[q]) /\ len[q] = tokens[NewOrder[q]].pages
                      /\ s[q] \in Seq(S) /\ Len(s[q]) = len[q] /\ len[q] \in Nat \ {0}
    OBVIOUS
  <2>1. NewOrder[q] \in 1 .. n /\ q \in DOMAIN NewOrder
    BY <1>3
  <2>2. s[q] = PagesOf(NewOrder[q]) /\ len[q] = PageLoc[NewOrder[q]] - PageLoc[NewOrder[q] - 1]
    BY <2>1
  <2> HIDE DEF s, len
  <2> QED
    BY <1>1, <1>5, <2>1, <2>2
<1>7. DOMAIN s = 1 .. n /\ DOMAIN len = 1 .. n /\ s = [q \in 1 .. n |-> s[q]] /\ len = [q \in 1 .. n |-> len[q]]
  BY <1>3
<1>8. [q \in DOMAIN NewOrder |-> SubSeq(Pages, PageLoc[NewOrder[q] - 1] + 1, PageLoc[NewOrder[q]])] = s
  <2>1. \A q \in 1 .. n : SubSeq(Pages, PageLoc[NewOrder[q] - 1] + 1, PageLoc[NewOrder[q]]) = PagesOf(NewOrder[q])
    BY <1>3, PiecesOfPages
  <2> QED
    BY <1>3, <2>1
<1>9. flat = Pass!FlattenSeq(s)
  BY <1>2, <1>8 DEF Pass!Rearranged
<1>10. indptr = Pass!Cumulated(len)
  BY <1>2
<1>11. r \in 1 .. n
  OBVIOUS
<1> HIDE DEF s, len, flat, S, n
<1>12. s \in [1 .. n -> Seq(S)] /\ len \in [1 .. n -> Nat]
  BY <1>6, <1>7
<1>13. Steps(n, len, indptr)
  <2>1. Len(len) = n
    BY <1>1, <1>12, LenOfColumn
  <2> QED
    BY <1>1, <1>6, <1>10, <2>1, CumulatedSteps
<1>14. Lays(Pass!FlattenSeq(s), S, n, len, indptr, s)
  BY <1>1, <1>6, <1>12, <1>13, FlattenLays
<1>15. SubSeq(flat, indptr[r - 1] + 1, indptr[r]) = s[r]
  <2>1. Lays(flat, S, n, len, indptr, s)
    BY <1>9, <1>14
  <2>2. len[r] # 0 /\ s[r] \in Seq(S) /\ Len(s[r]) = len[r]
    BY <1>6, <1>11
  <2>3. n \in Nat
    BY <1>1
  <2> QED
    BY <1>11, <1>13, <2>1, <2>2, <2>3, LaidPiece
<1> QED
  BY <1>6, <1>11, <1>15 DEF flat

(* Any sort by FlashInfer's keys puts the tokens of a request behind those *)
(* of the request before it in the new order.                              *)
Position(i) == CHOOSE r \in DOMAIN NewOrder : NewOrder[r] = i

LEMMA NewStarts ==
  ASSUME Pass!SwiftKVAssumption, OfBatch, NEW starts, starts = Pass!Cumulated(LogitsIn(NewOrder))
  PROVE  Steps(Len(tokens), LogitsIn(NewOrder), starts)
<1> DEFINE n == Len(tokens)
           len == LogitsIn(NewOrder)
<1>1. n \in Nat /\ \A i \in 1 .. n : tokens[i].logits \in Nat
  BY BatchTypes
<1>2. DOMAIN NewOrder = 1 .. n /\ \A r \in 1 .. n : NewOrder[r] \in 1 .. n
  BY NewOrderOneToOne DEF OneToOne
<1>3. len \in [1 .. n -> Nat]
  BY <1>1, <1>2 DEF LogitsIn
<1> HIDE DEF n, len
<1>4. Len(len) = n /\ \A r \in 1 .. n : len[r] \in Nat
  BY <1>1, <1>3, LenOfColumn
<1> QED
  BY <1>1, <1>4, CumulatedSteps DEF n, len

LEMMA KeysSort ==
  ASSUME Pass!SwiftKVAssumption, OfBatch, meta = Pass!Scheduled,
         NEW starts, Steps(Len(tokens), LogitsIn(NewOrder), starts),
         NEW keys, keys = [k \in DOMAIN meta.logits |-> Position(Pass!ReqOf(meta.logits[k]))]
  PROVE  /\ \A c \in Pass!ArgSorts(keys) :
               /\ OneToOne(c, LogitsLoc[Len(tokens)])
               /\ Gathers(c, Len(tokens), Logits, LogitsLoc, NewOrder, starts)
         /\ starts[Len(tokens)] = LogitsLoc[Len(tokens)]
<1> DEFINE n == Len(tokens)
           all == LogitsLoc[n]
<1>1. n \in Nat /\ Pass!Reqs = 1 .. n /\ \A i \in 1 .. n : Logits[i] = tokens[i].logits
  BY BatchTypes DEF Logits
<1>2. meta.starts = Pass!QueryStartLoc /\ meta.logits = Pass!LogitsIndices
  BY AsScheduled
<1>3. DOMAIN meta.logits = 1 .. all /\ all \in Nat
  BY <1>2, LogitsLaid
<1>4. OneToOne(NewOrder, n) /\ DOMAIN NewOrder = 1 .. n
  BY NewOrderOneToOne
<1>5. \A r \in 1 .. n : NewOrder[r] \in 1 .. n
  BY <1>4 DEF OneToOne
<1>6. Steps(n, Logits, LogitsLoc)
  BY BatchSteps
<1>7. \A r \in 1 .. n : LogitsIn(NewOrder)[r] = Logits[NewOrder[r]]
  BY <1>1, <1>4, <1>5 DEF LogitsIn
<1>8. starts[n] = all /\ \E b : OneToOne(b, all) /\ Moves(b, n, Logits, LogitsLoc, NewOrder, starts)
  <2>1. Steps(n, LogitsIn(NewOrder), starts)
    OBVIOUS
  <2> HIDE DEF n
  <2> QED
    BY <1>1, <1>4, <1>6, <1>7, <2>1, MovesOneToOne
<1>9. PICK b : OneToOne(b, all) /\ Moves(b, n, Logits, LogitsLoc, NewOrder, starts)
  BY <1>8
<1>10. \A r \in 1 .. n : Position(NewOrder[r]) = r
  BY <1>4 DEF OneToOne, Position
<1>11. \A r \in 1 .. n : \A k \in 1 .. Logits[NewOrder[r]] :
          b[starts[r - 1] + k] = LogitsLoc[NewOrder[r] - 1] + k
  BY <1>9 DEF Moves
<1>17. ASSUME NEW i \in 1 .. n, NEW k \in 1 .. tokens[i].logits
       PROVE  keys[LogitsLoc[i - 1] + k] = Position(i)
  <2> DEFINE q == LogitsLoc[i - 1] + k
  <2>1. Pass!ReqOf(meta.logits[q]) = i
    BY <1>2, ReqOfIs
  <2>2. q \in DOMAIN meta.logits
    BY <1>3, TokenOfLogits
  <2> QED
    BY <2>1, <2>2
<1>12. ASSUME NEW r \in 1 .. n, NEW k \in 1 .. Logits[NewOrder[r]]
       PROVE  keys[b[starts[r - 1] + k]] = r
  <2>1. NewOrder[r] \in 1 .. n /\ k \in 1 .. tokens[NewOrder[r]].logits
    BY <1>1, <1>5
  <2>2. keys[LogitsLoc[NewOrder[r] - 1] + k] = Position(NewOrder[r])
    BY <1>17, <2>1
  <2> QED
    BY <1>10, <1>11, <2>2
<1>13. ASSUME NEW x \in 1 .. all
       PROVE  \E r \in 1 .. n : \E k \in 1 .. Logits[NewOrder[r]] : x = starts[r - 1] + k
  <2>1. x \in 1 .. starts[n]
    BY <1>8
  <2>2. \E r \in 1 .. n : \E k \in 1 .. LogitsIn(NewOrder)[r] : x = starts[r - 1] + k
    BY <1>1, <2>1, Located
  <2> QED
    BY <1>7, <2>2
<1>14. Ascends(b, keys, all)
  <2> SUFFICES ASSUME NEW x \in 1 .. all, NEW y \in 1 .. all, x <= y PROVE keys[b[x]] <= keys[b[y]]
    BY DEF Ascends
  <2>1. PICK r \in 1 .. n : \E k \in 1 .. Logits[NewOrder[r]] : x = starts[r - 1] + k
    BY <1>13
  <2>2. PICK k \in 1 .. Logits[NewOrder[r]] : x = starts[r - 1] + k
    BY <2>1
  <2>3. PICK q \in 1 .. n : \E m \in 1 .. Logits[NewOrder[q]] : y = starts[q - 1] + m
    BY <1>13
  <2>4. PICK m \in 1 .. Logits[NewOrder[q]] : y = starts[q - 1] + m
    BY <2>3
  <2>5. keys[b[x]] = r /\ keys[b[y]] = q
    BY <1>12, <2>2, <2>4
  <2>6. k \in 1 .. LogitsIn(NewOrder)[r] /\ m \in 1 .. LogitsIn(NewOrder)[q]
    BY <1>7
  <2>7. y < x <=> (q < r \/ (q = r /\ m < k))
    BY <1>1, <2>2, <2>4, <2>6, PlacesInOrder
  <2>8. ~(y < x)
    BY <1>3
  <2> QED
    BY <2>5, <2>7, <2>8
<1>15. DOMAIN keys = 1 .. all /\ \A y \in 1 .. all : keys[y] \in Nat
  <2>1. ASSUME NEW y \in 1 .. all PROVE keys[y] \in Nat
    <3>1. PICK x \in 1 .. all : b[x] = y
      BY <1>9 DEF OneToOne
    <3>2. PICK r \in 1 .. n : \E k \in 1 .. Logits[NewOrder[r]] : x = starts[r - 1] + k
      BY <1>13
    <3>3. keys[y] = r
      BY <1>12, <3>1, <3>2
    <3> QED
      BY <3>3
  <2> QED
    BY <1>3, <2>1
<1>16. ASSUME NEW c \in Pass!ArgSorts(keys)
       PROVE  OneToOne(c, all) /\ Gathers(c, n, Logits, LogitsLoc, NewOrder, starts)
  <2>1. OneToOne(c, all) /\ Ascends(c, keys, all)
    <3> HIDE DEF all
    <3> QED
      BY <1>3, <1>15, ArgSortOneToOne
  <2>2. ASSUME NEW r \in 1 .. n, NEW k \in 1 .. Logits[NewOrder[r]]
        PROVE  \E m \in 1 .. Logits[NewOrder[r]] : c[starts[r - 1] + k] = LogitsLoc[NewOrder[r] - 1] + m
    <3> DEFINE x == starts[r - 1] + k
    <3>1. x \in 1 .. all
      <4>1. k \in 1 .. LogitsIn(NewOrder)[r]
        BY <1>7
      <4>2. Steps(n, LogitsIn(NewOrder), starts)
        OBVIOUS
      <4>3. x \in 1 .. starts[n]
        <5> HIDE DEF n
        <5> QED
          BY <1>1, <4>1, <4>2, PlaceIn
      <4> QED
        BY <1>8, <4>3
    <3>2. keys[b[x]] = r
      BY <1>12
    <3> HIDE DEF x
    <3>3. keys[c[x]] = r
      <4>1. OneToOne(b, all) /\ Ascends(b, keys, all)
        BY <1>9, <1>14
      <4> HIDE DEF all
      <4>2. keys[c[x]] <= keys[b[x]] /\ keys[b[x]] <= keys[c[x]]
        BY <1>3, <1>15, <2>1, <3>1, <4>1, SortedNoSmaller
      <4>3. keys[c[x]] \in Nat
        BY <1>15, <2>1, <3>1 DEF OneToOne
      <4> QED
        BY <3>2, <4>2, <4>3
    <3>4. c[x] \in 1 .. all
      BY <2>1, <3>1 DEF OneToOne
    <3>5. PICK i \in 1 .. n : \E m \in 1 .. tokens[i].logits : c[x] = LogitsLoc[i - 1] + m
      BY <3>4, LogitsAreOfRequests
    <3>6. PICK m \in 1 .. tokens[i].logits : c[x] = LogitsLoc[i - 1] + m
      BY <3>5
    <3>7. Position(i) = r
      BY <1>17, <3>3, <3>6
    <3>8. NewOrder[r] = i
      <4>1. PICK q \in 1 .. n : NewOrder[q] = i
        BY <1>4 DEF OneToOne
      <4> QED
        BY <1>10, <3>7, <4>1
    <3>9. m \in 1 .. Logits[NewOrder[r]]
      BY <1>1, <3>8
    <3> QED
      BY <3>6, <3>8, <3>9 DEF x
  <2> QED
    BY <2>1, <2>2 DEF Gathers
<1> QED
  BY <1>8, <1>16

-----------------------------------------------------------------------------
(* The steps of a pass.                                                    *)

(* The cache has a slot for every token of a batch.                        *)
LEMMA TokensFit ==
  ASSUME Pass!SwiftKVAssumption, OfBatch
  PROVE  \A t \in DOMAIN Pass!Tokens : t \in Nat /\ t - 1 \in 0 .. NumBlocks - 1
<1> DEFINE n == Len(tokens)
           start == Pass!QueryStartLoc
           Bad == {i \in 0 .. n : ~(start[i] <= i * MaxTokens)}
<1>1. n \in Nat /\ n <= MaxReqs /\ \A i \in 1 .. n : tokens[i].n \in Nat /\ tokens[i].n <= MaxTokens /\ Lengths[i] = tokens[i].n
  <2>1. \A i \in 1 .. n : tokens[i].n \in Nat /\ tokens[i].n \in 1 .. MaxTokens
    BY BatchTypes
  <2>2. \A i \in 1 .. n : Lengths[i] = tokens[i].n
    BY BatchTypes DEF Lengths
  <2> QED
    BY <2>1, <2>2, BatchTypes
<1>2. MaxTokens \in Nat /\ MaxReqs \in Nat /\ NumBlocks \in Nat /\ NumBlocks >= MaxReqs * MaxTokens
  BY DEF Pass!SwiftKVAssumption
<1>3. Steps(n, Lengths, start) /\ DOMAIN Pass!Tokens = 1 .. start[n]
  BY BatchSteps, TokensLaid
<1>4. \A i \in 0 .. n : start[i] \in Nat
  <2> HIDE DEF n, start
  <2> QED
    BY <1>1, <1>3, StepsTypes
<1>5. Bad = {}
  <2> SUFFICES ASSUME Bad # {} PROVE FALSE
    OBVIOUS
  <2>1. PICK i \in Bad : \A m \in Bad : i <= m
    <3> HIDE DEF Bad
    <3>1. Bad \subseteq Nat
      BY DEF Bad
    <3> QED
      BY <3>1, Least
  <2>2. i \in 0 .. n /\ ~(start[i] <= i * MaxTokens)
    OBVIOUS
  <2> DEFINE a == start[i - 1]
             l == Lengths[i]
  <2>3. i # 0
    <3>1. start[0] = 0 /\ 0 * MaxTokens = 0
      BY <1>2, <1>3 DEF Steps
    <3> QED
      BY <2>2, <3>1
  <2>4. i \in 1 .. n /\ i - 1 \in 0 .. n /\ i \in Nat
    BY <1>1, <2>2, <2>3
  <2>5. i - 1 \notin Bad
    <3> HIDE DEF Bad
    <3> QED
      BY <2>1, <2>4
  <2>6. a <= (i - 1) * MaxTokens /\ a \in Nat
    BY <1>4, <2>4, <2>5
  <2>7. start[i] = a + l /\ l \in Nat /\ l <= MaxTokens
    BY <1>1, <1>3, <2>4 DEF Steps
  <2>8. i * MaxTokens = (i - 1) * MaxTokens + MaxTokens /\ (i - 1) * MaxTokens \in Nat
    BY <1>2, <2>4
  <2> HIDE DEF a, l, Bad, start
  <2> QED
    BY <1>2, <2>2, <2>6, <2>7, <2>8
<1>6. start[n] <= n * MaxTokens /\ start[n] \in Nat
  <2>1. n \in 0 .. n
    BY <1>1
  <2> QED
    BY <1>4, <1>5, <2>1
<1> HIDE DEF n, start
<1>7. n * MaxTokens <= MaxReqs * MaxTokens /\ n * MaxTokens \in Nat /\ MaxReqs * MaxTokens \in Nat
  BY <1>1, <1>2
<1>8. start[n] <= NumBlocks
  BY <1>2, <1>6, <1>7
<1> QED
  BY <1>2, <1>3, <1>6, <1>8

(* The keys and values of all tokens go into their slots, where the        *)
(* attention looks for them.                                               *)
Cached == \A t \in DOMAIN Pass!Tokens, kv \in {0, 1} : kvCache[Pass!Cell(kv, t - 1)] = <<Pass!Tokens[t], kv>>

LEMMA TokensAreWritten ==
  ASSUME Pass!SwiftKVAssumption, NumBlocks # 2, OfBatch, meta = Pass!Scheduled,
         NEW t \in DOMAIN Pass!Tokens, NEW kv \in {0, 1}, NEW c, c = Pass!Cell(kv, t - 1)
  PROVE  /\ c \in Pass!Cells
         /\ \A w \in Pass!Written \X {0, 1} :
               Pass!GuessedCell(w[2], meta.slots[w[1]]) = c <=> w = <<t, kv>>
<1>1. backend = "flashinfer" \/ backend = "flash_attention"
  BY DEF OfBatch, Pass!SwiftKVAssumption
<1>2. \A x \in DOMAIN Pass!Tokens : x \in Nat /\ x - 1 \in 0 .. NumBlocks - 1 /\ meta.slots[x] = x - 1
  BY TokensFit, AsScheduled
<1>3. NumBlocks \in Nat
  BY DEF Pass!SwiftKVAssumption
<1>4. \A k, s : Pass!GuessedCell(k, s) = Pass!Cell(k, s)
  BY <1>1, <1>3 DEF Pass!GuessedCell, Pass!Cell, Pass!Shape
<1>5. c \in Pass!Cells
  <2>1. t - 1 \in 0 .. NumBlocks - 1 /\ kv \in 0 .. 1
    BY <1>2
  <2> QED
    BY <1>1, <2>1 DEF Pass!Cells, Pass!Cell, Pass!Shape
<1>6. ASSUME NEW w \in Pass!Written \X {0, 1}
      PROVE  Pass!GuessedCell(w[2], meta.slots[w[1]]) = c <=> w = <<t, kv>>
  <2>1. w = <<w[1], w[2]>> /\ w[1] \in DOMAIN Pass!Tokens /\ w[2] \in {0, 1}
    BY DEF Pass!Written
  <2>2. Pass!GuessedCell(w[2], meta.slots[w[1]]) = Pass!Cell(w[2], w[1] - 1)
    BY <1>2, <1>4, <2>1
  <2>3. Pass!Cell(w[2], w[1] - 1) = Pass!Cell(kv, t - 1) <=> w[2] = kv /\ w[1] - 1 = t - 1
    BY <1>1 DEF Pass!Cell
  <2>4. w[1] \in Nat /\ t \in Nat
    BY <1>2, <2>1
  <2>5. w[1] - 1 = t - 1 <=> w[1] = t
    BY <2>4
  <2> QED
    BY <2>1, <2>2, <2>3, <2>5
<1> QED
  BY <1>5, <1>6

(* What only depends on the batch.                                         *)
LEMMA BatchKept ==
  ASSUME UNCHANGED <<backend, tokens>>
  PROVE  /\ OfBatch' = OfBatch /\ Pass!Reqs' = Pass!Reqs /\ Pass!Tokens' = Pass!Tokens
         /\ Pass!QueryStartLoc' = Pass!QueryStartLoc /\ Pass!LogitsIndices' = Pass!LogitsIndices
         /\ Pass!NumSurviving' = Pass!NumSurviving /\ Pass!Scheduled' = Pass!Scheduled
         /\ Logits' = Logits /\ LogitsLoc' = LogitsLoc
         /\ \A k, s : Pass!Cell(k, s)' = Pass!Cell(k, s)
         /\ \A i : PagesOf(i)' = PagesOf(i)
         /\ \A o : LogitsIn(o)' = LogitsIn(o)
<1> QED
  BY DEF OfBatch, Pass!Reqs, Pass!Tokens, Pass!QueryStartLoc, Pass!LogitsIndices, Pass!NumSurviving,
         Pass!Scheduled, Logits, LogitsLoc, Pass!Cell, PagesOf, LogitsIn

(* Where the rows that are left come from.                                 *)
Sorting == IF backend = "flashinfer" THEN meta.sorted ELSE [q \in 1 .. LogitsLoc[Len(tokens)] |-> q]
Sorted(b) ==
  /\ OneToOne(b, LogitsLoc[Len(tokens)])
  /\ Gathers(b, Len(tokens), Logits, LogitsLoc, meta.order, meta.starts)
  /\ backend = "flash_attention" => Moves(b, Len(tokens), Logits, LogitsLoc, meta.order, meta.starts)
Arrangement ==
  /\ Arranged(meta.order, meta.starts, meta.pages, meta.indptr)
  /\ meta.starts[Len(tokens)] = LogitsLoc[Len(tokens)]
Fields == {"order", "starts", "slots", "pages", "indptr", "decodes", "prefillTokens", "decodeWrapper",
           "prefillWrapper", "logits", "sorted", "inverse"}

PassInv ==
  /\ OfBatch
  /\ stage \in {"prefilled", "written", "classified", "sorted", "fixed", "gathered", "returned"}
  /\ Fields \subseteq DOMAIN meta /\ meta.logits = Pass!LogitsIndices
  /\ stage # "prefilled" => Cached
  /\ stage \in {"prefilled", "written"} => meta = Pass!Scheduled
  /\ stage \notin {"prefilled", "written"} => Arrangement
  /\ stage \in {"classified", "sorted"} => backend = "flashinfer" /\ meta.slots = [t \in DOMAIN Pass!Tokens |-> t - 1]
  /\ stage = "classified" => \A b \in Pass!ArgSorts(meta.sorted) : Sorted(b)
  /\ stage \in {"sorted", "fixed", "gathered"} => Sorted(Sorting)
  /\ stage \in {"fixed", "gathered"} =>
        /\ backend = "flashinfer" => meta.inverse \in Pass!ArgSorts(meta.sorted)
        /\ meta.slots = [q \in 1 .. LogitsLoc[Len(tokens)] |-> Pass!LogitsIndices[Sorting[q]]]
  /\ stage \notin {"gathered", "returned"} => states = Pass!Tokens
  /\ stage = "gathered" =>
        /\ DOMAIN states = 1 .. Pass!PaddedSize
        /\ \A q \in 1 .. LogitsLoc[Len(tokens)] : states[q] = Pass!Tokens[Pass!LogitsIndices[Sorting[q]] + 1]
  /\ stage = "returned" =>
        \A q \in 1 .. LogitsLoc[Len(tokens)] :
            states[Pass!LogitsIndices[q] + 1] = <<"final", Pass!Tokens[Pass!LogitsIndices[q] + 1]>>

(* What the logits indices are of is a token of the batch.                 *)
LEMMA LogitsAreTokens ==
  ASSUME Pass!SwiftKVAssumption, OfBatch, NEW q \in 1 .. LogitsLoc[Len(tokens)]
  PROVE  Pass!LogitsIndices[q] \in Nat /\ Pass!LogitsIndices[q] + 1 \in DOMAIN Pass!Tokens
<1>1. PICK i \in 1 .. Len(tokens) : \E k \in 1 .. tokens[i].logits : q = LogitsLoc[i - 1] + k
  BY LogitsAreOfRequests
<1>2. PICK k \in 1 .. tokens[i].logits : q = LogitsLoc[i - 1] + k
  BY <1>1
<1> QED
  BY <1>2, TokenOfLogits

LEMMA SortingTypes ==
  ASSUME Pass!SwiftKVAssumption, OfBatch, Sorted(Sorting)
  PROVE  /\ \A q \in 1 .. LogitsLoc[Len(tokens)] : Sorting[q] \in 1 .. LogitsLoc[Len(tokens)]
         /\ DOMAIN Sorting = 1 .. LogitsLoc[Len(tokens)]
<1> QED
  BY DEF Sorted, OneToOne

(* A request's rows: what they are of is the request's, and nothing of the *)
(* request is missing.                                                     *)
LEMMA RowsAre ==
  ASSUME Pass!SwiftKVAssumption, PassInv, stage = "gathered", NEW r \in 1 .. Len(tokens)
  PROVE  /\ meta.order[r] \in 1 .. Len(tokens)
         /\ meta.starts[r - 1] \in Nat /\ meta.starts[r] = meta.starts[r - 1] + tokens[meta.order[r]].logits
         /\ meta.starts[r] <= LogitsLoc[Len(tokens)]
         /\ \A k \in 1 .. tokens[meta.order[r]].logits : \E m \in 1 .. tokens[meta.order[r]].logits :
               /\ states[meta.starts[r - 1] + k] = <<meta.order[r], tokens[meta.order[r]].n - tokens[meta.order[r]].logits + m>>
               /\ backend = "flash_attention" => m = k
         /\ \A m \in 1 .. tokens[meta.order[r]].logits : \E k \in 1 .. tokens[meta.order[r]].logits :
               states[meta.starts[r - 1] + k] = <<meta.order[r], tokens[meta.order[r]].n - tokens[meta.order[r]].logits + m>>
<1> DEFINE n == Len(tokens)
           all == LogitsLoc[n]
           i == meta.order[r]
           a == meta.starts[r - 1]
           l == tokens[i].logits
           first == tokens[i].n - tokens[i].logits
<1>1. /\ OfBatch /\ Arrangement /\ Sorted(Sorting)
      /\ \A q \in 1 .. all : states[q] = Pass!Tokens[Pass!LogitsIndices[Sorting[q]] + 1]
  BY DEF PassInv
<1>2. n \in Nat /\ \A j \in 1 .. n : tokens[j].logits \in Nat \ {0} /\ Logits[j] = tokens[j].logits
  BY <1>1, BatchTypes DEF Logits
<1>3. /\ DOMAIN meta.order = 1 .. n /\ OneToOne(meta.order, n)
      /\ Steps(n, LogitsIn(meta.order), meta.starts)
      /\ meta.starts[n] = all
  BY <1>1 DEF Arrangement, Arranged
<1>4. \A q \in 1 .. n : meta.order[q] \in 1 .. n /\ LogitsIn(meta.order)[q] = Logits[meta.order[q]]
  BY <1>2, <1>3 DEF OneToOne, LogitsIn
<1>5. i \in 1 .. n /\ LogitsIn(meta.order)[r] = l /\ Logits[i] = l /\ l \in Nat \ {0}
  BY <1>2, <1>4
<1>6. \A q \in 1 .. n : \A k \in 1 .. Logits[meta.order[q]] : meta.starts[q - 1] + k \in 1 .. all
  <2> DEFINE start == meta.starts
             len == LogitsIn(meta.order)
  <2> SUFFICES ASSUME NEW q \in 1 .. n, NEW k \in 1 .. Logits[meta.order[q]] PROVE start[q - 1] + k \in 1 .. start[n]
    BY <1>3
  <2>1. n \in Nat /\ Steps(n, len, start) /\ k \in 1 .. len[q]
    BY <1>2, <1>3, <1>4
  <2> HIDE DEF n, start, len
  <2> QED
    BY <2>1, PlaceIn
<1>7. a \in Nat /\ meta.starts[r] = a + l /\ meta.starts[r] <= all
  <2> DEFINE start == meta.starts
             len == LogitsIn(meta.order)
  <2>1. n \in Nat /\ Steps(n, len, start) /\ r \in 1 .. n /\ 1 \in 1 .. len[r]
    BY <1>2, <1>3, <1>5
  <2> HIDE DEF n, start, len, l
  <2>2. start[r - 1] \in Nat /\ start[r] = start[r - 1] + len[r] /\ start[r] <= start[n]
    BY <2>1, PlaceIn
  <2> QED
    BY <1>3, <1>5, <2>2 DEF start, len
<1>8. \A q \in 1 .. n : \A m \in 1 .. Logits[q] :
         Pass!Tokens[Pass!LogitsIndices[LogitsLoc[q - 1] + m] + 1] = <<q, tokens[q].n - tokens[q].logits + m>>
  BY <1>1, <1>2, TokenOfLogits
<1>9. ASSUME NEW k \in 1 .. l
      PROVE  \E m \in 1 .. l : states[a + k] = <<i, first + m>> /\ (backend = "flash_attention" => m = k)
  <2>1. a + k \in 1 .. all
    BY <1>5, <1>6
  <2>2. k \in 1 .. Logits[i]
    BY <1>5
  <2>3. PICK m \in 1 .. Logits[i] : Sorting[a + k] = LogitsLoc[i - 1] + m
    BY <1>1, <2>2 DEF Sorted, Gathers
  <2>4. states[a + k] = <<i, first + m>>
    BY <1>1, <1>5, <1>8, <2>1, <2>3
  <2>5. CASE backend = "flash_attention"
    <3>1. Sorting[a + k] = LogitsLoc[i - 1] + k
      BY <1>1, <2>2, <2>5 DEF Sorted, Moves
    <3>2. states[a + k] = <<i, first + k>>
      BY <1>1, <1>5, <1>8, <2>1, <2>2, <3>1
    <3> QED
      BY <3>2
  <2> QED
    BY <1>5, <2>4, <2>5
<1>10. ASSUME NEW m \in 1 .. l
       PROVE  \E k \in 1 .. l : states[a + k] = <<i, first + m>>
  <2> DEFINE at == LogitsLoc[i - 1] + m
  <2>1. m \in 1 .. Logits[i] /\ m \in 1 .. tokens[i].logits
    BY <1>5
  <2>2. at \in 1 .. all
    BY <1>1, <1>5, <2>1, TokenOfLogits
  <2> HIDE DEF at
  <2>3. PICK x \in 1 .. all : Sorting[x] = at
    BY <1>1, <2>2 DEF Sorted, OneToOne
  <2>4. PICK q \in 1 .. n : \E k \in 1 .. LogitsIn(meta.order)[q] : x = meta.starts[q - 1] + k
    <3> DEFINE start == meta.starts
               len == LogitsIn(meta.order)
    <3>1. n \in Nat /\ Steps(n, len, start) /\ x \in 1 .. start[n]
      BY <1>2, <1>3
    <3> HIDE DEF n, start, len
    <3>2. \E q \in 1 .. n : \E k \in 1 .. len[q] : x = start[q - 1] + k
      BY <3>1, Located
    <3> QED
      BY <3>2 DEF n, start, len
  <2>5. PICK k \in 1 .. Logits[meta.order[q]] : x = meta.starts[q - 1] + k
    BY <1>4, <2>4
  <2>6. PICK p \in 1 .. Logits[meta.order[q]] : Sorting[x] = LogitsLoc[meta.order[q] - 1] + p
    BY <1>1, <2>5 DEF Sorted, Gathers
  <2>7. states[x] = <<i, first + m>>
    BY <1>1, <1>5, <1>8, <2>1, <2>3 DEF at
  <2>8. states[x] = <<meta.order[q], tokens[meta.order[q]].n - tokens[meta.order[q]].logits + p>>
    <3>1. meta.order[q] \in 1 .. n /\ p \in 1 .. Logits[meta.order[q]]
      BY <1>4
    <3>2. Pass!Tokens[Pass!LogitsIndices[LogitsLoc[meta.order[q] - 1] + p] + 1]
             = <<meta.order[q], tokens[meta.order[q]].n - tokens[meta.order[q]].logits + p>>
      BY <1>8, <3>1
    <3>3. states[x] = Pass!Tokens[Pass!LogitsIndices[Sorting[x]] + 1]
      BY <1>1
    <3> QED
      BY <2>6, <3>2, <3>3
  <2>9. meta.order[q] = i
    BY <2>7, <2>8
  <2>10. q = r
    BY <1>3, <2>9 DEF OneToOne
  <2>11. k \in 1 .. l /\ x = a + k
    BY <1>5, <2>5, <2>10
  <2> QED
    BY <2>7, <2>11
<1> QED
  BY <1>5, <1>7, <1>9, <1>10

LEMMA RowsAreOfTheirRequest ==
  ASSUME Pass!SwiftKVAssumption, PassInv
  PROVE  Pass!RowsKeepTheirRequest /\ (backend = "flash_attention" => Pass!RowsInOrder)
<1> SUFFICES ASSUME stage = "gathered", NEW r \in DOMAIN meta.order
             PROVE  LET i == meta.order[r]
                        first == tokens[i].n - tokens[i].logits + 1
                    IN  /\ {states[k] : k \in Pass!RowsOf(r)} = {<<i, j>> : j \in first .. tokens[i].n}
                        /\ Pass!Cardinality(Pass!RowsOf(r)) = tokens[i].logits
                        /\ \A k \in Pass!RowsOf(r) : Pass!Tokens[meta.slots[k] + 1] = states[k]
                        /\ SubSeq(meta.pages, meta.indptr[r - 1] + 1, meta.indptr[r])
                              = [p \in 1 .. tokens[i].pages |-> <<i, p>>]
                        /\ backend = "flash_attention" =>
                              \A j, k \in Pass!RowsOf(r) : j < k => states[j][2] < states[k][2]
  BY DEF Pass!RowsKeepTheirRequest, Pass!RowsInOrder
<1> DEFINE n == Len(tokens)
           all == LogitsLoc[n]
           i == meta.order[r]
           a == meta.starts[r - 1]
           l == tokens[i].logits
           m == tokens[i].n
<1>1. /\ OfBatch /\ Arrangement
      /\ meta.slots = [q \in 1 .. all |-> Pass!LogitsIndices[Sorting[q]]]
      /\ \A q \in 1 .. all : states[q] = Pass!Tokens[Pass!LogitsIndices[Sorting[q]] + 1]
  BY DEF PassInv
<1>2. /\ r \in 1 .. n
      /\ SubSeq(meta.pages, meta.indptr[r - 1] + 1, meta.indptr[r]) = PagesOf(i)
  BY <1>1 DEF Arrangement, Arranged
<1>3. /\ i \in 1 .. n /\ a \in Nat /\ meta.starts[r] = a + l /\ a + l <= all
      /\ \A k \in 1 .. l : \E p \in 1 .. l :
            states[a + k] = <<i, m - l + p>> /\ (backend = "flash_attention" => p = k)
      /\ \A p \in 1 .. l : \E k \in 1 .. l : states[a + k] = <<i, m - l + p>>
  BY <1>2, RowsAre
<1>4. l \in Nat \ {0} /\ m \in Nat /\ all \in Nat
  BY <1>1, <1>3, BatchTypes, LogitsLaid
<1>5. Pass!RowsOf(r) = a + 1 .. a + l
  BY <1>3 DEF Pass!RowsOf
<1> HIDE DEF n, all, i, a, l, m
<1>6. \A k \in a + 1 .. a + l : k - a \in 1 .. l /\ a + (k - a) = k /\ k \in 1 .. all
  BY <1>3, <1>4
<1>7. {states[k] : k \in a + 1 .. a + l} = {<<i, j>> : j \in m - l + 1 .. m}
  <2>1. ASSUME NEW k \in a + 1 .. a + l PROVE \E j \in m - l + 1 .. m : states[k] = <<i, j>>
    <3>1. PICK p \in 1 .. l : states[k] = <<i, m - l + p>>
      BY <1>3, <1>6
    <3>2. m - l + p \in m - l + 1 .. m
      BY <1>4
    <3> QED
      BY <3>1, <3>2
  <2>2. ASSUME NEW j \in m - l + 1 .. m PROVE \E k \in a + 1 .. a + l : states[k] = <<i, j>>
    <3>1. j - (m - l) \in 1 .. l /\ m - l + (j - (m - l)) = j
      BY <1>4
    <3>2. PICK k \in 1 .. l : states[a + k] = <<i, j>>
      BY <1>3, <3>1
    <3>3. a + k \in a + 1 .. a + l
      BY <1>3, <1>4
    <3> QED
      BY <3>2, <3>3
  <2> QED
    BY <2>1, <2>2
<1>8. Pass!Cardinality(a + 1 .. a + l) = l
  <2>1. Pass!Cardinality(a + 1 .. a + l) = Cardinality(a + 1 .. a + l)
    BY Zenon DEF Pass!Cardinality, Cardinality
  <2>2. a + 1 \in Int /\ a + l \in Int
    BY <1>3, <1>4
  <2>3. Cardinality(a + 1 .. a + l) = IF a + 1 > a + l THEN 0 ELSE (a + l) - (a + 1) + 1
    <3> DEFINE b == a + 1
               c == a + l
    <3>1. b \in Int /\ c \in Int
      BY <2>2
    <3> HIDE DEF b, c
    <3>2. Cardinality(b .. c) = IF b > c THEN 0 ELSE c - b + 1
      BY <3>1, FS_Interval
    <3> QED
      BY <3>2 DEF b, c
  <2> QED
    BY <1>3, <1>4, <2>1, <2>3
<1>9. \A k \in a + 1 .. a + l : Pass!Tokens[meta.slots[k] + 1] = states[k]
  BY <1>1, <1>6 DEF all, n
<1>10. ASSUME backend = "flash_attention", NEW j \in a + 1 .. a + l, NEW k \in a + 1 .. a + l, j < k
       PROVE  states[j][2] < states[k][2]
  <2>1. j - a \in 1 .. l /\ k - a \in 1 .. l /\ a + (j - a) = j /\ a + (k - a) = k
    BY <1>6
  <2>2. \A x \in 1 .. l : states[a + x] = <<i, m - l + x>>
    BY <1>3, <1>10
  <2>3. states[j] = <<i, m - l + (j - a)>> /\ states[k] = <<i, m - l + (k - a)>>
    BY <2>1, <2>2
  <2>4. m - l + (j - a) < m - l + (k - a)
    BY <1>3, <1>4, <1>10
  <2> QED
    BY <2>3, <2>4
<1>11. SubSeq(meta.pages, meta.indptr[r - 1] + 1, meta.indptr[r]) = [p \in 1 .. tokens[i].pages |-> <<i, p>>]
  BY <1>2 DEF PagesOf
<1> QED
  BY <1>5, <1>7, <1>8, <1>9, <1>10, <1>11 DEF i, l, m

(* What is shown of a pass follows from the invariant.                     *)
LEMMA InvSuffices ==
  ASSUME Pass!SwiftKVAssumption, PassInv
  PROVE  /\ Pass!TypeOK /\ Pass!RowsKeepTheirRequest /\ Pass!DroppedTokensAreCached /\ Pass!ResultsGoBack
         /\ backend = "flash_attention" => Pass!RowsInOrder
<1> DEFINE n == Len(tokens)
           all == LogitsLoc[n]
<1>1. OfBatch
  BY DEF PassInv
<1>2. n \in Nat /\ Pass!Reqs = 1 .. n
  BY <1>1, BatchTypes
<1>3. Pass!NumSurviving = all /\ all \in Nat
  BY <1>1, LogitsLaid
<1>4. Len(meta.order) = n /\ meta.starts[0] = 0
  <2>1. CASE stage \in {"prefilled", "written"}
    <3>1. meta = Pass!Scheduled
      BY <2>1 DEF PassInv
    <3>2. meta.order = Keep /\ meta.starts = Pass!QueryStartLoc
      BY <3>1, AsScheduled
    <3>3. Keep \in [1 .. n -> 1 .. n]
      BY <1>2 DEF Keep
    <3>4. Len(Keep) = n
      <4> HIDE DEF n
      <4> QED
        BY <1>2, <3>3, LenOfColumn
    <3>5. Pass!QueryStartLoc[0] = 0
      BY <1>1, BatchSteps DEF Steps
    <3> QED
      BY <3>2, <3>4, <3>5
  <2>2. CASE stage \notin {"prefilled", "written"}
    BY <2>2 DEF PassInv, Arrangement, Arranged, Steps
  <2> QED
    BY <2>1, <2>2
<1>5. stage \in {"fixed", "gathered"} => Len(meta.slots) = all /\ meta.starts[n] = all
  <2> SUFFICES ASSUME stage \in {"fixed", "gathered"} PROVE Len(meta.slots) = all /\ meta.starts[n] = all
    OBVIOUS
  <2>1. meta.starts[n] = all /\ Sorted(Sorting) /\ meta.slots = [q \in 1 .. all |-> Pass!LogitsIndices[Sorting[q]]]
    BY DEF PassInv, Arrangement
  <2>2. \A q \in 1 .. all : Pass!LogitsIndices[Sorting[q]] \in Nat
    BY <1>1, <2>1, SortingTypes, LogitsAreTokens
  <2>3. meta.slots \in [1 .. all -> Nat]
    BY <2>1, <2>2
  <2> HIDE DEF all
  <2> QED
    BY <1>3, <2>1, <2>3, LenOfColumn
<1>6. stage = "gathered" => Len(states) >= all
  <2> SUFFICES ASSUME stage = "gathered" PROVE Len(states) >= all
    OBVIOUS
  <2>1. DOMAIN states = 1 .. Pass!PaddedSize
    BY DEF PassInv
  <2>2. Pass!PaddedSize \in Nat /\ Pass!PaddedSize >= all
    <3> HIDE DEF all
    <3> QED
      BY <1>3 DEF Pass!PaddedSize
  <2>3. Len(states) = Pass!PaddedSize
    BY <2>1, <2>2, LenProperties
  <2> QED
    BY <2>2, <2>3
<1>7. Pass!TypeOK
  <2>1. stage \in {"prefilled", "written", "classified", "sorted", "fixed", "gathered", "returned"}
    BY DEF PassInv
  <2> HIDE DEF all
  <2> QED
    BY <1>3, <1>4, <1>5, <1>6, <2>1 DEF Pass!TypeOK
<1>8. Pass!DroppedTokensAreCached
  BY DEF PassInv, Cached, Pass!DroppedTokensAreCached
<1>9. Pass!ResultsGoBack
  BY <1>3 DEF PassInv, Pass!ResultsGoBack
<1> QED
  BY <1>7, <1>8, <1>9, RowsAreOfTheirRequest

LEMMA PartsKept ==
  ASSUME UNCHANGED <<backend, tokens, meta>>
  PROVE  /\ Arrangement' = Arrangement /\ Sorted(Sorting)' = Sorted(Sorting) /\ Sorting' = Sorting
         /\ (\A b \in Pass!ArgSorts(meta.sorted) : Sorted(b))' = (\A b \in Pass!ArgSorts(meta.sorted) : Sorted(b))
<1> QED
  BY DEF Arrangement, Arranged, Sorted, Sorting, Moves, Gathers, LogitsIn, PagesOf, Logits, LogitsLoc, Pass!Reqs

LEMMA CachedKept == ASSUME UNCHANGED <<backend, tokens, kvCache>> PROVE Cached' = Cached
<1>1. Pass!Tokens' = Pass!Tokens
  BY BatchKept
<1> QED
  BY <1>1 DEF Cached, Pass!Cell

LEMMA WriteKvKeeps == ASSUME Pass!SwiftKVAssumption, NumBlocks # 2, PassInv, Pass!WriteKv PROVE PassInv'
<1>1. stage = "prefilled" /\ stage' = "written" /\ UNCHANGED <<backend, tokens, meta, states>>
  BY DEF Pass!WriteKv
<1>2. OfBatch /\ meta = Pass!Scheduled
  BY <1>1 DEF PassInv
<1> DEFINE Here(c) == {w \in Pass!Written \X {0, 1} : Pass!GuessedCell(w[2], meta.slots[w[1]]) = c}
           Value(w) == <<Pass!Tokens[w[1]], w[2]>>
<1>3. kvCache' = [c \in Pass!Cells |-> IF Here(c) = {} THEN kvCache[c] ELSE Value(CHOOSE w \in Here(c) : TRUE)]
  BY DEF Pass!WriteKv
<1>4. ASSUME NEW t \in DOMAIN Pass!Tokens, NEW kv \in {0, 1}
      PROVE  kvCache'[Pass!Cell(kv, t - 1)] = <<Pass!Tokens[t], kv>>
  <2> DEFINE c == Pass!Cell(kv, t - 1)
  <2>1. /\ c \in Pass!Cells
        /\ \A w \in Pass!Written \X {0, 1} :
              Pass!GuessedCell(w[2], meta.slots[w[1]]) = c <=> w = <<t, kv>>
    BY <1>2, TokensAreWritten
  <2> HIDE DEF c
  <2>2. <<t, kv>> \in Pass!Written \X {0, 1}
    BY DEF Pass!Written
  <2>3. Here(c) = {<<t, kv>>}
    BY <2>1, <2>2
  <2> HIDE DEF Here
  <2>4. (CHOOSE w \in Here(c) : TRUE) = <<t, kv>>
    BY <2>3
  <2>5. Here(c) # {}
    BY <2>3
  <2>6. kvCache'[c] = Value(<<t, kv>>)
    <3> HIDE DEF Value
    <3> QED
      BY <1>3, <2>1, <2>4, <2>5
  <2> QED
    BY <2>6 DEF c
<1>5. Cached'
  <2>1. Pass!Tokens' = Pass!Tokens /\ \A k, s : Pass!Cell(k, s)' = Pass!Cell(k, s)
    BY <1>1, BatchKept
  <2> HIDE DEF Here, Value
  <2> QED
    BY <1>4, <2>1 DEF Cached
<1>6. OfBatch' = OfBatch /\ Pass!Scheduled' = Pass!Scheduled /\ Pass!LogitsIndices' = Pass!LogitsIndices /\ Pass!Tokens' = Pass!Tokens
  BY <1>1, BatchKept
<1> HIDE DEF Here, Value
<1> QED
  BY <1>1, <1>2, <1>5, <1>6 DEF PassInv, Fields

LEMMA FlashKeeps == ASSUME Pass!SwiftKVAssumption, PassInv, Pass!FixFlashAttention PROVE PassInv'
<1> DEFINE all == LogitsLoc[Len(tokens)]
<1>1. /\ stage = "written" /\ backend = "flash_attention" /\ stage' = "fixed"
      /\ UNCHANGED <<backend, tokens, kvCache, states>>
  BY DEF Pass!FixFlashAttention
<1>2. OfBatch /\ meta = Pass!Scheduled /\ Cached /\ meta.logits = Pass!LogitsIndices /\ states = Pass!Tokens
  BY <1>1 DEF PassInv
<1>3. meta' = [meta EXCEPT !.starts = [i \in DOMAIN @ |-> Pass!SearchSorted(@[i])],
                           !.slots = [k \in DOMAIN meta.logits |-> @[meta.logits[k] + 1]]]
  BY DEF Pass!FixFlashAttention
<1>4. /\ DOMAIN meta' = DOMAIN meta
      /\ meta'.starts = [i \in DOMAIN meta.starts |-> Pass!SearchSorted(meta.starts[i])]
      /\ meta'.slots = [k \in DOMAIN meta.logits |-> meta.slots[meta.logits[k] + 1]]
      /\ meta'.order = meta.order /\ meta'.pages = meta.pages /\ meta'.indptr = meta.indptr
      /\ meta'.logits = meta.logits
  <2>1. Fields = DOMAIN meta
    BY <1>2, AsScheduled DEF Fields
  <2> QED
    BY <1>3, <2>1 DEF Fields
<1>5. /\ Arranged(meta.order, meta'.starts, meta.pages, meta.indptr)
      /\ Moves([q \in 1 .. all |-> q], Len(tokens), Logits, LogitsLoc, meta.order, meta'.starts)
  BY <1>2, <1>4, KeepArranged
<1>6. all \in Nat /\ DOMAIN Pass!LogitsIndices = 1 .. all
  BY <1>2, LogitsLaid
<1>7. OneToOne([q \in 1 .. all |-> q], all)
  <2> HIDE DEF all
  <2> QED
    BY DEF OneToOne
<1>8. meta'.starts[Len(tokens)] = all
  <2>1. Len(tokens) \in 0 .. Len(tokens) /\ DOMAIN Pass!QueryStartLoc = 0 .. Len(tokens)
    BY <1>2, BatchTypes, BatchSteps
  <2>2. meta.starts = Pass!QueryStartLoc
    BY <1>2, AsScheduled
  <2>3. meta'.starts[Len(tokens)] = Pass!SearchSorted(Pass!QueryStartLoc[Len(tokens)])
    BY <1>4, <2>1, <2>2
  <2> QED
    BY <1>2, <2>1, <2>3, SearchSortedIs
<1>9. meta'.slots = [q \in 1 .. all |-> Pass!LogitsIndices[q]]
  <2>1. \A q \in 1 .. all : Pass!LogitsIndices[q] \in Nat /\ Pass!LogitsIndices[q] + 1 \in DOMAIN Pass!Tokens
    BY <1>2, LogitsAreTokens
  <2>2. meta.slots = [t \in DOMAIN Pass!Tokens |-> t - 1]
    BY <1>2, AsScheduled
  <2>3. \A q \in 1 .. all : meta.slots[Pass!LogitsIndices[q] + 1] = Pass!LogitsIndices[q]
    <3> SUFFICES ASSUME NEW q \in 1 .. all PROVE meta.slots[Pass!LogitsIndices[q] + 1] = Pass!LogitsIndices[q]
      OBVIOUS
    <3> DEFINE at == Pass!LogitsIndices[q]
    <3>1. at \in Nat /\ at + 1 \in DOMAIN Pass!Tokens
      BY <2>1
    <3> HIDE DEF at
    <3>2. meta.slots[at + 1] = at + 1 - 1 /\ at + 1 - 1 = at
      BY <2>2, <3>1
    <3> QED
      BY <3>2 DEF at
  <2> QED
    BY <1>2, <1>4, <1>6, <2>3
<1>10. /\ OfBatch' = OfBatch /\ Pass!LogitsIndices' = Pass!LogitsIndices /\ Pass!Tokens' = Pass!Tokens
       /\ Logits' = Logits /\ LogitsLoc' = LogitsLoc /\ Cached' = Cached
  BY <1>1, BatchKept, CachedKept
<1>11. Arrangement'
  <2>1. meta'.starts[Len(tokens)]= LogitsLoc[Len(tokens)]
    BY <1>8
  <2> QED
    BY <1>1, <1>4, <1>5, <1>10, <2>1 DEF Arrangement, Arranged, LogitsIn, PagesOf
<1>12. Sorting' = [q \in 1 .. all |-> q]
  BY <1>1, <1>10 DEF Sorting
<1>13. Sorted(Sorting)'
  <2> DEFINE b == [q \in 1 .. all |-> q]
  <2>0. OneToOne(b, all) /\ Moves(b, Len(tokens), Logits, LogitsLoc, meta'.order, meta'.starts)
    BY <1>4, <1>5, <1>7
  <2> HIDE DEF b
  <2>1. /\ OneToOne(b, all) /\ Moves(b, Len(tokens), Logits, LogitsLoc, meta'.order, meta'.starts)
        /\ Gathers(b, Len(tokens), Logits, LogitsLoc, meta'.order, meta'.starts)
    BY <2>0, MovesGather
  <2>2. /\ OneToOne(b, LogitsLoc'[Len(tokens')]) /\ Moves(b, Len(tokens'), Logits', LogitsLoc', meta'.order, meta'.starts)
        /\ Gathers(b, Len(tokens'), Logits', LogitsLoc', meta'.order, meta'.starts)
    BY <1>1, <1>10, <2>1
  <2>3. Sorting' = b
    BY <1>12 DEF b
  <2>4. /\ OneToOne(Sorting', LogitsLoc'[Len(tokens')])
        /\ Moves(Sorting', Len(tokens'), Logits', LogitsLoc', meta'.order, meta'.starts)
        /\ Gathers(Sorting', Len(tokens'), Logits', LogitsLoc', meta'.order, meta'.starts)
    BY <2>2, <2>3
  <2> QED
    BY <2>4 DEF Sorted
<1>14. meta'.slots = [q \in 1 .. LogitsLoc'[Len(tokens')] |-> Pass!LogitsIndices'[Sorting'[q]]]
  BY <1>1, <1>9, <1>10, <1>12
<1> HIDE DEF all
<1>15. Fields \subseteq DOMAIN meta'
  BY <1>4 DEF PassInv
<1> QED
  BY <1>1, <1>2, <1>4, <1>10, <1>11, <1>13, <1>14, <1>15 DEF PassInv, Fields

LEMMA ClassifyKeeps == ASSUME Pass!SwiftKVAssumption, PassInv, Pass!Classify PROVE PassInv'
<1> DEFINE n == Len(tokens)
           order == Pass!DecodeReqs \o Pass!PrefillReqs
           position == [i \in Pass!Reqs |-> CHOOSE r \in DOMAIN order : order[r] = i]
<1>1. /\ stage = "written" /\ backend = "flashinfer" /\ stage' = "classified"
      /\ UNCHANGED <<backend, tokens, kvCache, states>>
  BY DEF Pass!Classify
<1>2. OfBatch /\ meta = Pass!Scheduled /\ Cached /\ meta.logits = Pass!LogitsIndices /\ states = Pass!Tokens
  BY <1>1 DEF PassInv
<1>3. meta' = [meta EXCEPT
                  !.order = order,
                  !.starts = Pass!Cumulated([r \in DOMAIN order |-> Pass!Surviving(order[r])]),
                  !.pages = Pass!Rearranged(order),
                  !.indptr = Pass!Cumulated([r \in DOMAIN order |-> @[order[r]] - @[order[r] - 1]]),
                  !.decodes = Len(Pass!DecodeReqs),
                  !.prefillTokens = Len(Pass!PrefillReqs),
                  !.sorted = [k \in DOMAIN meta.logits |-> position[Pass!ReqOf(meta.logits[k])]]]
  BY DEF Pass!Classify
<1>4. order = NewOrder /\ \A r \in 1 .. n : Pass!Surviving(NewOrder[r]) = LogitsIn(NewOrder)[r]
  BY <1>2, NewOrderIs
<1>5. DOMAIN NewOrder = 1 .. n /\ OneToOne(NewOrder, n) /\ Len(NewOrder) = n
  BY <1>2, NewOrderOneToOne
<1> HIDE DEF order
<1>6. /\ DOMAIN meta' = DOMAIN meta /\ meta'.order = order
      /\ meta'.starts = Pass!Cumulated([r \in DOMAIN order |-> Pass!Surviving(order[r])])
      /\ meta'.pages = Pass!Rearranged(order)
      /\ meta'.indptr = Pass!Cumulated([r \in DOMAIN order |-> meta.indptr[order[r]] - meta.indptr[order[r] - 1]])
      /\ meta'.sorted = [k \in DOMAIN meta.logits |-> position[Pass!ReqOf(meta.logits[k])]]
      /\ meta'.slots = meta.slots /\ meta'.logits = meta.logits
  <2>1. Fields = DOMAIN meta
    BY <1>2, AsScheduled DEF Fields
  <2> HIDE DEF position
  <2> QED
    BY <1>3, <2>1 DEF Fields
<1>7. Steps(n, LogitsIn(NewOrder), meta'.starts)
  <2>1. [r \in DOMAIN order |-> Pass!Surviving(order[r])] = LogitsIn(NewOrder)
    <3>1. DOMAIN LogitsIn(NewOrder) = 1 .. n /\ LogitsIn(NewOrder) = [r \in 1 .. n |-> LogitsIn(NewOrder)[r]]
      BY <1>5 DEF LogitsIn
    <3> QED
      BY <1>4, <1>5, <3>1
  <2>2. meta'.starts = Pass!Cumulated(LogitsIn(NewOrder))
    BY <1>6, <2>1
  <2> QED
    BY <1>2, <2>2, NewStarts
<1>8. \A r \in 1 .. n : SubSeq(meta'.pages, meta'.indptr[r - 1] + 1, meta'.indptr[r]) = PagesOf(NewOrder[r])
  <2>1. meta'.indptr = Pass!Cumulated([r \in DOMAIN NewOrder |-> meta.indptr[NewOrder[r]] - meta.indptr[NewOrder[r] - 1]])
    BY <1>4, <1>6
  <2>2. meta'.pages = Pass!Rearranged(NewOrder)
    BY <1>4, <1>6
  <2>3. \A r \in 1 .. n : SubSeq(Pass!Rearranged(NewOrder), meta'.indptr[r - 1] + 1, meta'.indptr[r]) = PagesOf(NewOrder[r])
    BY <1>2, <2>1, NewPieces
  <2> QED
    BY <2>2, <2>3
<1>9. Arranged(meta'.order, meta'.starts, meta'.pages, meta'.indptr)
  <2>1. Arranged(NewOrder, meta'.starts, meta'.pages, meta'.indptr)
    BY <1>5, <1>7, <1>8 DEF Arranged
  <2> QED
    BY <1>4, <1>6, <2>1
<1>10. meta'.sorted = [k \in DOMAIN meta.logits |-> Position(Pass!ReqOf(meta.logits[k]))]
  <2>1. DOMAIN meta.logits = 1 .. LogitsLoc[n]
    BY <1>2, LogitsLaid
  <2>2. ASSUME NEW k \in 1 .. LogitsLoc[n]
        PROVE  position[Pass!ReqOf(meta.logits[k])] = Position(Pass!ReqOf(meta.logits[k]))
    <3>1. PICK i \in 1 .. n : \E j \in 1 .. tokens[i].logits : k = LogitsLoc[i - 1] + j
      BY <1>2, LogitsAreOfRequests
    <3>2. PICK j \in 1 .. tokens[i].logits : k = LogitsLoc[i - 1] + j
      BY <3>1
    <3>3. meta.starts = Pass!QueryStartLoc
      BY <1>2, AsScheduled
    <3>4. Pass!ReqOf(meta.logits[k]) = i
      BY <1>2, <3>2, <3>3, ReqOfIs
    <3>5. i \in Pass!Reqs
      BY <1>2, BatchTypes
    <3>6. position[i] = CHOOSE r \in DOMAIN order : order[r] = i
      BY <3>5
    <3>7. position[i] = Position(i)
      BY <1>4, <3>6 DEF Position
    <3> QED
      BY <3>4, <3>7
  <2> HIDE DEF position
  <2> QED
    BY <1>6, <2>1, <2>2
<1> HIDE DEF position
<1>11. /\ \A b \in Pass!ArgSorts(meta'.sorted) :
             OneToOne(b, LogitsLoc[n]) /\ Gathers(b, n, Logits, LogitsLoc, NewOrder, meta'.starts)
       /\ meta'.starts[n] = LogitsLoc[n]
  BY <1>2, <1>7, <1>10, KeysSort
<1>12. /\ OfBatch' = OfBatch /\ Pass!LogitsIndices' = Pass!LogitsIndices /\ Pass!Tokens' = Pass!Tokens
       /\ Logits' = Logits /\ LogitsLoc' = LogitsLoc /\ Cached' = Cached
  BY <1>1, BatchKept, CachedKept
<1>13. Arrangement'
  BY <1>1, <1>9, <1>11, <1>12 DEF Arrangement, Arranged, LogitsIn, PagesOf
<1>14. (\A b \in Pass!ArgSorts(meta.sorted) : Sorted(b))'
  <2>1. Pass!ArgSorts(meta.sorted)' = Pass!ArgSorts(meta'.sorted)
    BY DEF Pass!ArgSorts
  <2> SUFFICES ASSUME NEW b \in Pass!ArgSorts(meta'.sorted) PROVE Sorted(b)'
    BY <2>1
  <2>2. OneToOne(b, LogitsLoc[n]) /\ Gathers(b, n, Logits, LogitsLoc, meta'.order, meta'.starts)
    BY <1>4, <1>6, <1>11
  <2>3. OneToOne(b, LogitsLoc'[Len(tokens')]) /\ Gathers(b, Len(tokens'), Logits', LogitsLoc', meta'.order, meta'.starts)
    BY <1>1, <1>12, <2>2
  <2>4. backend' # "flash_attention"
    BY <1>1
  <2> QED
    BY <2>3, <2>4 DEF Sorted
<1>15. meta'.slots = [t \in DOMAIN Pass!Tokens' |-> t - 1]
  BY <1>2, <1>6, <1>12, AsScheduled
<1>16. Fields \subseteq DOMAIN meta'
  BY <1>6 DEF PassInv
<1> QED
  BY <1>1, <1>2, <1>6, <1>12, <1>13, <1>14, <1>15, <1>16 DEF PassInv, Fields

LEMMA SortTokensKeeps == ASSUME Pass!SwiftKVAssumption, PassInv, Pass!SortTokens PROVE PassInv'
<1>1. /\ stage = "classified" /\ stage' = "sorted" /\ backend = "flashinfer"
      /\ UNCHANGED <<backend, tokens, kvCache, states>>
  BY DEF Pass!SortTokens, PassInv
<1>0. PICK b \in Pass!ArgSorts(meta.sorted) : meta' = [meta EXCEPT !.sorted = b]
  BY DEF Pass!SortTokens
<1>2. /\ OfBatch /\ Cached /\ meta.logits = Pass!LogitsIndices /\ states = Pass!Tokens
      /\ Fields \subseteq DOMAIN meta /\ Arrangement /\ Sorted(b)
      /\ meta.slots = [t \in DOMAIN Pass!Tokens |-> t - 1]
  BY <1>1 DEF PassInv
<1>3. /\ DOMAIN meta' = DOMAIN meta /\ meta'.sorted = b
      /\ meta'.order = meta.order /\ meta'.starts = meta.starts /\ meta'.pages = meta.pages
      /\ meta'.indptr = meta.indptr /\ meta'.slots = meta.slots /\ meta'.logits = meta.logits
  BY <1>0, <1>2 DEF Fields
<1>4. /\ OfBatch' = OfBatch /\ Pass!LogitsIndices' = Pass!LogitsIndices /\ Pass!Tokens' = Pass!Tokens
      /\ Logits' = Logits /\ LogitsLoc' = LogitsLoc /\ Cached' = Cached
  BY <1>1, BatchKept, CachedKept
<1>5. Arrangement'
  <2>1. Arranged(meta'.order, meta'.starts, meta'.pages, meta'.indptr) /\ meta'.starts[Len(tokens)] = LogitsLoc[Len(tokens)]
    BY <1>2, <1>3 DEF Arrangement
  <2> QED
    BY <1>1, <1>4, <2>1 DEF Arrangement, Arranged, LogitsIn, PagesOf
<1>6. Sorting' = b
  BY <1>1, <1>3 DEF Sorting
<1>7. Sorted(Sorting)'
  <2>1. OneToOne(b, LogitsLoc[Len(tokens)]) /\ Gathers(b, Len(tokens), Logits, LogitsLoc, meta.order, meta.starts)
    BY <1>2 DEF Sorted
  <2>2. /\ OneToOne(Sorting', LogitsLoc'[Len(tokens')])
        /\ Gathers(Sorting', Len(tokens'), Logits', LogitsLoc', meta'.order, meta'.starts)
    BY <1>1, <1>3, <1>4, <1>6, <2>1
  <2>3. backend' # "flash_attention"
    BY <1>1
  <2> QED
    BY <2>2, <2>3 DEF Sorted
<1> QED
  BY <1>1, <1>2, <1>3, <1>4, <1>5, <1>7 DEF PassInv, Fields

LEMMA FlashInferKeeps == ASSUME Pass!SwiftKVAssumption, PassInv, Pass!FixFlashInfer PROVE PassInv'
<1> DEFINE all == LogitsLoc[Len(tokens)]
<1>0. stage = "sorted" /\ stage' = "fixed" /\ UNCHANGED <<backend, tokens, kvCache, states>>
  BY DEF Pass!FixFlashInfer
<1>1. backend = "flashinfer"
  BY <1>0 DEF PassInv
<1>2. /\ OfBatch /\ Cached /\ meta.logits = Pass!LogitsIndices /\ states = Pass!Tokens
      /\ Fields \subseteq DOMAIN meta /\ Arrangement /\ Sorted(Sorting)
      /\ meta.slots = [t \in DOMAIN Pass!Tokens |-> t - 1]
  BY <1>0 DEF PassInv
<1>3. PICK inverse \in Pass!ArgSorts(meta.sorted) : meta' = [meta EXCEPT
                  !.inverse = inverse,
                  !.slots = [k \in DOMAIN meta.sorted |-> @[meta.logits[meta.sorted[k]] + 1]],
                  !.decodeWrapper = @ /\ meta.decodes > 0,
                  !.prefillWrapper = @ /\ Len(meta.order) > meta.decodes]
  BY DEF Pass!FixFlashInfer
<1>4. /\ DOMAIN meta' = DOMAIN meta /\ meta'.inverse \in Pass!ArgSorts(meta.sorted)
      /\ meta'.slots = [k \in DOMAIN meta.sorted |-> meta.slots[meta.logits[meta.sorted[k]] + 1]]
      /\ meta'.order = meta.order /\ meta'.starts = meta.starts /\ meta'.pages = meta.pages
      /\ meta'.indptr = meta.indptr /\ meta'.sorted = meta.sorted /\ meta'.logits = meta.logits
  BY <1>2, <1>3 DEF Fields
<1>5. /\ OfBatch' = OfBatch /\ Pass!LogitsIndices' = Pass!LogitsIndices /\ Pass!Tokens' = Pass!Tokens
      /\ Logits' = Logits /\ LogitsLoc' = LogitsLoc /\ Cached' = Cached
  BY <1>0, BatchKept, CachedKept
<1>6. Arrangement'
  <2>1. Arranged(meta'.order, meta'.starts, meta'.pages, meta'.indptr) /\ meta'.starts[Len(tokens)] = LogitsLoc[Len(tokens)]
    BY <1>2, <1>4 DEF Arrangement
  <2> QED
    BY <1>0, <1>5, <2>1 DEF Arrangement, Arranged, LogitsIn, PagesOf
<1>7. Sorting = meta.sorted /\ Sorting' = meta.sorted
  BY <1>0, <1>1, <1>4 DEF Sorting
<1>8. Sorted(Sorting)'
  <2> DEFINE b == meta.sorted
  <2>1. OneToOne(b, LogitsLoc[Len(tokens)]) /\ Gathers(b, Len(tokens), Logits, LogitsLoc, meta.order, meta.starts)
    BY <1>2, <1>7 DEF Sorted
  <2>2. Sorting' = b
    BY <1>7
  <2> HIDE DEF b
  <2>3. /\ OneToOne(Sorting', LogitsLoc'[Len(tokens')])
        /\ Gathers(Sorting', Len(tokens'), Logits', LogitsLoc', meta'.order, meta'.starts)
    BY <1>0, <1>4, <1>5, <2>1, <2>2
  <2>4. backend' # "flash_attention"
    BY <1>0, <1>1
  <2> QED
    BY <2>3, <2>4 DEF Sorted
<1>9. meta'.slots = [q \in 1 .. all |-> Pass!LogitsIndices[meta.sorted[q]]]
  <2>1. DOMAIN meta.sorted = 1 .. all /\ \A q \in 1 .. all : meta.sorted[q] \in 1 .. all
    BY <1>2, <1>7, SortingTypes
  <2>2. \A q \in 1 .. all : Pass!LogitsIndices[q] \in Nat /\ Pass!LogitsIndices[q] + 1 \in DOMAIN Pass!Tokens
    BY <1>2, LogitsAreTokens
  <2>3. \A q \in 1 .. all : meta.slots[Pass!LogitsIndices[q] + 1] = Pass!LogitsIndices[q]
    <3> SUFFICES ASSUME NEW q \in 1 .. all PROVE meta.slots[Pass!LogitsIndices[q] + 1] = Pass!LogitsIndices[q]
      OBVIOUS
    <3> DEFINE at == Pass!LogitsIndices[q]
    <3>1. at \in Nat /\ at + 1 \in DOMAIN Pass!Tokens
      BY <2>2
    <3> HIDE DEF at
    <3>2. meta.slots[at + 1] = at + 1 - 1 /\ at + 1 - 1 = at
      BY <1>2, <3>1
    <3> QED
      BY <3>2 DEF at
  <2> QED
    BY <1>2, <1>4, <2>1, <2>3
<1>10. meta'.slots = [q \in 1 .. LogitsLoc'[Len(tokens')] |-> Pass!LogitsIndices'[Sorting'[q]]]
  BY <1>0, <1>5, <1>7, <1>9
<1>11. meta'.inverse \in Pass!ArgSorts(meta'.sorted)
  BY <1>4
<1> HIDE DEF all
<1> QED
  BY <1>0, <1>2, <1>4, <1>5, <1>6, <1>8, <1>10, <1>11 DEF PassInv, Fields

LEMMA GatherKeeps == ASSUME Pass!SwiftKVAssumption, PassInv, Pass!Gather PROVE PassInv'
<1> DEFINE all == LogitsLoc[Len(tokens)]
<1>1. stage = "fixed" /\ stage' = "gathered" /\ UNCHANGED <<backend, tokens, meta, kvCache>>
  BY DEF Pass!Gather
<1>2. /\ OfBatch /\ Cached /\ meta.logits = Pass!LogitsIndices /\ states = Pass!Tokens
      /\ Fields \subseteq DOMAIN meta /\ Arrangement /\ Sorted(Sorting)
      /\ backend = "flashinfer" => meta.inverse \in Pass!ArgSorts(meta.sorted)
      /\ meta.slots = [q \in 1 .. all |-> Pass!LogitsIndices[Sorting[q]]]
  BY <1>1 DEF PassInv
<1>3. states' = [k \in 1 .. Pass!PaddedSize |->
                    IF k <= Pass!NumSurviving THEN states[Pass!FinalIndices[k] + 1] ELSE Pass!Nothing]
  BY DEF Pass!Gather
<1>4. Pass!NumSurviving = all /\ all \in Nat /\ DOMAIN Pass!LogitsIndices = 1 .. all
  BY <1>2, LogitsLaid
<1>5. \A q \in 1 .. all : Pass!FinalIndices[q] = Pass!LogitsIndices[Sorting[q]]
  <2>1. CASE backend = "flashinfer"
    <3>1. Sorting = meta.sorted /\ DOMAIN meta.sorted = 1 .. all
      BY <1>2, <2>1, SortingTypes DEF Sorting
    <3> HIDE DEF all
    <3> QED
      BY <1>2, <2>1, <3>1 DEF Pass!FinalIndices
  <2>2. CASE backend # "flashinfer"
    BY <1>2, <2>2 DEF Pass!FinalIndices, Sorting
  <2> QED
    BY <2>1, <2>2
<1>6. \A q \in 1 .. all : q \in 1 .. Pass!PaddedSize /\ q <= Pass!NumSurviving
  <2> HIDE DEF all
  <2> QED
    BY <1>4 DEF Pass!PaddedSize
<1>7. \A q \in 1 .. all : states'[q] = Pass!Tokens[Pass!LogitsIndices[Sorting[q]] + 1]
  <2> HIDE DEF all
  <2> QED
    BY <1>2, <1>3, <1>5, <1>6
<1>8. /\ OfBatch' = OfBatch /\ Pass!LogitsIndices' = Pass!LogitsIndices /\ Pass!Tokens' = Pass!Tokens
      /\ Logits' = Logits /\ LogitsLoc' = LogitsLoc /\ Cached' = Cached /\ Pass!NumSurviving' = Pass!NumSurviving
  BY <1>1, BatchKept, CachedKept
<1>9. Pass!PaddedSize' = Pass!PaddedSize
  BY <1>8 DEF Pass!PaddedSize
<1>10. Arrangement' = Arrangement /\ Sorted(Sorting)' = Sorted(Sorting) /\ Sorting' = Sorting
  BY <1>1, PartsKept
<1>11. DOMAIN states' = 1 .. Pass!PaddedSize'
  BY <1>3, <1>9
<1>12. \A q \in 1 .. LogitsLoc'[Len(tokens')] : states'[q] = Pass!Tokens'[Pass!LogitsIndices'[Sorting'[q]] + 1]
  BY <1>1, <1>7, <1>8, <1>10
<1>13. meta'.slots = [q \in 1 .. LogitsLoc'[Len(tokens')] |-> Pass!LogitsIndices'[Sorting'[q]]]
  BY <1>1, <1>2, <1>8, <1>10
<1>14. meta'.logits = Pass!LogitsIndices' /\ Fields \subseteq DOMAIN meta'
  BY <1>1, <1>2, <1>8
<1>15. backend' = "flashinfer" => meta'.inverse \in Pass!ArgSorts(meta'.sorted)
  BY <1>1, <1>2
<1> HIDE DEF all
<1> QED
  BY <1>1, <1>2, <1>8, <1>10, <1>11, <1>12, <1>13, <1>14, <1>15 DEF PassInv, Fields

LEMMA ReturnKeeps == ASSUME Pass!SwiftKVAssumption, PassInv, Pass!Return PROVE PassInv'
<1> DEFINE all == LogitsLoc[Len(tokens)]
           PlaceOf(t) == CHOOSE k \in DOMAIN meta.logits : meta.logits[k] = t - 1
<1>1. stage = "gathered" /\ stage' = "returned" /\ UNCHANGED <<backend, tokens, meta, kvCache>>
  BY DEF Pass!Return
<1>2. /\ OfBatch /\ Cached /\ meta.logits = Pass!LogitsIndices
      /\ Fields \subseteq DOMAIN meta /\ Arrangement /\ Sorted(Sorting)
      /\ backend = "flashinfer" => meta.inverse \in Pass!ArgSorts(meta.sorted)
      /\ \A q \in 1 .. all : states[q] = Pass!Tokens[Pass!LogitsIndices[Sorting[q]] + 1]
  BY <1>1 DEF PassInv
<1>3. states' = [t \in DOMAIN Pass!Tokens |->
                    IF t - 1 \in Pass!ToSet(meta.logits)
                    THEN <<"final", states[Pass!Row(PlaceOf(t))]>>
                    ELSE <<"prefill", Pass!Tokens[t]>>]
  BY DEF Pass!Return
<1>4. all \in Nat /\ DOMAIN Pass!LogitsIndices = 1 .. all
  BY <1>2, LogitsLaid
<1>5. ASSUME NEW q \in 1 .. all
      PROVE  Pass!Row(q) \in 1 .. all /\ Sorting[Pass!Row(q)] = q
  <2>1. CASE backend = "flashinfer"
    <3>1. Sorting = meta.sorted /\ Pass!Row(q) = meta.inverse[q] /\ meta.inverse \in Pass!ArgSorts(meta.sorted)
      BY <1>2, <2>1 DEF Sorting, Pass!Row
    <3>2. OneToOne(meta.sorted, all)
      BY <1>2, <3>1 DEF Sorted
    <3> DEFINE b == meta.sorted
               c == meta.inverse
    <3>3. OneToOne(b, all) /\ c \in Pass!ArgSorts(b)
      BY <3>1, <3>2
    <3> HIDE DEF all, b, c
    <3>4. c[q] \in 1 .. all /\ b[c[q]] = q
      BY <1>4, <3>3, ArgSortBack
    <3> QED
      BY <3>1, <3>4 DEF b, c
  <2>2. CASE backend # "flashinfer"
    BY <2>2 DEF Sorting, Pass!Row
  <2> QED
    BY <2>1, <2>2
<1> HIDE DEF PlaceOf
<1>6. ASSUME NEW q \in 1 .. all
      PROVE  states'[Pass!LogitsIndices[q] + 1] = <<"final", Pass!Tokens[Pass!LogitsIndices[q] + 1]>>
  <2> DEFINE at == Pass!LogitsIndices[q]
             t == at + 1
  <2>1. at \in Nat /\ t \in DOMAIN Pass!Tokens
    BY <1>2, LogitsAreTokens
  <2>2. t - 1 = at
    <3> HIDE DEF at
    <3> QED
      BY <2>1
  <2>3. at \in Pass!ToSet(meta.logits)
    BY <1>2, <1>4 DEF Pass!ToSet
  <2>4. PlaceOf(t) = q
    <3>1. PlaceOf(t) = CHOOSE k \in 1 .. all : Pass!LogitsIndices[k] = at
      BY <1>2, <1>4, <2>2 DEF PlaceOf
    <3>2. \A k \in 1 .. all : Pass!LogitsIndices[k] = at => k = q
      BY <1>2, LogitsDiffer
    <3> HIDE DEF all
    <3> QED
      BY <3>1, <3>2
  <2>5. states[Pass!Row(q)] = Pass!Tokens[Pass!LogitsIndices[q] + 1]
    BY <1>2, <1>5
  <2> HIDE DEF t
  <2>6. states'[t] = <<"final", states[Pass!Row(PlaceOf(t))]>>
    BY <1>3, <2>1, <2>2, <2>3
  <2> QED
    BY <2>4, <2>5, <2>6 DEF t
<1>7. /\ OfBatch' = OfBatch /\ Pass!LogitsIndices' = Pass!LogitsIndices /\ Pass!Tokens' = Pass!Tokens
      /\ LogitsLoc' = LogitsLoc /\ Cached' = Cached
  BY <1>1, BatchKept, CachedKept
<1>8. Arrangement' = Arrangement
  BY <1>1, PartsKept
<1>9. \A q \in 1 .. LogitsLoc'[Len(tokens')] :
         states'[Pass!LogitsIndices'[q] + 1] = <<"final", Pass!Tokens'[Pass!LogitsIndices'[q] + 1]>>
  BY <1>1, <1>6, <1>7
<1>10. meta'.logits = Pass!LogitsIndices' /\ Fields \subseteq DOMAIN meta'
  BY <1>1, <1>2, <1>7
<1> HIDE DEF all
<1> QED
  BY <1>1, <1>2, <1>7, <1>8, <1>9, <1>10 DEF PassInv, Fields

LEMMA StutterKeeps == ASSUME PassInv, UNCHANGED Pass!vars PROVE PassInv'
<1>1. UNCHANGED <<backend, tokens, stage, meta, kvCache, states>>
  BY DEF Pass!vars
<1>2. /\ OfBatch' = OfBatch /\ Pass!LogitsIndices' = Pass!LogitsIndices /\ Pass!Tokens' = Pass!Tokens
      /\ LogitsLoc' = LogitsLoc /\ Cached' = Cached /\ Pass!NumSurviving' = Pass!NumSurviving
      /\ Pass!Scheduled' = Pass!Scheduled
  BY <1>1, BatchKept, CachedKept
<1>3. /\ Arrangement' = Arrangement /\ Sorted(Sorting)' = Sorted(Sorting) /\ Sorting' = Sorting
      /\ (\A b \in Pass!ArgSorts(meta.sorted) : Sorted(b))' = (\A b \in Pass!ArgSorts(meta.sorted) : Sorted(b))
  BY <1>1, PartsKept
<1>4. Pass!PaddedSize' = Pass!PaddedSize
  BY <1>2 DEF Pass!PaddedSize
<1> QED
  BY <1>1, <1>2, <1>3, <1>4 DEF PassInv

(* A pass of a SwiftKV model, for any batch and either backend: the rows   *)
(* that go through the remaining layers stay their requests', with their   *)
(* slots and pages, and with FlashAttention in order; every token is in    *)
(* the cache where it is looked for; and what the last layer makes of a    *)
(* token goes back to that token.                                          *)
THEOREM SelectedTokensStayTheirs ==
  ASSUME Pass!SwiftKVAssumption, NumBlocks # 2
  PROVE  Pass!Spec => [](/\ Pass!TypeOK /\ Pass!RowsKeepTheirRequest
                         /\ Pass!DroppedTokensAreCached /\ Pass!ResultsGoBack
                         /\ backend = "flash_attention" => Pass!RowsInOrder)
<1>1. Pass!Init => PassInv
  <2> SUFFICES ASSUME Pass!Init PROVE PassInv
    OBVIOUS
  <2>1. OfBatch /\ stage = "prefilled" /\ meta = Pass!Scheduled /\ states = Pass!Tokens
    BY DEF Pass!Init, OfBatch
  <2>2. Fields \subseteq DOMAIN meta /\ meta.logits = Pass!LogitsIndices
    BY <2>1, AsScheduled DEF Fields
  <2> QED
    BY <2>1, <2>2 DEF PassInv
<1>2. PassInv /\ [Pass!Next]_(Pass!vars) => PassInv'
  <2> SUFFICES ASSUME PassInv, [Pass!Next]_(Pass!vars) PROVE PassInv'
    OBVIOUS
  <2>1. CASE Pass!WriteKv
    BY <2>1, WriteKvKeeps
  <2>2. CASE Pass!FixFlashAttention
    BY <2>2, FlashKeeps
  <2>3. CASE Pass!Classify
    BY <2>3, ClassifyKeeps
  <2>4. CASE Pass!SortTokens
    BY <2>4, SortTokensKeeps
  <2>5. CASE Pass!FixFlashInfer
    BY <2>5, FlashInferKeeps
  <2>6. CASE Pass!Gather
    BY <2>6, GatherKeeps
  <2>7. CASE Pass!Return
    BY <2>7, ReturnKeeps
  <2>8. CASE UNCHANGED Pass!vars
    BY <2>8, StutterKeeps
  <2> QED
    BY <2>1, <2>2, <2>3, <2>4, <2>5, <2>6, <2>7, <2>8 DEF Pass!Next, Pass!Done
<1>3. PassInv => /\ Pass!TypeOK /\ Pass!RowsKeepTheirRequest /\ Pass!DroppedTokensAreCached /\ Pass!ResultsGoBack
                 /\ backend = "flash_attention" => Pass!RowsInOrder
  BY InvSuffices
<1> QED
  BY <1>1, <1>2, <1>3, PTL DEF Pass!Spec
=============================================================================
