------------------------- MODULE SuffixCacheProofs -------------------------
(***************************************************************************)
(* Proofs about SuffixCache, for every set of requests, every size of the  *)
(* id space and every cache limit.  The inductive invariant says that the  *)
(* record cache is well typed and consistent; each helper of the           *)
(* specification is shown to preserve that, once, as a lemma about an      *)
(* arbitrary record, and the actions follow by composing the lemmas.       *)
(***************************************************************************)
EXTENDS SuffixCache, FiniteSetTheorems, FunctionTheorems, SequenceTheorems, TLAPS

Consistent(c) ==
    /\ \A r \in Reqs : c.req[r] # None => c.seq[c.req[r]] = r
    /\ \A i \in SeqIds : c.seq[i] # None => c.req[c.seq[i]] = i
    /\ \A i \in SeqIds : c.seq[i] = None => c.tree[i] = <<>>

IInv == TypeOK /\ Consistent(cache)

(* None is told apart from every request, id and sequence. *)
LEMMA NoneIsNothing ==
    None \notin Reqs /\ None \notin SeqIds /\ None \notin Seq(Tokens)
  BY SuffixCacheAssumption DEF SuffixCacheAssumption, SeqIds

LEMMA EvictFromConsistent ==
    ASSUME NEW c \in CacheType, Consistent(c), NEW S \in SUBSET CachedIn(c)
    PROVE  EvictFrom(c, S) \in CacheType /\ Consistent(EvictFrom(c, S))
<1> DEFINE d == EvictFrom(c, S)
<1>1. /\ c.req \in [Reqs -> SeqIds \union {None}]
      /\ c.seq \in [SeqIds -> Reqs \union {None}]
      /\ c.older \in SUBSET (Reqs \X Reqs)
      /\ c.tree \in [SeqIds -> Seq(Tokens)]
  BY DEF CacheType
<1>2. /\ \A r \in Reqs : d.req[r] = IF r \in S THEN None ELSE c.req[r]
      /\ \A i \in SeqIds :
           /\ d.seq[i] = IF i \in {c.req[r] : r \in S} THEN None ELSE c.seq[i]
           /\ d.tree[i] = IF i \in {c.req[r] : r \in S} THEN <<>> ELSE c.tree[i]
  BY DEF EvictFrom
<1>3. d \in CacheType
  BY <1>1 DEF EvictFrom, CacheType
<1>4. ASSUME NEW r \in Reqs, d.req[r] # None
      PROVE  d.seq[d.req[r]] = r
  <2>1. r \notin S /\ d.req[r] = c.req[r] /\ c.req[r] \in SeqIds
    BY <1>1, <1>2, <1>4
  <2>2. c.req[r] \notin {c.req[s] : s \in S}
    BY <2>1, <1>4 DEF Consistent, CachedIn
  <2> QED
    BY <1>2, <1>4, <2>1, <2>2 DEF Consistent
<1>5. ASSUME NEW i \in SeqIds, d.seq[i] # None
      PROVE  d.req[d.seq[i]] = i
  <2>1. i \notin {c.req[s] : s \in S} /\ d.seq[i] = c.seq[i] /\ c.seq[i] \in Reqs
    BY <1>1, <1>2, <1>5
  <2>2. c.req[c.seq[i]] = i /\ c.seq[i] \notin S
    BY <1>5, <2>1 DEF Consistent
  <2> QED
    BY <1>2, <2>1, <2>2
<1>6. ASSUME NEW i \in SeqIds, d.seq[i] = None
      PROVE  d.tree[i] = <<>>
  BY <1>2, <1>6 DEF Consistent
<1> HIDE DEF d
<1>7. Consistent(d)
  BY <1>4, <1>5, <1>6 DEF Consistent
<1> QED
  BY <1>3, <1>7 DEF d

LEMMA ReclaimConsistent ==
    ASSUME NEW c \in CacheType, Consistent(c), NEW i \in SeqIds
    PROVE  /\ ReclaimSeqId(c, i) \in CacheType
           /\ Consistent(ReclaimSeqId(c, i))
           /\ ReclaimSeqId(c, i).seq[i] = None
           /\ \A r \in Reqs : c.req[r] = None => ReclaimSeqId(c, i).req[r] = None
<1>1. /\ c.req \in [Reqs -> SeqIds \union {None}]
      /\ c.seq \in [SeqIds -> Reqs \union {None}]
      /\ c.older \in SUBSET (Reqs \X Reqs)
      /\ c.tree \in [SeqIds -> Seq(Tokens)]
  BY DEF CacheType
<1>2. CASE c.seq[i] = None
  BY <1>2 DEF ReclaimSeqId
<1>3. CASE c.seq[i] # None
  <2> DEFINE d == ReclaimSeqId(c, i)
             v == c.seq[i]
  <2>1. v \in Reqs /\ c.req[v] = i
    BY <1>1, <1>3 DEF Consistent
  <2>2. /\ d.req = [c.req EXCEPT ![v] = None]
        /\ d.seq = [c.seq EXCEPT ![i] = None]
        /\ d.tree = [c.tree EXCEPT ![i] = <<>>]
    BY <1>3 DEF ReclaimSeqId
  <2>3. d \in CacheType
    BY <1>1, <1>3 DEF ReclaimSeqId, CacheType
  <2>4. ASSUME NEW r \in Reqs, d.req[r] # None
        PROVE  d.seq[d.req[r]] = r
    <3>1. r # v /\ d.req[r] = c.req[r] /\ c.req[r] \in SeqIds
      BY <1>1, <2>1, <2>2, <2>4
    <3>2. c.seq[c.req[r]] = r
      BY <2>4, <3>1 DEF Consistent
    <3>3. c.req[r] # i
      BY <3>1, <3>2
    <3> QED
      BY <1>1, <2>2, <3>1, <3>2, <3>3
  <2>5. ASSUME NEW j \in SeqIds, d.seq[j] # None
        PROVE  d.req[d.seq[j]] = j
    <3>1. j # i /\ d.seq[j] = c.seq[j] /\ c.seq[j] \in Reqs
      BY <1>1, <2>2, <2>5
    <3>2. c.req[c.seq[j]] = j
      BY <2>5, <3>1 DEF Consistent
    <3>3. c.seq[j] # v
      BY <2>1, <3>1, <3>2
    <3> QED
      BY <1>1, <2>2, <3>1, <3>2, <3>3
  <2>6. ASSUME NEW j \in SeqIds, d.seq[j] = None
        PROVE  d.tree[j] = <<>>
    BY <1>1, <2>2, <2>6 DEF Consistent
  <2>7. d.seq[i] = None /\ \A r \in Reqs : c.req[r] = None => d.req[r] = None
    BY <1>1, <2>1, <2>2
  <2> HIDE DEF d
  <2>8. Consistent(d)
    BY <2>4, <2>5, <2>6 DEF Consistent
  <2> QED
    BY <2>3, <2>7, <2>8 DEF d
<1> QED
  BY <1>2, <1>3

LEMMA AssignConsistent ==
    ASSUME NEW c \in CacheType, Consistent(c), NEW r \in Reqs, NEW i \in SeqIds,
           c.req[r] = None, c.seq[i] = None
    PROVE  AssignSeqId(c, r, i) \in CacheType /\ Consistent(AssignSeqId(c, r, i))
<1> DEFINE d == AssignSeqId(c, r, i)
<1>1. /\ c.req \in [Reqs -> SeqIds \union {None}]
      /\ c.seq \in [SeqIds -> Reqs \union {None}]
      /\ c.older \in SUBSET (Reqs \X Reqs)
      /\ c.tree \in [SeqIds -> Seq(Tokens)]
  BY DEF CacheType
<1>2. /\ d.req = [c.req EXCEPT ![r] = i]
      /\ d.seq = [c.seq EXCEPT ![i] = r]
      /\ d.older = c.older \union (CachedIn(c) \X {r})
      /\ d.tree = c.tree
      /\ d \in CacheType
  <2>1. c.older \union (CachedIn(c) \X {r}) \in SUBSET (Reqs \X Reqs)
    BY <1>1 DEF CachedIn
  <2> QED
    BY <1>1, <2>1 DEF AssignSeqId, CacheType
<1>3. ASSUME NEW x \in Reqs, d.req[x] # None
      PROVE  d.seq[d.req[x]] = x
  <2>1. CASE x = r
    BY <1>1, <1>2, <2>1
  <2>2. CASE x # r
    <3>1. d.req[x] = c.req[x] /\ c.req[x] \in SeqIds /\ c.seq[c.req[x]] = x
      BY <1>1, <1>2, <1>3, <2>2 DEF Consistent
    <3>2. c.req[x] # i
      BY <3>1, NoneIsNothing
    <3> QED
      BY <1>1, <1>2, <3>1, <3>2
  <2> QED
    BY <2>1, <2>2
<1>4. ASSUME NEW j \in SeqIds, d.seq[j] # None
      PROVE  d.req[d.seq[j]] = j
  <2>1. CASE j = i
    BY <1>1, <1>2, <2>1
  <2>2. CASE j # i
    <3>1. d.seq[j] = c.seq[j] /\ c.seq[j] \in Reqs /\ c.req[c.seq[j]] = j
      BY <1>1, <1>2, <1>4, <2>2 DEF Consistent
    <3>2. c.seq[j] # r
      BY <3>1, NoneIsNothing
    <3> QED
      BY <1>1, <1>2, <3>1, <3>2
  <2> QED
    BY <2>1, <2>2
<1>5. ASSUME NEW j \in SeqIds, d.seq[j] = None
      PROVE  d.tree[j] = <<>>
  BY <1>1, <1>2, <1>5, NoneIsNothing DEF Consistent
<1> HIDE DEF d
<1>6. Consistent(d)
  BY <1>3, <1>4, <1>5 DEF Consistent
<1> QED
  BY <1>2, <1>6 DEF d

(* What a start does to the cache record, for any slot i and any evicted S. *)
LEMMA StartConsistent ==
    ASSUME NEW c \in CacheType, Consistent(c), NEW r \in Reqs, NEW i \in SeqIds,
           NEW own, own = EvictFrom(c, {r} \intersect CachedIn(c)),
           NEW added, added = AssignSeqId(ReclaimSeqId(own, i), r, i),
           NEW S \in SUBSET CachedIn(added)
    PROVE  /\ own \in CacheType /\ Consistent(own) /\ own.req[r] = None
           /\ added \in CacheType /\ Consistent(added)
           /\ EvictFrom(added, S) \in CacheType
           /\ Consistent(EvictFrom(added, S))
<1>1. own \in CacheType /\ Consistent(own)
  BY EvictFromConsistent
<1>2. own.req[r] = None
  BY DEF EvictFrom, CachedIn
<1>3. /\ ReclaimSeqId(own, i) \in CacheType
      /\ Consistent(ReclaimSeqId(own, i))
      /\ ReclaimSeqId(own, i).seq[i] = None
      /\ ReclaimSeqId(own, i).req[r] = None
  BY <1>1, <1>2, ReclaimConsistent
<1>4. added \in CacheType /\ Consistent(added)
  BY <1>3, AssignConsistent
<1> QED
  BY <1>1, <1>2, <1>4, EvictFromConsistent

LEMMA InitIInv == Init => IInv
<1> SUFFICES ASSUME Init PROVE IInv
  OBVIOUS
<1>1. 0 \in SeqIds
  BY SuffixCacheAssumption DEF SuffixCacheAssumption, SeqIds
<1>2. TypeOK
  BY <1>1, SuffixCacheAssumption DEF SuffixCacheAssumption, Init, TypeOK, CacheType
<1>3. Consistent(cache)
  BY DEF Init, Consistent
<1> QED
  BY <1>2, <1>3 DEF IInv

LEMMA NextIInv == IInv /\ [Next]_vars => IInv'
<1> SUFFICES ASSUME IInv, [Next]_vars PROVE IInv'
  OBVIOUS
<1> USE DEF IInv
<1>1. ASSUME NEW r \in Reqs, NEW p \in Prompts, StartRequest(r, p)
      PROVE  IInv'
  <2>1. local' \in [Reqs -> Seq(Tokens) \union {None}]
    BY <1>1, SuffixCacheAssumption DEF SuffixCacheAssumption, StartRequest, TypeOK
  <2>2. CASE MaxCached = 0
    BY <1>1, <2>1, <2>2 DEF StartRequest, TypeOK, Consistent
  <2>3. CASE MaxCached # 0
    <3> DEFINE own == EvictFrom(cache, {r} \intersect Cached)
               added(i) == AssignSeqId(ReclaimSeqId(own, i), r, i)
    <3>1. PICK i \in SeqIds, S \in SUBSET Reqs :
            /\ Overflow(added(i), r, S)
            /\ cache' = EvictFrom(added(i), S)
            /\ nextSeqId' = Successor(i)
      BY <1>1, <2>3 DEF StartRequest
    <3>2. S \in SUBSET CachedIn(added(i))
      BY <3>1 DEF Overflow
    <3>3. cache' \in CacheType /\ Consistent(cache')
      BY <3>1, <3>2, StartConsistent DEF TypeOK, Cached
    <3>4. nextSeqId' \in SeqIds
      BY <3>1, SuffixCacheAssumption DEF SuffixCacheAssumption, SeqIds, Successor
    <3> QED
      BY <2>1, <3>3, <3>4 DEF TypeOK, Consistent
  <2> QED
    BY <2>2, <2>3
<1>2. ASSUME NEW r \in Reqs, StopRequest(r)
      PROVE  IInv'
  BY <1>2 DEF StopRequest, TypeOK, Consistent
<1>3. ASSUME NEW r \in Reqs, NEW b \in Batches, AddActiveResponse(r, b)
      PROVE  IInv'
  <2>1. b \in Seq(Tokens) /\ local[r] \in Seq(Tokens)
    BY <1>3, SuffixCacheAssumption DEF SuffixCacheAssumption, AddActiveResponse, TypeOK
  <2>2. local' \in [Reqs -> Seq(Tokens) \union {None}] /\ nextSeqId' = nextSeqId
    BY <1>3, <2>1 DEF AddActiveResponse, TypeOK
  <2>3. CASE cache.req[r] = None
    BY <1>3, <2>2, <2>3 DEF AddActiveResponse, TypeOK, Consistent
  <2>4. CASE cache.req[r] # None
    <3> DEFINE i == cache.req[r]
               grown == [cache.tree EXCEPT ![i] = @ \o b]
    <3>1. i \in SeqIds /\ cache.seq[i] = r
      BY <2>4 DEF TypeOK, CacheType, Consistent
    <3>2. cache.tree \in [SeqIds -> Seq(Tokens)] /\ cache.tree[i] \o b \in Seq(Tokens)
      BY <2>1, <3>1 DEF TypeOK, CacheType
    <3>3. grown \in [SeqIds -> Seq(Tokens)]
      BY <3>2
    <3>4. cache' = [cache EXCEPT !.tree = grown]
      BY <1>3, <2>4 DEF AddActiveResponse
    <3>5. /\ cache'.req = cache.req /\ cache'.seq = cache.seq
          /\ cache'.tree = grown /\ cache' \in CacheType
      BY <3>3, <3>4 DEF TypeOK, CacheType
    <3>6. \A j \in SeqIds : j # i => grown[j] = cache.tree[j]
      BY <3>2
    <3>7. Consistent(cache')
      BY <3>1, <3>5, <3>6, NoneIsNothing DEF Consistent
    <3> QED
      BY <2>2, <3>5, <3>7 DEF TypeOK, Consistent
  <2> QED
    BY <2>3, <2>4
<1>4. ASSUME NEW r \in Reqs, EvictCachedResponse(r)
      PROVE  IInv'
  <2>1. {r} \in SUBSET CachedIn(cache)
    BY <1>4 DEF EvictCachedResponse, CachedIn
  <2>2. cache' \in CacheType /\ Consistent(cache')
    BY <1>4, <2>1, EvictFromConsistent DEF EvictCachedResponse, TypeOK
  <2> QED
    BY <1>4, <2>2 DEF EvictCachedResponse, TypeOK, Consistent
<1>5. CASE UNCHANGED vars
  BY <1>5 DEF vars, TypeOK, Consistent
<1> QED
  BY <1>1, <1>2, <1>3, <1>4, <1>5 DEF Next

THEOREM Invariance == Spec => []IInv
  BY InitIInv, NextIInv, PTL DEF Spec

(* Every variable keeps its type. *)
THEOREM TypeCorrect == Spec => []TypeOK
  BY Invariance, PTL DEF IInv

(* _req_to_seq_id and _seq_to_req_id stay inverse to each other, whatever  *)
(* the order of starts, wrap-arounds and evictions.                        *)
THEOREM MapsStayInverse == Spec => []MapsInverse
<1>1. IInv => MapsInverse
  BY DEF IInv, Consistent, MapsInverse
<1> QED
  BY <1>1, Invariance, PTL

(* An id with no owner has no sequence in the global tree. *)
THEOREM NoSequenceOrphaned == Spec => []NoOrphanSequence
<1>1. IInv => NoOrphanSequence
  BY DEF IInv, Consistent, NoOrphanSequence
<1> QED
  BY <1>1, Invariance, PTL

-----------------------------------------------------------------------------
(***************************************************************************)
(* The capacity limit.  Ids are finite and MapsInverse makes the ids of    *)
(* cached requests distinct, so the set of cached requests is finite even  *)
(* when Reqs is not.                                                       *)
(***************************************************************************)
LEMMA CachedFinite ==
    ASSUME NEW c \in CacheType, Consistent(c)
    PROVE  IsFiniteSet(CachedIn(c))
<1> DEFINE f == [r \in CachedIn(c) |-> c.req[r]]
<1>1. f \in [CachedIn(c) -> SeqIds]
  BY DEF CacheType, CachedIn
<1>2. \A x, y \in CachedIn(c) : f[x] = f[y] => x = y
  BY DEF Consistent, CachedIn
<1>3. f \in Injection(CachedIn(c), SeqIds)
  BY <1>1, <1>2, Fun_IsInj
<1>4. IsFiniteSet(SeqIds)
  BY SuffixCacheAssumption, FS_Interval DEF SuffixCacheAssumption, SeqIds
<1> QED
  BY <1>3, <1>4, FS_Injection

LEMMA CachedAfterEvict ==
    ASSUME NEW c, NEW S \in SUBSET CachedIn(c)
    PROVE  CachedIn(EvictFrom(c, S)) = CachedIn(c) \ S
  BY DEF EvictFrom, CachedIn

LEMMA CapacityStep ==
    IInv /\ CapacityRespected /\ [Next]_vars => CapacityRespected'
<1> SUFFICES ASSUME IInv, CapacityRespected, [Next]_vars, MaxCached >= 0
             PROVE  Cardinality(Cached') <= MaxCached
  BY DEF CapacityRespected
<1>1. IInv' /\ MaxCached \in Int
  BY NextIInv, SuffixCacheAssumption DEF SuffixCacheAssumption
<1>2. IsFiniteSet(Cached) /\ Cardinality(Cached) \in Nat /\ Cardinality(Cached) <= MaxCached
  BY CachedFinite, FS_CardinalityType DEF IInv, TypeOK, Cached, CapacityRespected
<1>3. ASSUME Cached' \subseteq Cached
      PROVE  Cardinality(Cached') <= MaxCached
  <2>1. Cardinality(Cached') \in Nat /\ Cardinality(Cached') <= Cardinality(Cached)
    BY <1>2, <1>3, FS_Subset, FS_CardinalityType
  <2> QED
    BY <1>1, <1>2, <2>1
<1>4. ASSUME NEW r \in Reqs, NEW p \in Prompts, StartRequest(r, p), MaxCached # 0
      PROVE  Cardinality(Cached') <= MaxCached
  <2> DEFINE own == EvictFrom(cache, {r} \intersect Cached)
             add(i) == AssignSeqId(ReclaimSeqId(own, i), r, i)
  <2>1. PICK i \in SeqIds, S \in SUBSET Reqs :
          /\ Overflow(add(i), r, S)
          /\ cache' = EvictFrom(add(i), S)
    BY <1>4 DEF StartRequest
  <2> DEFINE added == add(i)
  <2>2. S \in SUBSET CachedIn(added)
    BY <2>1 DEF Overflow
  <2>3. added \in CacheType /\ Consistent(added)
    BY <2>2, StartConsistent DEF Cached, IInv, TypeOK
  <2>4. IsFiniteSet(CachedIn(added)) /\ Cardinality(CachedIn(added)) \in Nat
    BY <2>3, CachedFinite, FS_CardinalityType
  <2>5. Cached' = CachedIn(added) \ S
    BY <2>1, <2>2, CachedAfterEvict DEF Cached
  <2> HIDE DEF add
  <2>6. IsFiniteSet(S) /\ Cardinality(S) \in Nat
    BY <2>2, <2>4, FS_Subset, FS_CardinalityType
  <2>7. CachedIn(added) \intersect S = S
    BY <2>2
  <2>8. Cardinality(CachedIn(added) \ S) = Cardinality(CachedIn(added)) - Cardinality(S)
    BY ZenonT(30), <2>4, <2>7, FS_Difference
  <2>9. Cardinality(S) = IF Cardinality(CachedIn(added)) > MaxCached
                         THEN Cardinality(CachedIn(added)) - MaxCached ELSE 0
    BY <2>1 DEF Overflow
  <2> QED
    BY <1>1, <2>4, <2>5, <2>6, <2>8, <2>9
<1>5. ASSUME NEW r \in Reqs, NEW p \in Prompts, StartRequest(r, p), MaxCached = 0
      PROVE  Cached' \subseteq Cached
  BY <1>5 DEF StartRequest, Cached
<1>6. ASSUME NEW r \in Reqs, StopRequest(r)
      PROVE  Cached' \subseteq Cached
  BY <1>6 DEF StopRequest, Cached
<1>7. ASSUME NEW r \in Reqs, NEW b \in Batches, AddActiveResponse(r, b)
      PROVE  Cached' \subseteq Cached
  <2>1. cache'.req = cache.req
    BY <1>7 DEF AddActiveResponse, IInv, TypeOK, CacheType
  <2> QED
    BY <2>1 DEF Cached, CachedIn
<1>8. ASSUME NEW r \in Reqs, EvictCachedResponse(r)
      PROVE  Cached' \subseteq Cached
  BY <1>8 DEF EvictCachedResponse, EvictFrom, Cached, CachedIn
<1>9. CASE UNCHANGED vars
  BY <1>3, <1>9 DEF vars, Cached
<1> QED
  BY <1>3, <1>4, <1>5, <1>6, <1>7, <1>8, <1>9 DEF Next

(* A cache created with max_cached_requests >= 0 never holds more responses *)
(* than that once a call has returned.                                      *)
THEOREM CapacityNeverExceeded == Spec => []CapacityRespected
<1>1. Init => CapacityRespected
  <2> SUFFICES ASSUME Init, MaxCached >= 0 PROVE Cardinality(Cached) <= MaxCached
    BY DEF CapacityRespected
  <2>1. Cached = {}
    BY DEF Init, Cached, CachedIn
  <2> QED
    BY <2>1, FS_EmptySet, SuffixCacheAssumption DEF SuffixCacheAssumption
<1> QED
  BY <1>1, CapacityStep, Invariance, PTL DEF Spec

-----------------------------------------------------------------------------
(***************************************************************************)
(* Refinement of ResponseCache.  Keeps(c, d, x): in the record d the       *)
(* response of x is the one it has in c, or is gone.                       *)
(***************************************************************************)
ResponseIn(c, r) == IF c.req[r] = None THEN None ELSE c.tree[c.req[r]]

Keeps(c, d, x) ==
    d.req[x] # None => c.req[x] # None /\ d.tree[d.req[x]] = c.tree[c.req[x]]

LEMMA EvictKeeps ==
    ASSUME NEW c \in CacheType, Consistent(c), NEW S \in SUBSET CachedIn(c),
           NEW x \in Reqs
    PROVE  Keeps(c, EvictFrom(c, S), x)
<1> DEFINE d == EvictFrom(c, S)
<1>1. SUFFICES ASSUME d.req[x] # None
               PROVE  d.req[x] = c.req[x] /\ d.tree[d.req[x]] = c.tree[c.req[x]]
  BY DEF Keeps
<1>2. x \notin S /\ d.req[x] = c.req[x]
  BY <1>1 DEF EvictFrom
<1>3. c.req[x] \in SeqIds
  BY <1>1, <1>2 DEF CacheType
<1>4. c.req[x] \notin {c.req[s] : s \in S}
  BY <1>1, <1>2 DEF Consistent, CachedIn
<1> QED
  BY <1>2, <1>3, <1>4 DEF EvictFrom

LEMMA ReclaimKeeps ==
    ASSUME NEW c \in CacheType, Consistent(c), NEW i \in SeqIds, NEW x \in Reqs
    PROVE  Keeps(c, ReclaimSeqId(c, i), x)
<1>1. CASE c.seq[i] = None
  BY <1>1 DEF ReclaimSeqId, Keeps
<1>2. CASE c.seq[i] # None
  <2> DEFINE d == ReclaimSeqId(c, i)
  <2>1. /\ d.req = [c.req EXCEPT ![c.seq[i]] = None]
        /\ d.tree = [c.tree EXCEPT ![i] = <<>>]
    BY <1>2 DEF ReclaimSeqId
  <2>2. c.seq[i] \in Reqs /\ c.req \in [Reqs -> SeqIds \union {None}]
    BY <1>2 DEF CacheType
  <2>3. SUFFICES ASSUME d.req[x] # None
                 PROVE  d.req[x] = c.req[x] /\ d.tree[d.req[x]] = c.tree[c.req[x]]
    BY DEF Keeps
  <2>4. x # c.seq[i] /\ d.req[x] = c.req[x]
    BY <2>1, <2>2, <2>3
  <2>5. c.req[x] # i
    BY <2>3, <2>4 DEF Consistent
  <2> QED
    BY <2>1, <2>4, <2>5 DEF CacheType
<1> QED
  BY <1>1, <1>2

LEMMA AssignKeeps ==
    ASSUME NEW c \in CacheType, NEW r \in Reqs, NEW i \in SeqIds,
           NEW x \in Reqs, x # r
    PROVE  Keeps(c, AssignSeqId(c, r, i), x)
<1>1. AssignSeqId(c, r, i).req[x] = c.req[x] /\ AssignSeqId(c, r, i).tree = c.tree
  BY DEF AssignSeqId, CacheType
<1> QED
  BY <1>1 DEF Keeps

(* A start opens an empty response and keeps or drops every other. *)
LEMMA StartResponses ==
    ASSUME NEW c \in CacheType, Consistent(c), NEW r \in Reqs, NEW i \in SeqIds,
           NEW own, own = EvictFrom(c, {r} \intersect CachedIn(c)),
           NEW added, added = AssignSeqId(ReclaimSeqId(own, i), r, i),
           NEW S \in SUBSET (CachedIn(added) \ {r})
    PROVE  /\ ResponseIn(EvictFrom(added, S), r) = <<>>
           /\ \A x \in Reqs \ {r} : Keeps(c, EvictFrom(added, S), x)
<1> DEFINE free == ReclaimSeqId(own, i)
<1>1. /\ own \in CacheType /\ Consistent(own)
      /\ added \in CacheType /\ Consistent(added)
  BY StartConsistent
<1>2. free \in CacheType /\ Consistent(free) /\ free.seq[i] = None
  BY <1>1, ReclaimConsistent
<1>3. added.req[r] = i /\ added.tree = free.tree /\ free.tree[i] = <<>>
  BY <1>2 DEF AssignSeqId, CacheType, Consistent
<1>4. ResponseIn(EvictFrom(added, S), r) = <<>>
  BY <1>3, NoneIsNothing DEF EvictFrom, ResponseIn
<1>5. ASSUME NEW x \in Reqs \ {r}
      PROVE  Keeps(c, EvictFrom(added, S), x)
  <2>1. Keeps(c, own, x) /\ Keeps(own, free, x)
    BY <1>1, EvictKeeps, ReclaimKeeps
  <2>2. Keeps(free, added, x) /\ Keeps(added, EvictFrom(added, S), x)
    BY <1>1, <1>2, AssignKeeps, EvictKeeps
  <2> QED
    BY <2>1, <2>2 DEF Keeps
<1> QED
  BY <1>4, <1>5

Responses == [r \in Reqs |-> ResponseIn(cache, r)]

LEMMA RefinementStep ==
    IInv /\ CapacityRespected /\ [Next]_vars => [RC!Next]_(RC!vars)
<1> SUFFICES ASSUME IInv, CapacityRespected, [Next]_vars
             PROVE  RC!Next \/ UNCHANGED <<Active, Responses>>
  BY DEF RC!vars, Responses, ResponseIn
<1> USE NoneIsNothing
<1>1. ASSUME NEW r \in Reqs, NEW p \in Prompts, StartRequest(r, p)
      PROVE  RC!Start(r)
  <2>1. r \notin Active /\ Active' = Active \union {r}
    BY <1>1, SuffixCacheAssumption DEF SuffixCacheAssumption, StartRequest, Active, IInv, TypeOK
  <2> DEFINE dropped == {x \in Reqs \ {r} : cache'.req[x] = None}
  <2>2. ASSUME ResponseIn(cache, r)' \in {<<>>, None},
               \A x \in Reqs \ {r} : Keeps(cache, cache', x)
        PROVE  RC!Start(r)
    <3>1. \A x \in Reqs \ {r} : ResponseIn(cache, x)'
            = IF x \in dropped THEN None ELSE ResponseIn(cache, x)
      BY <2>2 DEF Keeps, ResponseIn
    <3>2. Responses' = [x \in Reqs |-> IF x = r THEN ResponseIn(cache, r)'
                                       ELSE IF x \in dropped THEN None
                                       ELSE Responses[x]]
      BY <3>1 DEF Responses
    <3> HIDE DEF dropped
    <3>3. dropped \in SUBSET (Reqs \ {r})
      BY DEF dropped
    <3> QED
      BY ZenonT(30), <2>1, <2>2, <3>2, <3>3 DEF RC!Start, Responses, ResponseIn
  <2>3. CASE MaxCached = 0
    <3>1. IsFiniteSet(Cached) /\ Cardinality(Cached) = 0
      BY <2>3, CachedFinite, FS_CardinalityType DEF IInv, TypeOK, Cached, CapacityRespected
    <3>2. Cached = {}
      BY <3>1, FS_EmptySet
    <3>3. cache' = cache /\ cache.req[r] = None
      BY <1>1, <2>3, <3>2 DEF StartRequest, Cached, CachedIn
    <3> QED
      BY <2>2, <3>3 DEF ResponseIn, Keeps
  <2>4. CASE MaxCached # 0
    <3> DEFINE own == EvictFrom(cache, {r} \intersect Cached)
               added(i) == AssignSeqId(ReclaimSeqId(own, i), r, i)
    <3>1. PICK i \in SeqIds, S \in SUBSET Reqs :
            Overflow(added(i), r, S) /\ cache' = EvictFrom(added(i), S)
      BY <1>1, <2>4 DEF StartRequest
    <3>2. S \in SUBSET (CachedIn(added(i)) \ {r})
      BY <3>1 DEF Overflow
    <3>3. cache \in CacheType /\ Consistent(cache)
      BY DEF IInv, TypeOK
    <3>4. added(i) = AssignSeqId(ReclaimSeqId(own, i), r, i)
      OBVIOUS
    <3>5. own = EvictFrom(cache, {r} \intersect CachedIn(cache))
      BY DEF Cached
    <3> HIDE DEF own, added
    <3>6. /\ ResponseIn(cache', r) = <<>>
          /\ \A x \in Reqs \ {r} : Keeps(cache, cache', x)
      BY ZenonT(30), <3>1, <3>2, <3>3, <3>4, <3>5, StartResponses
    <3> QED
      BY <2>2, <3>6 DEF ResponseIn
  <2> QED
    BY <2>3, <2>4
<1>2. ASSUME NEW r \in Reqs, StopRequest(r)
      PROVE  RC!Stop(r)
  <2>1. r \in Active /\ Active' = Active \ {r}
    BY <1>2 DEF StopRequest, Active, IInv, TypeOK
  <2> QED
    BY <1>2, <2>1 DEF StopRequest, RC!Stop, ResponseIn
<1>3. ASSUME NEW r \in Reqs, NEW b \in Batches, AddActiveResponse(r, b)
      PROVE  RC!Report(r, b)
  <2>1. local[r] \o b \in Seq(Tokens) /\ local[r] # None
    BY <1>3, SuffixCacheAssumption DEF SuffixCacheAssumption, AddActiveResponse, IInv, TypeOK
  <2>2. r \in Active /\ Active' = Active
    BY <1>3, <2>1 DEF AddActiveResponse, Active, IInv, TypeOK
  <2>3. CASE cache.req[r] = None
    <3>1. cache' = cache /\ Responses[r] = None
      BY <1>3, <2>3 DEF AddActiveResponse, Responses, ResponseIn
    <3>2. Responses' = [Responses EXCEPT ![r] = IF @ = None THEN None ELSE @ \o b]
      BY <3>1 DEF Responses, ResponseIn
    <3> QED
      BY <2>2, <3>2 DEF RC!Report, Responses, ResponseIn
  <2>4. CASE cache.req[r] # None
    <3> DEFINE i == cache.req[r]
    <3>1. i \in SeqIds /\ cache.tree \in [SeqIds -> Seq(Tokens)] /\ cache.seq[i] = r
      BY <2>4 DEF IInv, TypeOK, CacheType, Consistent
    <3>2. /\ cache'.req = cache.req
          /\ cache'.tree = [cache.tree EXCEPT ![i] = @ \o b]
      BY <1>3, <2>4 DEF AddActiveResponse, IInv, TypeOK, CacheType
    <3>3. Responses[r] = cache.tree[i] /\ Responses[r] # None
      BY <2>4, <3>1 DEF Responses, ResponseIn
    <3>4. Responses'[r] = Responses[r] \o b
      BY <2>4, <3>1, <3>2, <3>3 DEF Responses, ResponseIn
    <3>5. \A x \in Reqs \ {r} : Responses'[x] = Responses[x]
      <4> SUFFICES ASSUME NEW x \in Reqs \ {r}, cache.req[x] # None
                   PROVE  cache'.tree[cache.req[x]] = cache.tree[cache.req[x]]
        BY <3>2 DEF Responses, ResponseIn
      <4>1. cache.req[x] \in SeqIds /\ cache.req[x] # i
        BY <3>1 DEF IInv, TypeOK, CacheType, Consistent
      <4> QED
        BY <3>1, <3>2, <4>1
    <3>6. Responses' = [Responses EXCEPT ![r] = IF @ = None THEN None ELSE @ \o b]
      BY <3>3, <3>4, <3>5 DEF Responses
    <3> QED
      BY <2>2, <3>6 DEF RC!Report, Responses, ResponseIn
  <2> QED
    BY <2>3, <2>4
<1>4. ASSUME NEW r \in Reqs, EvictCachedResponse(r)
      PROVE  RC!Drop(r)
  <2>1. {r} \in SUBSET CachedIn(cache) /\ cache' = EvictFrom(cache, {r})
    BY <1>4 DEF EvictCachedResponse, CachedIn
  <2>2. \A x \in Reqs : Keeps(cache, cache', x)
    BY <2>1, EvictKeeps DEF IInv, TypeOK
  <2>3. \A x \in Reqs : cache'.req[x] = IF x = r THEN None ELSE cache.req[x]
    BY <2>1 DEF EvictFrom
  <2>4. Responses' = [Responses EXCEPT ![r] = None]
    BY <2>2, <2>3 DEF Responses, ResponseIn, Keeps
  <2>5. Responses[r] # None
    BY <1>4 DEF EvictCachedResponse, Responses, ResponseIn, IInv, TypeOK, CacheType
  <2>6. Active' = Active
    BY <1>4 DEF EvictCachedResponse, Active
  <2> QED
    BY <2>4, <2>5, <2>6 DEF RC!Drop, Responses, ResponseIn
<1>5. CASE UNCHANGED vars
  BY <1>5 DEF vars, Active, Responses, ResponseIn
<1> QED
  BY <1>1, <1>2, <1>3, <1>4, <1>5 DEF Next, RC!Next

(* Behind its ids, its capacity and its id wrap-around, the cache is a     *)
(* ResponseCache: a response is exactly what its own request has reported  *)
(* since it was opened, and it disappears only whole.                      *)
THEOREM CacheImplementsResponseCache == Spec => ImplementsResponseCache
<1>1. Init => RC!Init
  BY DEF Init, RC!Init, Active
<1> QED
  BY <1>1, RefinementStep, Invariance, CapacityNeverExceeded, PTL
     DEF Spec, RC!Spec, ImplementsResponseCache
-----------------------------------------------------------------------------
(***************************************************************************)
(* First in, first out.  _req_to_seq_id is a dict, and its insertion order *)
(* is what makes an entry the oldest one: cache.older is a strict total    *)
(* order on the cached requests, through each removal and each insertion.  *)
(***************************************************************************)
Ordered(c) ==
    /\ \A x, y \in Reqs : <<x, y>> \in c.older => c.req[x] # None /\ c.req[y] # None
    /\ \A x \in Reqs : <<x, x>> \notin c.older
    /\ \A x, y, z \in Reqs :
         <<x, y>> \in c.older /\ <<y, z>> \in c.older => <<x, z>> \in c.older
    /\ \A x, y \in Reqs :
         c.req[x] # None /\ c.req[y] # None
           => x = y \/ <<x, y>> \in c.older \/ <<y, x>> \in c.older

LEMMA EvictOrdered ==
    ASSUME NEW c \in CacheType, Ordered(c), NEW S \in SUBSET Reqs
    PROVE  Ordered(EvictFrom(c, S))
<1> DEFINE d == EvictFrom(c, S)
<1>1. \A x \in Reqs : d.req[x] = IF x \in S THEN None ELSE c.req[x]
  BY DEF EvictFrom
<1>2. \A x, y \in Reqs : <<x, y>> \in d.older
        <=> <<x, y>> \in c.older /\ x \notin S /\ y \notin S
  BY DEF EvictFrom
<1> HIDE DEF d
<1> QED
  <2>1. Ordered(d)
    BY <1>1, <1>2 DEF Ordered
  <2> QED
    BY <2>1 DEF d

LEMMA ReclaimOrdered ==
    ASSUME NEW c \in CacheType, Consistent(c), Ordered(c), NEW i \in SeqIds
    PROVE  Ordered(ReclaimSeqId(c, i))
<1>1. CASE c.seq[i] = None
  BY <1>1 DEF ReclaimSeqId
<1>2. CASE c.seq[i] # None
  <2> DEFINE d == ReclaimSeqId(c, i)
             v == c.seq[i]
  <2>1. v \in Reqs /\ c.req \in [Reqs -> SeqIds \union {None}]
    BY <1>2 DEF CacheType
  <2>2. \A x \in Reqs : d.req[x] = IF x = v THEN None ELSE c.req[x]
    BY <1>2, <2>1 DEF ReclaimSeqId
  <2>3. \A x, y \in Reqs : <<x, y>> \in d.older
          <=> <<x, y>> \in c.older /\ x # v /\ y # v
    BY <1>2 DEF ReclaimSeqId
  <2> HIDE DEF d, v
  <2>4. Ordered(d)
    BY <2>2, <2>3 DEF Ordered
  <2> QED
    BY <2>4 DEF d
<1> QED
  BY <1>1, <1>2

LEMMA AssignOrdered ==
    ASSUME NEW c \in CacheType, Ordered(c), NEW r \in Reqs, NEW i \in SeqIds,
           c.req[r] = None
    PROVE  Ordered(AssignSeqId(c, r, i))
<1> DEFINE d == AssignSeqId(c, r, i)
<1>1. \A x \in Reqs : d.req[x] = IF x = r THEN i ELSE c.req[x]
  BY DEF AssignSeqId, CacheType
<1>2. \A x, y \in Reqs : <<x, y>> \in d.older
        <=> <<x, y>> \in c.older \/ (c.req[x] # None /\ y = r)
  BY DEF AssignSeqId, CachedIn
<1>3. i # None
  BY NoneIsNothing
<1> HIDE DEF d
<1>4. Ordered(d)
  BY <1>1, <1>2, <1>3 DEF Ordered
<1> QED
  BY <1>4 DEF d

(* What a start does to the order, for any slot i and any evicted S. *)
LEMMA StartOrdered ==
    ASSUME NEW c \in CacheType, Consistent(c), Ordered(c), NEW r \in Reqs, NEW i \in SeqIds,
           NEW own, own = EvictFrom(c, {r} \intersect CachedIn(c)),
           NEW added, added = AssignSeqId(ReclaimSeqId(own, i), r, i),
           NEW S \in SUBSET CachedIn(added)
    PROVE  Ordered(own) /\ Ordered(added) /\ Ordered(EvictFrom(added, S))
<1>1. /\ own \in CacheType /\ Consistent(own) /\ own.req[r] = None
      /\ added \in CacheType
  BY StartConsistent
<1>2. Ordered(own)
  BY EvictOrdered
<1>3. /\ ReclaimSeqId(own, i) \in CacheType
      /\ ReclaimSeqId(own, i).req[r] = None
  BY <1>1, ReclaimConsistent
<1>4. Ordered(ReclaimSeqId(own, i))
  BY <1>1, <1>2, ReclaimOrdered
<1>5. Ordered(added)
  BY <1>3, <1>4, AssignOrdered
<1>6. S \in SUBSET Reqs
  BY DEF CachedIn
<1> QED
  BY <1>1, <1>2, <1>5, <1>6, EvictOrdered

AgesOrdered == Ordered(cache)

LEMMA OrderStep == IInv /\ AgesOrdered /\ [Next]_vars => AgesOrdered'
<1> SUFFICES ASSUME IInv, Ordered(cache), [Next]_vars PROVE Ordered(cache')
  BY DEF AgesOrdered
<1>1. ASSUME NEW r \in Reqs, NEW p \in Prompts, StartRequest(r, p)
      PROVE  Ordered(cache')
  <2>1. CASE MaxCached = 0
    BY <1>1, <2>1 DEF StartRequest
  <2>2. CASE MaxCached # 0
    <3> DEFINE own == EvictFrom(cache, {r} \intersect Cached)
               added(i) == AssignSeqId(ReclaimSeqId(own, i), r, i)
    <3>1. PICK i \in SeqIds, S \in SUBSET Reqs :
            /\ Overflow(added(i), r, S)
            /\ cache' = EvictFrom(added(i), S)
      BY <1>1, <2>2 DEF StartRequest
    <3>2. S \in SUBSET CachedIn(added(i))
      BY <3>1 DEF Overflow
    <3> QED
      BY <3>1, <3>2, StartOrdered DEF IInv, TypeOK, Cached
  <2> QED
    BY <2>1, <2>2
<1>2. ASSUME NEW r \in Reqs, StopRequest(r)
      PROVE  Ordered(cache')
  BY <1>2 DEF StopRequest
<1>3. ASSUME NEW r \in Reqs, NEW b \in Batches, AddActiveResponse(r, b)
      PROVE  Ordered(cache')
  <2>1. cache'.req = cache.req /\ cache'.older = cache.older
    BY <1>3 DEF AddActiveResponse, IInv, TypeOK, CacheType
  <2> QED
    BY <2>1 DEF Ordered
<1>4. ASSUME NEW r \in Reqs, EvictCachedResponse(r)
      PROVE  Ordered(cache')
  BY <1>4, EvictOrdered DEF EvictCachedResponse, IInv, TypeOK
<1>5. CASE UNCHANGED vars
  BY <1>5 DEF vars
<1> QED
  BY <1>1, <1>2, <1>3, <1>4, <1>5 DEF Next

(* The ages of the cached responses are a strict total order on them. *)
THEOREM AgesAreAnOrder == Spec => []AgesOrdered
<1>1. Init => AgesOrdered
  BY DEF Init, Ordered, AgesOrdered
<1> QED
  BY <1>1, OrderStep, Invariance, PTL DEF Spec

LEMMA FifoStep ==
    ASSUME IInv, AgesOrdered, [Next]_vars, NEW r \in Reqs, NEW v \in Reqs,
           local[r] = None, local'[r] # None, v # r,
           cache.req[v] # None, cache'.req[v] = None, cache'.req[r] # cache.req[v],
           NEW u \in Reqs \ {r}, cache'.req[u] # None
    PROVE  <<v, u>> \in cache.older
<1>1. PICK p \in Prompts : StartRequest(r, p)
  <2>1. ASSUME NEW x \in Reqs, NEW p \in Prompts, StartRequest(x, p) PROVE x = r
    BY <2>1 DEF StartRequest, IInv, TypeOK
  <2>2. ASSUME NEW x \in Reqs PROVE ~ StopRequest(x) /\ ~ EvictCachedResponse(x)
    BY DEF StopRequest, EvictCachedResponse, IInv, TypeOK
  <2>3. ASSUME NEW x \in Reqs, NEW b \in Batches PROVE ~ AddActiveResponse(x, b)
    BY DEF AddActiveResponse, IInv, TypeOK
  <2> QED
    BY <2>1, <2>2, <2>3 DEF Next, vars
<1>2. MaxCached # 0
  BY <1>1 DEF StartRequest
<1> DEFINE own == EvictFrom(cache, {r} \intersect Cached)
           free(i) == ReclaimSeqId(own, i)
           added(i) == AssignSeqId(free(i), r, i)
<1>3. PICK i \in SeqIds, S \in SUBSET Reqs :
        Overflow(added(i), r, S) /\ cache' = EvictFrom(added(i), S)
  BY <1>1, <1>2 DEF StartRequest
<1>4. S \in SUBSET CachedIn(added(i)) /\ r \notin S
  BY <1>3 DEF Overflow
<1>5. /\ own \in CacheType /\ Consistent(own)
      /\ added(i) \in CacheType /\ Consistent(added(i)) /\ Ordered(added(i))
  BY <1>4, StartConsistent, StartOrdered DEF IInv, TypeOK, AgesOrdered, Cached
<1>6. free(i) \in CacheType
  BY <1>5, ReclaimConsistent
<1>7. own.req[v] = cache.req[v]
  BY DEF EvictFrom
<1>8. added(i).req[r] = i /\ \A x \in Reqs \ {r} : added(i).req[x] = free(i).req[x]
  BY <1>6 DEF AssignSeqId, CacheType
<1>9. cache'.req[r] = i
  BY <1>3, <1>4, <1>8 DEF EvictFrom
(* v did not lose its id to r, so it left by the overflow. *)
<1>10. v \in S
  <2>1. own.seq[i] # v
    <3>1. own.seq[i] # None => own.req[own.seq[i]] = i
      BY <1>5 DEF Consistent
    <3> HIDE DEF own
    <3> QED
      BY <1>7, <1>9, <3>1, NoneIsNothing
  <2>2. free(i).req[v] = own.req[v]
    BY <1>5, <2>1 DEF ReclaimSeqId, CacheType
  <2> QED
    BY <1>3, <1>7, <1>8, <2>2 DEF EvictFrom
<1>11. u \notin S /\ added(i).req[u] # None
  BY <1>3 DEF EvictFrom
<1>12. <<v, u>> \in added(i).older
  <2>1. <<u, v>> \notin added(i).older
    BY <1>3, <1>10, <1>11 DEF Overflow, CachedIn
  <2>2. added(i).req[v] # None
    BY <1>4, <1>10 DEF CachedIn
  <2> QED
    BY <1>5, <1>10, <1>11, <2>1, <2>2 DEF Ordered
<1>13. <<v, u>> \in own.older
  <2>1. <<v, u>> \in free(i).older
    BY <1>12 DEF AssignSeqId
  <2> QED
    BY <2>1 DEF ReclaimSeqId
<1> QED
  BY <1>13 DEF EvictFrom

(* cache.py's "FIFO order" of _maybe_evict_requests: what leaves because   *)
(* the cache is full is older than everything that stays.                  *)
THEOREM EvictionIsFifo == Spec => FifoEviction
<1>1. IInv /\ AgesOrdered /\ [Next]_vars =>
        [\A r, v \in Reqs :
           (/\ local[r] = None /\ local'[r] # None /\ v # r
            /\ cache.req[v] # None /\ cache'.req[v] = None
            /\ cache'.req[r] # cache.req[v])
           => \A u \in Reqs \ {r} :
                cache'.req[u] # None => <<v, u>> \in cache.older]_vars
  BY FifoStep
<1> QED
  BY <1>1, AgesAreAnOrder, Invariance, PTL DEF Spec, FifoEviction

(* Without a limit, a start evicts nothing of another active request, by   *)
(* overflow or by taking its id over.                                      *)
LEMMA UnlimitedStartKeepsActive ==
    ASSUME IInv, MaxCached < 0, NEW x \in Reqs, NEW p \in Prompts, StartRequest(x, p),
           NEW r \in Reqs, local[r] # None, cache.req[r] # None
    PROVE  cache'.req[r] = cache.req[r]
<1> DEFINE own == EvictFrom(cache, {x} \intersect Cached)
           free(i) == ReclaimSeqId(own, i)
           added(i) == AssignSeqId(free(i), x, i)
<1>1. PICK i \in SeqIds, S \in SUBSET Reqs :
        /\ FirstUsable(own, Active \union {x}, i)
        /\ Overflow(added(i), x, S)
        /\ cache' = EvictFrom(added(i), S)
  BY DEF StartRequest
<1>2. S \in SUBSET CachedIn(added(i))
  BY <1>1 DEF Overflow
<1>3. own \in CacheType /\ Consistent(own) /\ added(i) \in CacheType /\ Consistent(added(i))
  BY <1>2, StartConsistent DEF IInv, TypeOK, Cached
<1>4. free(i) \in CacheType
  BY <1>3, ReclaimConsistent
<1>5. x # r /\ r \in Active
  BY DEF StartRequest, Active
<1>6. own.req[r] = cache.req[r]
  BY <1>5 DEF EvictFrom
<1>7. own.seq[i] # r
  BY <1>1, <1>5, NoneIsNothing DEF FirstUsable, Usable
<1>8. free(i).req[r] = own.req[r]
  BY <1>3, <1>7 DEF ReclaimSeqId, CacheType
<1>9. added(i).req[r] = free(i).req[r]
  BY <1>4, <1>5 DEF AssignSeqId, CacheType
<1>10. S = {}
  <2>1. IsFiniteSet(S)
    BY <1>2, <1>3, CachedFinite, FS_Subset
  <2>2. Cardinality(S) = 0
    BY <1>1, SuffixCacheAssumption DEF Overflow, SuffixCacheAssumption
  <2> QED
    BY <2>1, <2>2, FS_EmptySet
<1> QED
  BY <1>1, <1>6, <1>8, <1>9, <1>10 DEF EvictFrom

(* Without a limit, _next_seq_id may wrap around as often as it likes: a   *)
(* running request loses its slot to nothing but its own eviction.         *)
THEOREM UnlimitedKeepsSeqIds == Spec => ActiveKeepsItsSeqId
<1>1. ASSUME IInv, [Next]_vars, NEW r \in Reqs,
             MaxCached < 0, local[r] # None, local'[r] # None,
             cache.req[r] # None, cache'.req[r] # cache.req[r]
      PROVE  cache' = EvictFrom(cache, {r})
  <2>1. ASSUME NEW x \in Reqs PROVE ~ StopRequest(x)
    BY <1>1 DEF StopRequest
  <2>2. ASSUME NEW x \in Reqs, NEW p \in Prompts PROVE ~ StartRequest(x, p)
    BY <1>1, UnlimitedStartKeepsActive
  <2>3. ASSUME NEW x \in Reqs, NEW b \in Batches PROVE ~ AddActiveResponse(x, b)
    BY <1>1 DEF AddActiveResponse, IInv, TypeOK, CacheType
  <2>4. PICK x \in Reqs : EvictCachedResponse(x)
    BY <1>1, <2>1, <2>2, <2>3 DEF Next, vars
  <2>5. x = r
    BY <1>1, <2>4 DEF EvictCachedResponse, EvictFrom
  <2> QED
    BY <2>4, <2>5 DEF EvictCachedResponse
<1>2. IInv /\ [Next]_vars =>
        [\A r \in Reqs :
           (/\ MaxCached < 0 /\ local[r] # None /\ local'[r] # None
            /\ cache.req[r] # None /\ cache'.req[r] # cache.req[r])
           => cache' = EvictFrom(cache, {r})]_vars
  BY <1>1
<1> QED
  BY <1>2, Invariance, PTL DEF Spec, ActiveKeepsItsSeqId

-----------------------------------------------------------------------------
(***************************************************************************)
(* The two trees add_active_response writes.  EndsWith(own, resp): the     *)
(* tokens resp are the last ones of own.                                   *)
(***************************************************************************)
EndsWith(own, resp) ==
    /\ Len(resp) <= Len(own)
    /\ resp = SubSeq(own, Len(own) - Len(resp) + 1, Len(own))

LEMMA EndsWithEmpty == ASSUME NEW own \in Seq(Tokens) PROVE EndsWith(own, <<>>)
<1>1. Len(own) \in Nat /\ Len(<<>>) = 0
  BY LenProperties, EmptySeq
<1>2. SubSeq(own, Len(own) + 1, Len(own)) = <<>>
  BY <1>1, SubSeqEmpty
<1> QED
  BY <1>1, <1>2 DEF EndsWith

LEMMA EndsWithAppended ==
    ASSUME NEW own \in Seq(Tokens), NEW resp \in Seq(Tokens), NEW b \in Seq(Tokens),
           EndsWith(own, resp)
    PROVE  EndsWith(own \o b, resp \o b)
<1> DEFINE n == Len(own)
           k == Len(resp)
           m == Len(b)
           d == n - k
           tail == SubSeq(own \o b, d + 1, n + m)
<1>1. n \in Nat /\ k \in Nat /\ m \in Nat /\ k <= n /\ d \in Nat
  BY LenProperties DEF EndsWith
<1>2. /\ own \o b \in Seq(Tokens) /\ Len(own \o b) = n + m
      /\ \A i \in 1 .. n + m : (own \o b)[i] = IF i <= n THEN own[i] ELSE b[i - n]
  BY ConcatProperties
<1>3. /\ resp \o b \in Seq(Tokens) /\ Len(resp \o b) = k + m
      /\ \A i \in 1 .. k + m : (resp \o b)[i] = IF i <= k THEN resp[i] ELSE b[i - k]
  BY ConcatProperties
<1>4. \A i \in 1 .. k : resp[i] = own[d + i]
  <2>1. resp = SubSeq(own, d + 1, n)
    BY <1>1 DEF EndsWith
  <2>2. \A i \in d + 1 .. n : own[i] \in Tokens
    BY <1>1, ElementOfSeq
  <2>3. \A i \in 1 .. n - (d + 1) + 1 : SubSeq(own, d + 1, n)[i] = own[(d + 1) + i - 1]
    BY <1>1, <2>2, SubSeqProperties
  <2>4. \A i \in 1 .. k : i \in 1 .. n - (d + 1) + 1 /\ (d + 1) + i - 1 = d + i
    BY <1>1
  <2>5. \A i \in 1 .. k : SubSeq(own, d + 1, n)[i] = own[d + i]
    BY <2>3, <2>4
  <2> HIDE DEF d, n, k
  <2> QED
    BY <2>1, <2>5
<1>5. /\ tail \in Seq(Tokens) /\ Len(tail) = k + m
      /\ \A i \in 1 .. k + m : tail[i] = (own \o b)[d + i]
  <2>1. \A i \in d + 1 .. n + m : (own \o b)[i] \in Tokens
    BY <1>1, <1>2, ElementOfSeq
  <2>2. /\ tail \in Seq(Tokens)
        /\ Len(tail) = IF d + 1 <= n + m THEN (n + m) - (d + 1) + 1 ELSE 0
        /\ \A i \in 1 .. (n + m) - (d + 1) + 1 : tail[i] = (own \o b)[(d + 1) + i - 1]
    BY SMTT(30), <1>1, <2>1, SubSeqProperties
  <2> HIDE DEF tail
  <2>3. d + 1 <= n + m \/ k + m = 0
    BY <1>1
  <2>4. Len(tail) = k + m
    BY <1>1, <2>2, <2>3
  <2>5. \A i \in 1 .. k + m : i \in 1 .. (n + m) - (d + 1) + 1 /\ (d + 1) + i - 1 = d + i
    BY <1>1
  <2>6. \A i \in 1 .. k + m : tail[i] = (own \o b)[d + i]
    <3> HIDE DEF d, n, k, m
    <3> QED
      BY <2>2, <2>5
  <2> HIDE DEF d, n, k, m
  <2> QED
    BY <2>2, <2>4, <2>6
<1>6. \A i \in 1 .. k + m : (resp \o b)[i] = tail[i]
  <2> SUFFICES ASSUME NEW i \in 1 .. k + m PROVE (resp \o b)[i] = (own \o b)[d + i]
    BY <1>5
  <2> HIDE DEF tail
  <2>1. d + i \in 1 .. n + m /\ (d + i <= n <=> i <= k) /\ (d + i) - n = i - k
    BY <1>1
  <2>2. (own \o b)[d + i] = IF i <= k THEN own[d + i] ELSE b[i - k]
    BY <1>2, <2>1
  <2>3. (resp \o b)[i] = IF i <= k THEN resp[i] ELSE b[i - k]
    BY <1>3
  <2> QED
    BY <1>1, <1>4, <2>2, <2>3
<1>7. resp \o b = tail
  BY <1>3, <1>5, <1>6, SeqEqual
<1> QED
  BY SMTT(30), <1>1, <1>2, <1>3, <1>7 DEF EndsWith

LEMMA TailStep ==
    IInv /\ CapacityRespected /\ LocalEndsWithResponse /\ [Next]_vars => LocalEndsWithResponse'
<1> SUFFICES ASSUME IInv, CapacityRespected, LocalEndsWithResponse, [Next]_vars,
                    NEW x \in Reqs, local'[x] # None, cache'.req[x] # None
             PROVE  EndsWith(local'[x], cache'.tree[cache'.req[x]])
  BY DEF LocalEndsWithResponse, EndsWith, Active, Cached, CachedIn
<1>1. local[x] # None /\ cache.req[x] # None => EndsWith(local[x], cache.tree[cache.req[x]])
  BY DEF LocalEndsWithResponse, EndsWith, Active, Cached, CachedIn
<1>2. ASSUME local'[x] = local[x], Keeps(cache, cache', x)
      PROVE  EndsWith(local'[x], cache'.tree[cache'.req[x]])
  BY <1>1, <1>2 DEF Keeps
<1>3. ASSUME NEW r \in Reqs, NEW p \in Prompts, StartRequest(r, p)
      PROVE  EndsWith(local'[x], cache'.tree[cache'.req[x]])
  <2>1. CASE MaxCached = 0
    <3>1. IsFiniteSet(Cached) /\ Cardinality(Cached) = 0
      BY <2>1, CachedFinite, FS_CardinalityType DEF IInv, TypeOK, Cached, CapacityRespected
    <3>2. Cached = {} /\ cache' = cache
      BY <1>3, <2>1, <3>1, FS_EmptySet DEF StartRequest
    <3> QED
      BY <3>2 DEF Cached, CachedIn
  <2>2. CASE MaxCached # 0
    <3> DEFINE own == EvictFrom(cache, {r} \intersect Cached)
               added(i) == AssignSeqId(ReclaimSeqId(own, i), r, i)
    <3>1. PICK i \in SeqIds, S \in SUBSET Reqs :
            Overflow(added(i), r, S) /\ cache' = EvictFrom(added(i), S)
      BY <1>3, <2>2 DEF StartRequest
    <3>2. S \in SUBSET (CachedIn(added(i)) \ {r})
      BY <3>1 DEF Overflow
    <3>3. cache \in CacheType /\ Consistent(cache)
      BY DEF IInv, TypeOK
    <3>4. added(i) = AssignSeqId(ReclaimSeqId(own, i), r, i)
      OBVIOUS
    <3>5. own = EvictFrom(cache, {r} \intersect CachedIn(cache))
      BY DEF Cached
    <3> HIDE DEF own, added
    <3>6. /\ ResponseIn(cache', r) = <<>>
          /\ \A y \in Reqs \ {r} : Keeps(cache, cache', y)
      BY ZenonT(30), <3>1, <3>2, <3>3, <3>4, <3>5, StartResponses
    <3>7. CASE x = r
      <4>1. cache'.tree[cache'.req[x]] = <<>>
        BY <3>6, <3>7 DEF ResponseIn
      <4>2. local'[x] \in Seq(Tokens)
        BY <1>3, <3>7, SuffixCacheAssumption DEF StartRequest, IInv, TypeOK, SuffixCacheAssumption
      <4> QED
        BY <4>1, <4>2, EndsWithEmpty
    <3>8. CASE x # r
      BY <1>2, <1>3, <3>6, <3>8 DEF StartRequest, IInv, TypeOK
    <3> QED
      BY <3>7, <3>8
  <2> QED
    BY <2>1, <2>2
<1>4. ASSUME NEW r \in Reqs, StopRequest(r)
      PROVE  EndsWith(local'[x], cache'.tree[cache'.req[x]])
  <2>1. x # r
    BY <1>4 DEF StopRequest, IInv, TypeOK
  <2> QED
    BY <1>2, <1>4, <2>1 DEF StopRequest, Keeps, IInv, TypeOK
<1>5. ASSUME NEW r \in Reqs, NEW b \in Batches, AddActiveResponse(r, b)
      PROVE  EndsWith(local'[x], cache'.tree[cache'.req[x]])
  <2> DEFINE i == cache.req[r]
  <2>1. cache'.req = cache.req /\ cache.tree \in [SeqIds -> Seq(Tokens)]
    BY <1>5 DEF AddActiveResponse, IInv, TypeOK, CacheType
  <2>2. CASE x = r
    <3>1. i \in SeqIds /\ i # None
      BY <2>1, <2>2 DEF IInv, TypeOK, CacheType
    <3>2. cache'.tree = [cache.tree EXCEPT ![i] = @ \o b]
      BY <1>5, <3>1 DEF AddActiveResponse, IInv, TypeOK, CacheType
    <3>3. local[r] \in Seq(Tokens) /\ b \in Seq(Tokens) /\ local'[r] = local[r] \o b
      BY <1>5, SuffixCacheAssumption
         DEF AddActiveResponse, IInv, TypeOK, SuffixCacheAssumption
    <3>4. cache'.tree[i] = cache.tree[i] \o b /\ cache.tree[i] \in Seq(Tokens)
      BY <2>1, <3>1, <3>2
    <3>5. EndsWith(local[r], cache.tree[i])
      BY <1>1, <1>5, <2>2, <3>1 DEF AddActiveResponse
    <3>6. EndsWith(local[r] \o b, cache.tree[i] \o b)
      BY <3>3, <3>4, <3>5, EndsWithAppended
    <3> QED
      BY <2>1, <2>2, <3>3, <3>4, <3>6
  <2>3. CASE x # r
    <3>1. cache.req[x] \in SeqIds /\ cache.req[x] # None
      BY <2>1 DEF IInv, TypeOK, CacheType
    <3>2. cache'.tree[cache.req[x]] = cache.tree[cache.req[x]]
      <4>1. CASE i = None
        BY <1>5, <4>1 DEF AddActiveResponse
      <4>2. CASE i # None
        <5>1. i # cache.req[x]
          BY <2>3, <3>1, <4>2 DEF IInv, Consistent
        <5>2. cache'.tree = [cache.tree EXCEPT ![i] = @ \o b]
          BY <1>5, <4>2 DEF AddActiveResponse, IInv, TypeOK, CacheType
        <5> QED
          BY <2>1, <3>1, <5>1, <5>2
      <4> QED
        BY <4>1, <4>2
    <3>3. local'[x] = local[x]
      BY <1>5, <2>3 DEF AddActiveResponse, IInv, TypeOK
    <3> QED
      BY <1>2, <2>1, <3>1, <3>2, <3>3 DEF Keeps
  <2> QED
    BY <2>2, <2>3
<1>6. ASSUME NEW r \in Reqs, EvictCachedResponse(r)
      PROVE  EndsWith(local'[x], cache'.tree[cache'.req[x]])
  <2>1. {r} \in SUBSET CachedIn(cache) /\ cache' = EvictFrom(cache, {r})
    BY <1>6 DEF EvictCachedResponse, CachedIn
  <2>2. Keeps(cache, cache', x)
    BY <2>1, EvictKeeps DEF IInv, TypeOK
  <2> QED
    BY <1>2, <1>6, <2>2 DEF EvictCachedResponse
<1>7. CASE UNCHANGED vars
  BY <1>2, <1>7 DEF vars, Keeps
<1> QED
  BY <1>3, <1>4, <1>5, <1>6, <1>7 DEF Next

(* The local tree and the cached response of a running request never drift *)
(* apart: what is cached is the tail of what the local tree holds.         *)
THEOREM ResponseIsTailOfLocal == Spec => []LocalEndsWithResponse
<1>1. Init => LocalEndsWithResponse
  BY DEF Init, LocalEndsWithResponse, Active
<1> QED
  BY <1>1, TailStep, Invariance, CapacityNeverExceeded, PTL DEF Spec

=============================================================================
