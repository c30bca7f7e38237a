---------------------------- MODULE SuffixCache ----------------------------
(***************************************************************************)
(* SuffixDecodingCache (arctic_inference/suffix_decoding/cache.py): one    *)
(* local tree per active request, one global tree shared by all responses, *)
(* and the two maps that give each cached response a sequence id in the    *)
(* global tree.  A tree is abstracted here to the token sequences it holds *)
(* (SuffixTree models the tree itself); an absent sequence is the empty    *)
(* one, as in SuffixTree::remove and SuffixTree::append.                   *)
(***************************************************************************)
EXTENDS Integers, Sequences, FiniteSets

CONSTANTS
    Reqs,       \* request identifiers
    Tokens,     \* token ids
    Prompts,    \* prompts a request may start with
    Batches,    \* token sequences a request may report at once
    NumSeqIds,  \* size of the sequence-id space (2^31 in the code)
    MaxCached,  \* max_cached_requests: < 0 unlimited, 0 disabled
    MaxLen,     \* bound of the model: tokens a local tree may hold
    None        \* no local tree / no sequence id / no owner

ASSUME SuffixCacheAssumption ==
    /\ Prompts \subseteq Seq(Tokens)
    /\ Batches \subseteq Seq(Tokens)
    /\ NumSeqIds \in Nat \ {0}
    /\ MaxCached \in Int
    /\ MaxLen \in Nat
    /\ None \notin Reqs \union Seq(Tokens) \union Int

VARIABLES
    local,      \* local[r]: the sequence in r's local tree, None if inactive
    cache,      \* the global cache, a record of the fields below
    nextSeqId   \* _next_seq_id

vars == <<local, cache, nextSeqId>>

SeqIds == 0 .. (NumSeqIds - 1)

(***************************************************************************)
(* cache.req is _req_to_seq_id, cache.seq is _seq_to_req_id, cache.older   *)
(* the insertion order of _req_to_seq_id (pairs of an older and a younger  *)
(* key) and cache.tree the sequences held by _global_tree.                 *)
(***************************************************************************)
CacheType ==
    [req   : [Reqs -> SeqIds \union {None}],
     seq   : [SeqIds -> Reqs \union {None}],
     older : SUBSET (Reqs \X Reqs),
     tree  : [SeqIds -> Seq(Tokens)]]

Active == {r \in Reqs : local[r] # None}
CachedIn(c) == {r \in Reqs : c.req[r] # None}
Cached == CachedIn(cache)

TypeOK ==
    /\ local \in [Reqs -> Seq(Tokens) \union {None}]
    /\ cache \in CacheType
    /\ nextSeqId \in SeqIds

Init ==
    /\ local = [r \in Reqs |-> None]
    /\ cache = [req   |-> [r \in Reqs |-> None],
                seq   |-> [i \in SeqIds |-> None],
                older |-> {},
                tree  |-> [i \in SeqIds |-> <<>>]]
    /\ nextSeqId = 0

(* Evictions gone wrong: the entry of _seq_to_req_id survives, or the      *)
(* sequence stays in the global tree.                                      *)
EvictKeepingOwner(c, S) ==
    [req   |-> [r \in Reqs |-> IF r \in S THEN None ELSE c.req[r]],
     seq   |-> c.seq,
     older |-> {p \in c.older : p[1] \notin S /\ p[2] \notin S},
     tree  |-> [i \in SeqIds |-> IF i \in {c.req[r] : r \in S} THEN <<>> ELSE c.tree[i]]]

EvictKeepingSequence(c, S) ==
    LET gone == {c.req[r] : r \in S}
    IN  [req   |-> [r \in Reqs |-> IF r \in S THEN None ELSE c.req[r]],
         seq   |-> [i \in SeqIds |-> IF i \in gone THEN None ELSE c.seq[i]],
         older |-> {p \in c.older : p[1] \notin S /\ p[2] \notin S},
         tree  |-> c.tree]

(* evict_cached_response, for each request of S in turn. *)
EvictFrom(c, S) ==
    LET gone == {c.req[r] : r \in S}
    IN  [req   |-> [r \in Reqs |-> IF r \in S THEN None ELSE c.req[r]],
         seq   |-> [i \in SeqIds |-> IF i \in gone THEN None ELSE c.seq[i]],
         older |-> {p \in c.older : p[1] \notin S /\ p[2] \notin S},
         tree  |-> [i \in SeqIds |-> IF i \in gone THEN <<>> ELSE c.tree[i]]]

(* Wrong: any id, also that of an active request. *)
AnyUsable(c, act, i) == TRUE

(* An id may be handed out unless an active request owns it. *)
Usable(c, act, i) == c.seq[i] = None \/ c.seq[i] \notin act

(* The id the search of _generate_seq_id stops at: the first usable one in *)
(* cyclic order from _next_seq_id.                                         *)
FirstUsable(c, act, i) ==
    /\ Usable(c, act, i)
    /\ \E d \in 0 .. (NumSeqIds - 1) :
         /\ i = (nextSeqId + d) % NumSeqIds
         /\ \A e \in 0 .. (d - 1) : ~ Usable(c, act, (nextSeqId + e) % NumSeqIds)

(* The id after i: the next non-negative int32_t value; wrong when it does *)
(* not wrap around.                                                        *)
UnwrappedSuccessor(i) == i + 1
Successor(i) == (i + 1) % NumSeqIds

ReclaimKeepingSequence(c, i) ==
    IF c.seq[i] = None THEN c
    ELSE [c EXCEPT !.req[c.seq[i]] = None,
                   !.seq[i] = None,
                   !.older = {p \in @ : p[1] # c.seq[i] /\ p[2] # c.seq[i]}]

(* An id that wrapped around onto a finished request takes its slot over. *)
ReclaimSeqId(c, i) ==
    IF c.seq[i] = None THEN c
    ELSE [req   |-> [c.req EXCEPT ![c.seq[i]] = None],
          seq   |-> [c.seq EXCEPT ![i] = None],
          older |-> {p \in c.older : p[1] # c.seq[i] /\ p[2] # c.seq[i]},
          tree  |-> [c.tree EXCEPT ![i] = <<>>]]

AssignSeqId(c, r, i) ==
    [c EXCEPT !.req[r] = i,
              !.seq[i] = r,
              !.older = @ \union (CachedIn(c) \X {r})]

(* Wrong: one entry too many is kept, or the youngest entries go first. *)
OverflowByOne(c, r, S) ==
    /\ S \subseteq CachedIn(c) \ {r}
    /\ \A x \in CachedIn(c) \ {r}, y \in S : <<x, y>> \in c.older => x \in S
    /\ Cardinality(S) =
         IF MaxCached >= 0 /\ Cardinality(CachedIn(c)) > MaxCached + 1
         THEN Cardinality(CachedIn(c)) - MaxCached - 1 ELSE 0

OverflowYoungest(c, r, S) ==
    /\ S \subseteq CachedIn(c) \ {r}
    /\ \A x \in CachedIn(c) \ {r}, y \in S : <<y, x>> \in c.older => x \in S
    /\ Cardinality(S) =
         IF MaxCached >= 0 /\ Cardinality(CachedIn(c)) > MaxCached
         THEN Cardinality(CachedIn(c)) - MaxCached ELSE 0

(* The S that _maybe_evict_requests evicts: as many of the oldest entries, *)
(* the new one excepted, as exceed the limit.                              *)
Overflow(c, r, S) ==
    /\ S \subseteq CachedIn(c) \ {r}
    /\ \A x \in CachedIn(c) \ {r}, y \in S : <<x, y>> \in c.older => x \in S
    /\ Cardinality(S) =
         IF MaxCached >= 0 /\ Cardinality(CachedIn(c)) > MaxCached
         THEN Cardinality(CachedIn(c)) - MaxCached ELSE 0

(* start_request; refused with a ValueError for an active request. *)
StartRequest(r, p) ==
    /\ local[r] = None
    /\ local' = [local EXCEPT ![r] = p]
    /\ IF MaxCached = 0
       THEN UNCHANGED <<cache, nextSeqId>>
       ELSE \E i \in SeqIds, S \in SUBSET Reqs :
              LET own   == EvictFrom(cache, {r} \intersect Cached)
                  added == AssignSeqId(ReclaimSeqId(own, i), r, i)
              IN  /\ FirstUsable(own, Active \union {r}, i)
                  /\ Overflow(added, r, S)
                  /\ cache' = EvictFrom(added, S)
                  /\ nextSeqId' = Successor(i)

(* stop_request: the local tree goes, the cached response stays. *)
StopRequest(r) ==
    /\ local[r] # None
    /\ local' = [local EXCEPT ![r] = None]
    /\ UNCHANGED <<cache, nextSeqId>>

(* Wrong: only the global tree is extended. *)
AddGlobalOnly(r, b) ==
    /\ local[r] # None
    /\ Len(local[r]) + Len(b) <= MaxLen
    /\ cache' = IF cache.req[r] = None THEN cache
                ELSE [cache EXCEPT !.tree[cache.req[r]] = @ \o b]
    /\ UNCHANGED <<local, nextSeqId>>

(* add_active_response: into the local tree, and into the global one when  *)
(* the response has not been evicted since the request was started.        *)
AddActiveResponse(r, b) ==
    /\ local[r] # None
    /\ Len(local[r]) + Len(b) <= MaxLen
    /\ local' = [local EXCEPT ![r] = @ \o b]
    /\ cache' = IF cache.req[r] = None THEN cache
                ELSE [cache EXCEPT !.tree[cache.req[r]] = @ \o b]
    /\ UNCHANGED nextSeqId

(* evict_cached_response, called from outside. *)
EvictCachedResponse(r) ==
    /\ cache.req[r] # None
    /\ cache' = EvictFrom(cache, {r})
    /\ UNCHANGED <<local, nextSeqId>>

Next ==
    \E r \in Reqs :
        \/ \E p \in Prompts : StartRequest(r, p)
        \/ StopRequest(r)
        \/ \E b \in Batches : AddActiveResponse(r, b)
        \/ EvictCachedResponse(r)

Spec == Init /\ [][Next]_vars

-----------------------------------------------------------------------------
(* The two maps are inverse to each other: no sequence id is shared by two *)
(* requests and none is left behind by an eviction, whatever the order of  *)
(* starts, wrap-arounds and evictions that use cache.py's three removal    *)
(* paths (explicit, collision, overflow).                                  *)
MapsInverse ==
    /\ \A r \in Reqs : cache.req[r] # None => cache.seq[cache.req[r]] = r
    /\ \A i \in SeqIds : cache.seq[i] # None => cache.req[cache.seq[i]] = i

(* The global tree holds no sequence that the maps have forgotten, so an   *)
(* id handed out again starts from an empty sequence.                      *)
NoOrphanSequence ==
    \A i \in SeqIds : cache.seq[i] = None => cache.tree[i] = <<>>

(* What is cached for an active request is the tail of what its own local  *)
(* tree holds: the two trees add_active_response writes never drift apart. *)
LocalEndsWithResponse ==
    \A r \in Active \intersect Cached :
        LET resp == cache.tree[cache.req[r]]
            own  == local[r]
        IN  /\ Len(resp) <= Len(own)
            /\ resp = SubSeq(own, Len(own) - Len(resp) + 1, Len(own))

(* The limit of _maybe_evict_requests is never exceeded between calls. *)
CapacityRespected ==
    MaxCached >= 0 => Cardinality(Cached) <= MaxCached

(* Eviction under the limit is first-in first-out: a response that leaves  *)
(* while another request starts, without losing its id to it, is older     *)
(* than every response that stays (cache.py's "FIFO order").               *)
FifoEviction ==
    [][\A r, v \in Reqs :
         (/\ local[r] = None /\ local'[r] # None /\ v # r
          /\ cache.req[v] # None /\ cache'.req[v] = None
          /\ cache'.req[r] # cache.req[v])
         => \A u \in Reqs \ {r} :
              cache'.req[u] # None => <<v, u>> \in cache.older]_vars

(* With no limit on the cache, wrapping around the id space never costs a  *)
(* running request its slot: only its own eviction does.                   *)
ActiveKeepsItsSeqId ==
    [][\A r \in Reqs :
         (/\ MaxCached < 0 /\ local[r] # None /\ local'[r] # None
          /\ cache.req[r] # None /\ cache'.req[r] # cache.req[r])
         => cache' = EvictFrom(cache, {r})]_vars

(* The cache implements ResponseCache. *)
RC == INSTANCE ResponseCache WITH
        active   <- Active,
        response <- [r \in Reqs |-> IF cache.req[r] = None THEN None
                                    ELSE cache.tree[cache.req[r]]]
ImplementsResponseCache == RC!Spec

(* start_request's docstring (cache.py:139-141): a ValueError is raised if *)
(* a request with the same id is already active or cached, so no step      *)
(* starts a request whose response is cached.                              *)
StartRefusedWhenCached ==
    [][\A r \in Reqs :
         (local[r] = None /\ cache.req[r] # None) => local'[r] = None]_vars
=============================================================================
