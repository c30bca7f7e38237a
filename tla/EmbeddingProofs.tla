-------------------------- MODULE EmbeddingProofs --------------------------
(***************************************************************************)
(* Proofs about the embedding server, for every number of replicas and     *)
(* requests.  Of ReplicaManager: the types, the bookkeeping of             *)
(* current_load, the replica least_loaded picks and the turns of           *)
(* round_robin, whatever RPCs fail and whenever their coroutines resume.   *)
(* Of Replica, whose constants and variables are declared where its part   *)
(* begins: what a call's task has and who waits for it.                    *)
(***************************************************************************)
EXTENDS ReplicaManager, FiniteSetTheorems, FunctionTheorems, TLAPS

LEMMA NumReplicasType == NumReplicas \in Nat \ {0} /\ None \notin Replicas
  BY ReplicaManagerAssumption DEF ReplicaManagerAssumption

LEMMA HealthyFinite ==
    /\ Healthy \in SUBSET Replicas
    /\ IsFiniteSet(Healthy)
    /\ Cardinality(Healthy) \in 0 .. NumReplicas
<1>1. Healthy \in SUBSET Replicas
  BY DEF Healthy, Registered
<1>2. IsFiniteSet(Replicas) /\ Cardinality(Replicas) = NumReplicas
  BY NumReplicasType, FS_Interval DEF Replicas
<1> QED
  BY <1>1, <1>2, NumReplicasType, FS_Subset, FS_CardinalityType

LEMMA NextIndexType ==
    ASSUME TypeOK, Healthy # {}
    PROVE  /\ NextIndex \in -1 .. (NumReplicas - 1)
           /\ Policy = "round_robin" => NextIndex \in 0 .. (Cardinality(Healthy) - 1)
<1>1. Cardinality(Healthy) \in 1 .. NumReplicas
  BY HealthyFinite, NumReplicasType, FS_EmptySet
<1>2. (rr + 1) % Cardinality(Healthy) \in 0 .. (Cardinality(Healthy) - 1)
  BY <1>1 DEF TypeOK
<1> QED
  BY <1>1, <1>2, NumReplicasType DEF NextIndex, TypeOK

-----------------------------------------------------------------------------
LEMMA InitTypeOK == Init => TypeOK
  BY NumReplicasType DEF Init, TypeOK, ProcStates, Replies

LEMMA SetHealthyType ==
    ASSUME TypeOK, NEW r \in Replicas, NEW b \in BOOLEAN, SetHealthy(r, b)
    PROVE  healthy' \in [Replicas -> BOOLEAN] /\ skipped' \in [Replicas -> 0 .. NumReplicas]
  BY NumReplicasType DEF TypeOK, SetHealthy

LEMMA AskType ==
    ASSUME NEW S \in SUBSET Replicas
    PROVE  Ask(S) \in [at : Replicas \union {None}, reply : Replies]
<1>1. S # {} => (CHOOSE x \in S : TRUE) \in Replicas
  OBVIOUS
<1> QED
  BY <1>1 DEF Ask, Replies

LEMMA NextTypeOK == TypeOK /\ [Next]_vars => TypeOK'
<1> SUFFICES ASSUME TypeOK, [Next]_vars PROVE TypeOK'
  OBVIOUS
<1>1. CASE PortTaken \/ FinishStart
  BY <1>1 DEF PortTaken, FinishStart, TypeOK, ProcStates
<1>2. CASE Stop \/ StartChecks
  BY <1>2 DEF Stop, StartChecks, TypeOK, ProcStates, Replies
<1>3. CASE InfoStart \/ InfoReply
  <2>1. FirstAfter(Registered, 0) \in SUBSET Replicas
    BY DEF FirstAfter, Registered
  <2>2. info' \in [at : Replicas \union {None}, reply : Replies]
    BY <1>3, <2>1, AskType DEF InfoStart, InfoReply, TypeOK, RepliesOf, CheckReplyOf, Replies
  <2> QED
    BY <1>3, <2>2 DEF InfoStart, InfoReply, TypeOK
<1>4. CASE InfoResume
  <2>1. FirstAfter(Registered, info.at) \in SUBSET Replicas
    BY DEF FirstAfter, Registered
  <2>2. info' \in [at : Replicas \union {None}, reply : Replies]
    BY <1>4, <2>1, AskType DEF InfoResume
  <2>3. healthy' \in [Replicas -> BOOLEAN] /\ skipped' \in [Replicas -> 0 .. NumReplicas]
    <3>1. info.at \in Replicas
      BY <1>4 DEF InfoResume, TypeOK
    <3>2. (IF info.reply = "error" THEN FALSE ELSE healthy[info.at]) \in BOOLEAN
      BY <3>1 DEF TypeOK
    <3> QED
      BY <1>4, <3>1, <3>2, SetHealthyType DEF InfoResume
  <2> QED
    BY <1>4, <2>2, <2>3 DEF InfoResume, TypeOK
<1>5. ASSUME NEW r \in Replicas, ProcChange(r) \/ LaunchHealthy(r) \/ LaunchFailed(r)
      PROVE  TypeOK'
  BY <1>5 DEF ProcChange, LaunchHealthy, LaunchFailed, TypeOK, ProcStates
<1>6. ASSUME NEW r \in Replicas, CheckReply(r)
      PROVE  TypeOK'
  BY <1>6 DEF CheckReply, TypeOK, CheckReplyOf, Replies
<1>7. ASSUME NEW r \in Replicas, CheckResume(r)
      PROVE  TypeOK'
  <2>1. healthy' \in [Replicas -> BOOLEAN] /\ skipped' \in [Replicas -> 0 .. NumReplicas]
    BY <1>7, SetHealthyType DEF CheckResume
  <2> QED
    BY <1>7, <2>1 DEF CheckResume, TypeOK
<1>8. ASSUME NEW q \in Requests, NEW r \in Replicas, Route(q, r)
      PROVE  TypeOK'
  <2>1. rr' \in -1 .. (NumReplicas - 1)
    BY <1>8, NextIndexType DEF Route
  <2>2. load' \in [Replicas -> Nat]
    <3>1. NPrompts[q] \in Nat
      BY ReplicaManagerAssumption DEF ReplicaManagerAssumption
    <3>2. load[r] + NPrompts[q] \in Nat
      BY <3>1 DEF TypeOK
    <3> QED
      BY <1>8, <3>2 DEF Route, TypeOK
  <2>3. skipped' \in [Replicas -> 0 .. NumReplicas]
    BY <1>8, NumReplicasType DEF Route, TypeOK
  <2> QED
    BY <1>8, <2>1, <2>2, <2>3 DEF Route, TypeOK, Replies
<1>9. ASSUME NEW q \in Requests, Refuse(q) \/ RequestReply(q)
      PROVE  TypeOK'
  BY <1>9 DEF Refuse, RequestReply, TypeOK, RepliesOf, CheckReplyOf, Replies
<1>10. ASSUME NEW q \in Requests, RequestResume(q)
       PROVE  TypeOK'
  <2>1. req[q].at \in Replicas
    BY <1>10 DEF RequestResume, TypeOK
  <2>2. (IF req[q].reply = "error" THEN FALSE ELSE healthy[req[q].at]) \in BOOLEAN
    BY <2>1 DEF TypeOK
  <2>3. healthy' \in [Replicas -> BOOLEAN] /\ skipped' \in [Replicas -> 0 .. NumReplicas]
    BY <1>10, <2>1, <2>2, SetHealthyType DEF RequestResume
  <2>4. load' \in [Replicas -> Nat]
    BY <1>10 DEF RequestResume, Unloaded, TypeOK
  <2> QED
    BY <1>10, <2>3, <2>4 DEF RequestResume, TypeOK, Replies
<1>11. ASSUME NEW q \in Requests, RequestCancelled(q)
       PROVE  TypeOK'
  BY <1>11 DEF RequestCancelled, Unloaded, TypeOK, Replies
<1>12. CASE UNCHANGED vars
  BY <1>12 DEF vars, TypeOK
<1> QED
  BY <1>1, <1>2, <1>3, <1>4, <1>5, <1>6, <1>7, <1>8, <1>9, <1>10, <1>11, <1>12 DEF Next

(* Every variable keeps its type; in particular a load never goes below 0  *)
(* and _rr_index never points past the replicas.                           *)
THEOREM ManagerTypes == Spec => []TypeOK
  BY InitTypeOK, NextTypeOK, PTL DEF Spec

-----------------------------------------------------------------------------
(***************************************************************************)
(* current_load.  A request is on the one replica req[q].at names, so a    *)
(* route adds it to that replica's requests in flight, and its end, by an  *)
(* answer, an error or a cancelled client, removes it.                     *)
(***************************************************************************)
LEMMA InFlightFinite ==
    ASSUME IsFiniteSet(Requests), NEW r \in Replicas
    PROVE  IsFiniteSet(InFlight(r)) /\ Cardinality(InFlight(r)) \in Nat
<1>1. InFlight(r) \subseteq Requests
  BY DEF InFlight
<1> QED
  BY <1>1, FS_Subset, FS_CardinalityType

LEMMA InitInFlight ==
    ASSUME Init, NEW r \in Replicas
    PROVE  Cardinality(InFlight(r)) = 0
<1>1. InFlight(r) = {}
  BY NumReplicasType DEF Init, InFlight
<1> QED
  BY <1>1, FS_EmptySet

(* A request arrives at r: q joins InFlight(r), nothing else changes. *)
LEMMA RouteInFlight ==
    ASSUME TypeOK, IsFiniteSet(Requests),
           NEW q \in Requests, NEW r \in Replicas, Route(q, r), NEW x \in Replicas
    PROVE  Cardinality(InFlight(x))' =
             IF x = r THEN Cardinality(InFlight(x)) + 1 ELSE Cardinality(InFlight(x))
<1>1. \A p \in Requests : req'[p].at = IF p = q THEN r ELSE req[p].at
  BY DEF Route, TypeOK
<1>2. q \notin InFlight(x)
  BY NumReplicasType DEF Route, InFlight
<1>3. InFlight(x)' = IF x = r THEN InFlight(x) \union {q} ELSE InFlight(x)
  BY <1>1, <1>2 DEF InFlight
<1> QED
  BY <1>2, <1>3, InFlightFinite, FS_AddElement

(* A request ends: q leaves the InFlight of its replica. *)
LEMMA EndInFlight ==
    ASSUME TypeOK, IsFiniteSet(Requests), NEW q \in Requests, req[q].at # None,
           NEW result, req' = [req EXCEPT ![q] = [at |-> None, reply |-> "awaited",
                                                  result |-> result]],
           NEW x \in Replicas
    PROVE  Cardinality(InFlight(x))' =
             IF x = req[q].at THEN Cardinality(InFlight(x)) - 1 ELSE Cardinality(InFlight(x))
<1>1. \A p \in Requests : req'[p].at = IF p = q THEN None ELSE req[p].at
  BY DEF TypeOK
<1>2. InFlight(x)' = InFlight(x) \ {q}
  BY <1>1, NumReplicasType DEF InFlight
<1>3. q \in InFlight(x) <=> x = req[q].at
  BY DEF InFlight
<1> QED
  BY <1>2, <1>3, InFlightFinite, FS_RemoveElement

LEMMA EndedHasLoad ==
    ASSUME TypeOK, IsFiniteSet(Requests), NEW q \in Requests, req[q].at # None
    PROVE  /\ req[q].at \in Replicas
           /\ Cardinality(InFlight(req[q].at)) \in Nat \ {0}
<1>1. req[q].at \in Replicas
  BY DEF TypeOK
<1>2. InFlight(req[q].at) # {}
  BY DEF InFlight
<1> QED
  BY <1>1, <1>2, InFlightFinite, FS_EmptySet

(* Every step but a route and the end of a request leaves loads and the    *)
(* requests in flight alone.                                               *)
LEMMA OthersKeepLoads ==
    ASSUME TypeOK, [Next]_vars, NEW x \in Replicas,
           ~ \E q \in Requests, r \in Replicas : Route(q, r),
           ~ \E q \in Requests : RequestResume(q) \/ RequestCancelled(q)
    PROVE  load' = load /\ InFlight(x)' = InFlight(x)
<1>1. CASE UNCHANGED <<load, req>>
  BY <1>1 DEF InFlight
<1>2. ASSUME NEW q \in Requests, Refuse(q) \/ RequestReply(q)
      PROVE  load' = load /\ InFlight(x)' = InFlight(x)
  <2>1. load' = load /\ \A p \in Requests : req'[p].at = req[p].at
    BY <1>2 DEF Refuse, RequestReply, TypeOK
  <2> QED
    BY <2>1 DEF InFlight
<1>3. ASSUME \/ PortTaken \/ FinishStart \/ Stop \/ StartChecks
             \/ InfoStart \/ InfoReply \/ InfoResume
             \/ \E r \in Replicas : \/ ProcChange(r) \/ LaunchHealthy(r) \/ LaunchFailed(r)
                                    \/ CheckReply(r) \/ CheckResume(r)
             \/ UNCHANGED vars
      PROVE  UNCHANGED <<load, req>>
  BY <1>3 DEF PortTaken, FinishStart, Stop, StartChecks, InfoStart, InfoReply, InfoResume,
              ProcChange, LaunchHealthy, LaunchFailed, CheckReply, CheckResume, vars
<1> QED
  BY <1>1, <1>2, <1>3 DEF Next

SinglePrompts == IsFiniteSet(Requests) /\ \A q \in Requests : NPrompts[q] = 1

LEMMA LoadStep ==
    SinglePrompts /\ TypeOK /\ LoadIsActiveRequests /\ [Next]_vars => LoadIsActiveRequests'
<1> SUFFICES ASSUME SinglePrompts, TypeOK, LoadIsActiveRequests, [Next]_vars,
                    NEW x \in Replicas
             PROVE  load'[x] = Cardinality(InFlight(x))'
  BY DEF LoadIsActiveRequests
<1>1. load[x] = Cardinality(InFlight(x)) /\ load \in [Replicas -> Nat]
  BY DEF LoadIsActiveRequests, TypeOK
<1>2. ASSUME NEW q \in Requests, NEW r \in Replicas, Route(q, r)
      PROVE  load'[x] = Cardinality(InFlight(x))'
  <2>1. load'[x] = IF x = r THEN load[x] + 1 ELSE load[x]
    BY <1>1, <1>2 DEF Route, SinglePrompts
  <2> QED
    BY <1>1, <1>2, <2>1, RouteInFlight DEF SinglePrompts
<1>3. ASSUME NEW q \in Requests, RequestResume(q) \/ RequestCancelled(q)
      PROVE  load'[x] = Cardinality(InFlight(x))'
  <2>1. req[q].at # None
    BY <1>3 DEF RequestResume, RequestCancelled
  <2>2. load'[x] = IF x = req[q].at THEN Unloaded(load[x]) ELSE load[x]
    BY <1>1, <1>3 DEF RequestResume, RequestCancelled
  <2>3. PICK result : req' = [req EXCEPT ![q] = [at |-> None, reply |-> "awaited",
                                                 result |-> result]]
    BY <1>3 DEF RequestResume, RequestCancelled
  <2>4. Cardinality(InFlight(x))' =
          IF x = req[q].at THEN Cardinality(InFlight(x)) - 1 ELSE Cardinality(InFlight(x))
    BY <2>1, <2>3, EndInFlight DEF SinglePrompts
  <2>5. x = req[q].at => load[x] \in Nat \ {0}
    BY <1>1, <2>1, EndedHasLoad DEF SinglePrompts
  <2> QED
    BY <1>1, <2>2, <2>4, <2>5 DEF Unloaded
<1> QED
  BY <1>1, <1>2, <1>3, OthersKeepLoads

(* The comment on current_load (replica_manager.py): it is the number of   *)
(* active requests, as long as each request has one prompt.                *)
THEOREM LoadCountsRequests == ASSUME SinglePrompts PROVE Spec => []LoadIsActiveRequests
<1>1. Init => LoadIsActiveRequests
  <2> SUFFICES ASSUME Init, NEW r \in Replicas PROVE load[r] = Cardinality(InFlight(r))
    BY DEF LoadIsActiveRequests
  <2> QED
    BY InitInFlight DEF Init
<1>2. TypeOK /\ LoadIsActiveRequests /\ [Next]_vars => LoadIsActiveRequests'
  BY LoadStep
<1> QED
  BY <1>1, <1>2, ManagerTypes, PTL DEF Spec

(* With at least one prompt in each request, the load may be too high for  *)
(* good (every end takes 1 off, whatever was added) but is never too low:  *)
(* a replica that is thought idle has no request in flight.                *)
LoadCovers == \A r \in Replicas : Cardinality(InFlight(r)) <= load[r]

SomePrompts == IsFiniteSet(Requests) /\ \A q \in Requests : NPrompts[q] >= 1

LEMMA CoverStep ==
    SomePrompts /\ TypeOK /\ LoadCovers /\ [Next]_vars => LoadCovers'
<1> SUFFICES ASSUME SomePrompts, TypeOK, LoadCovers, [Next]_vars, NEW x \in Replicas
             PROVE  Cardinality(InFlight(x))' <= load'[x]
  BY DEF LoadCovers
<1>1. /\ load \in [Replicas -> Nat] /\ Cardinality(InFlight(x)) <= load[x]
      /\ Cardinality(InFlight(x)) \in Nat
  BY InFlightFinite DEF LoadCovers, TypeOK, SomePrompts
<1>2. ASSUME NEW q \in Requests, NEW r \in Replicas, Route(q, r)
      PROVE  Cardinality(InFlight(x))' <= load'[x]
  <2>1. load'[x] = IF x = r THEN load[x] + NPrompts[q] ELSE load[x]
    BY <1>1, <1>2 DEF Route
  <2>2. NPrompts[q] \in Nat /\ NPrompts[q] >= 1
    BY ReplicaManagerAssumption DEF ReplicaManagerAssumption, SomePrompts
  <2> QED
    BY <1>1, <1>2, <2>1, <2>2, RouteInFlight DEF SomePrompts
<1>3. ASSUME NEW q \in Requests, RequestResume(q) \/ RequestCancelled(q)
      PROVE  Cardinality(InFlight(x))' <= load'[x]
  <2>1. req[q].at # None
    BY <1>3 DEF RequestResume, RequestCancelled
  <2>2. load'[x] = IF x = req[q].at THEN Unloaded(load[x]) ELSE load[x]
    BY <1>1, <1>3 DEF RequestResume, RequestCancelled
  <2>3. PICK result : req' = [req EXCEPT ![q] = [at |-> None, reply |-> "awaited",
                                                 result |-> result]]
    BY <1>3 DEF RequestResume, RequestCancelled
  <2>4. Cardinality(InFlight(x))' =
          IF x = req[q].at THEN Cardinality(InFlight(x)) - 1 ELSE Cardinality(InFlight(x))
    BY <2>1, <2>3, EndInFlight DEF SomePrompts
  <2>5. x = req[q].at => Cardinality(InFlight(x)) \in Nat \ {0}
    BY <2>1, EndedHasLoad DEF SomePrompts
  <2>6. load[x] \in Nat
    BY <1>1
  <2> QED
    BY <1>1, <2>2, <2>4, <2>5, <2>6 DEF Unloaded
<1> QED
  BY <1>1, <1>2, <1>3, OthersKeepLoads

THEOREM LoadNeverTooLow == ASSUME SomePrompts PROVE Spec => []LoadCovers
<1>1. Init => LoadCovers
  <2> SUFFICES ASSUME Init, NEW r \in Replicas PROVE Cardinality(InFlight(r)) <= load[r]
    BY DEF LoadCovers
  <2> QED
    BY InitInFlight DEF Init
<1>2. TypeOK /\ LoadCovers /\ [Next]_vars => LoadCovers'
  BY CoverStep
<1> QED
  BY <1>1, <1>2, ManagerTypes, PTL DEF Spec

(* least_loaded picks a healthy replica with the fewest requests in flight *)
(* as long as each request has one prompt.                                 *)
THEOREM LeastLoadedIsFewest ==
    ASSUME SinglePrompts, Policy = "least_loaded"
    PROVE  Spec => FewestActivePicked
<1>1. ASSUME TypeOK, LoadIsActiveRequests, [Next]_vars,
             NEW q \in Requests, req[q].at = None, req'[q].at # None, NEW x \in Healthy
      PROVE  Cardinality(InFlight(req'[q].at)) <= Cardinality(InFlight(x))
  <2>1. PICK r \in Replicas : Route(q, r)
    <3>1. ASSUME NEW p \in Requests, NEW r \in Replicas, Route(p, r) PROVE p = q
      BY <1>1, <3>1 DEF Route, TypeOK
    <3>2. ASSUME NEW p \in Requests PROVE ~ RequestResume(p) /\ ~ RequestCancelled(p)
      BY <1>1 DEF RequestResume, RequestCancelled, TypeOK
    <3>3. ASSUME NEW p \in Requests PROVE ~ Refuse(p) /\ ~ RequestReply(p)
      BY <1>1 DEF Refuse, RequestReply, TypeOK
    <3>4. req' # req
      BY <1>1
    <3> QED
      BY <1>1, <3>1, <3>2, <3>3, <3>4
         DEF Next, PortTaken, FinishStart, Stop, StartChecks, InfoStart, InfoReply,
             InfoResume, ProcChange, LaunchHealthy, LaunchFailed, CheckReply, CheckResume, vars
  <2>2. req'[q].at = r
    BY <1>1, <2>1 DEF Route, TypeOK
  <2>3. load[r] <= load[x] /\ x \in Replicas
    <3>1. load[r] < load[x] \/ load[r] = load[x]
      BY <1>1, <2>1 DEF Route, Selectable
    <3> QED
      BY <1>1, <3>1, HealthyFinite DEF TypeOK
  <2> QED
    BY <1>1, <2>2, <2>3 DEF LoadIsActiveRequests
<1>2. TypeOK /\ LoadIsActiveRequests /\ [Next]_vars =>
        [\A q \in Requests : (req[q].at = None /\ req'[q].at # None) =>
           \A r \in Healthy :
             Cardinality(InFlight(req'[q].at)) <= Cardinality(InFlight(r))]_vars
  BY <1>1
<1>3. Spec => []LoadIsActiveRequests
  BY LoadCountsRequests
<1> QED
  BY <1>2, <1>3, ManagerTypes, PTL DEF Spec, FewestActivePicked

-----------------------------------------------------------------------------
(***************************************************************************)
(* round_robin.  Place(r) is the index of r in the code's list of healthy  *)
(* replicas and TurnsLeft(r) the routes that come before its turn.  Each   *)
(* route lowers the turns left of the replicas it passes over by 1, so     *)
(* what was passed over and what is left never exceed one round.           *)
(***************************************************************************)
Place(r) == Cardinality({x \in Healthy : x < r})

TurnsLeft(r) ==
    IF Place(r) >= NextIndex THEN Place(r) - NextIndex
    ELSE Place(r) - NextIndex + Cardinality(Healthy)

TurnsInv ==
    /\ \A r \in Replicas \ Healthy : skipped[r] = 0
    /\ \A r \in Healthy : skipped[r] + TurnsLeft(r) < Cardinality(Healthy)

LEMMA PlaceType ==
    ASSUME NEW r \in Healthy
    PROVE  Place(r) \in 0 .. (Cardinality(Healthy) - 1)
<1> DEFINE before == {x \in Healthy : x < r}
<1>1. r \in Int
  BY HealthyFinite DEF Replicas
<1>2. before \subseteq Healthy \ {r}
  BY <1>1
<1>3. /\ IsFiniteSet(Healthy \ {r})
      /\ Cardinality(Healthy \ {r}) = Cardinality(Healthy) - 1
  BY HealthyFinite, FS_RemoveElement
<1>4. Cardinality(Healthy \ {r}) \in Nat
  BY <1>3, FS_CardinalityType
<1>5. IsFiniteSet(before) /\ Cardinality(before) <= Cardinality(Healthy \ {r})
  BY <1>2, <1>3, FS_Subset
<1>6. Cardinality(before) \in Nat
  BY <1>5, FS_CardinalityType
<1> QED
  BY <1>3, <1>4, <1>5, <1>6 DEF Place

LEMMA PlaceIncreases ==
    ASSUME NEW r \in Healthy, NEW s \in Healthy, r < s
    PROVE  Place(r) < Place(s)
<1> DEFINE before(t) == {x \in Healthy : x < t}
<1>1. r \in Int /\ s \in Int /\ \A x \in Healthy : x \in Int
  BY HealthyFinite DEF Replicas
<1>2. before(r) \union {r} \subseteq before(s) /\ r \notin before(r)
  <2>1. ASSUME NEW x \in before(r) \union {r} PROVE x \in Healthy /\ x < s
    BY <1>1, <2>1
  <2>2. before(r) \union {r} \subseteq before(s)
    BY <2>1
  <2>3. r \notin before(r)
    BY <1>1
  <2> QED
    BY <2>2, <2>3
<1>3. IsFiniteSet(before(r)) /\ IsFiniteSet(before(s))
  BY HealthyFinite, FS_Subset
<1>4. Cardinality(before(r) \union {r}) = Cardinality(before(r)) + 1
  BY <1>2, <1>3, FS_AddElement
<1>5. Cardinality(before(r) \union {r}) <= Cardinality(before(s))
  BY <1>2, <1>3, FS_Subset
<1>6. Cardinality(before(r)) \in Nat /\ Cardinality(before(s)) \in Nat
  BY <1>3, FS_CardinalityType
<1> HIDE DEF before
<1>7. Cardinality(before(r)) < Cardinality(before(s))
  BY <1>4, <1>5, <1>6
<1> QED
  BY <1>7 DEF Place, before

LEMMA PlaceOnto ==
    ASSUME NEW i \in 0 .. (Cardinality(Healthy) - 1)
    PROVE  \E r \in Healthy : Place(r) = i
<1> DEFINE n == Cardinality(Healthy)
           f == [r \in Healthy |-> Place(r)]
<1>1. f \in [Healthy -> 0 .. (n - 1)]
  BY PlaceType
<1>2. \A a, b \in Healthy : f[a] = f[b] => a = b
  <2> SUFFICES ASSUME NEW a \in Healthy, NEW b \in Healthy, a # b PROVE f[a] # f[b]
    OBVIOUS
  <2>1. a < b \/ b < a
    BY HealthyFinite DEF Replicas
  <2>2. Place(a) < Place(b) \/ Place(b) < Place(a)
    BY <2>1, PlaceIncreases
  <2>3. Place(a) \in Int /\ Place(b) \in Int
    BY PlaceType
  <2> QED
    BY <2>2, <2>3
<1>3. f \in Injection(Healthy, 0 .. (n - 1))
  BY <1>1, <1>2, Fun_IsInj
<1>4. n \in Nat
  BY HealthyFinite
<1>5. IsFiniteSet(0 .. (n - 1)) /\ Cardinality(0 .. (n - 1)) = n
  BY <1>4, FS_Interval
<1>6. f \in Surjection(Healthy, 0 .. (n - 1))
  BY <1>3, <1>5, FS_Injection
<1> QED
  BY <1>6 DEF Surjection

(* The replica of the next index is the one round_robin selects. *)
LEMMA RoundRobinSelects ==
    ASSUME TypeOK, Policy = "round_robin", NEW r \in Selectable, Healthy # {}
    PROVE  r \in Healthy /\ Place(r) = NextIndex
<1>1. NextIndex \in 0 .. (Cardinality(Healthy) - 1)
  BY NextIndexType
<1>2. r = NthHealthy(NextIndex)
  BY DEF Selectable
<1>3. \E x \in Healthy : Place(x) = NextIndex
  BY <1>1, PlaceOnto
<1> QED
  BY <1>2, <1>3 DEF NthHealthy, Place

LEMMA TurnsLeftType ==
    ASSUME TypeOK, Policy = "round_robin", NEW r \in Healthy
    PROVE  TurnsLeft(r) \in 0 .. (Cardinality(Healthy) - 1)
<1>1. NextIndex \in 0 .. (Cardinality(Healthy) - 1)
  BY NextIndexType
<1>2. Place(r) \in 0 .. (Cardinality(Healthy) - 1)
  BY PlaceType
<1>3. Cardinality(Healthy) \in Nat
  BY HealthyFinite
<1> QED
  BY <1>1, <1>2, <1>3 DEF TurnsLeft

LEMMA CyclicSuccessor ==
    ASSUME NEW n \in Nat \ {0}, NEW k \in 0 .. (n - 1)
    PROVE  (k + 1) % n = IF k + 1 = n THEN 0 ELSE k + 1
  OBVIOUS

LEMMA RouteTurns ==
    ASSUME TypeOK, TurnsInv, Policy = "round_robin",
           NEW q \in Requests, NEW r \in Replicas, Route(q, r)
    PROVE  TurnsInv'
<1> DEFINE n == Cardinality(Healthy)
           k == NextIndex
<1>1. Healthy' = Healthy /\ n' = n /\ rr' = k
  BY DEF Route, Healthy, Registered
<1>2. n \in 1 .. NumReplicas /\ NumReplicas \in Nat /\ k \in 0 .. (n - 1)
  BY NextIndexType, HealthyFinite, FS_EmptySet, NumReplicasType DEF Route
<1>3. r \in Healthy /\ Place(r) = k
  BY RoundRobinSelects DEF Route
<1>4. NextIndex' = IF k + 1 = n THEN 0 ELSE k + 1
  <2>1. NextIndex' = (k + 1) % n
    BY <1>1 DEF NextIndex
  <2>2. n \in Nat \ {0} /\ k \in 0 .. (n - 1)
    BY <1>2
  <2> HIDE DEF n, k
  <2> QED
    BY <2>1, <2>2, CyclicSuccessor
<1>5. \A x \in Healthy : Place(x)' = Place(x)
  BY <1>1 DEF Place
<1>6. \A x \in Replicas \ Healthy : skipped'[x] = 0
  BY <1>3 DEF Route, TurnsInv
<1>7. ASSUME NEW x \in Healthy
      PROVE  skipped'[x] + TurnsLeft(x)' < n
  <2>1. /\ Place(x) \in 0 .. (n - 1) /\ TurnsLeft(x) \in 0 .. (n - 1)
        /\ skipped[x] \in Nat /\ skipped[x] + TurnsLeft(x) < n
        /\ x \in Replicas
    BY PlaceType, TurnsLeftType, HealthyFinite DEF TurnsInv, TypeOK
  <2>2. TurnsLeft(x)' = LET j == IF k + 1 = n THEN 0 ELSE k + 1
                        IN  IF Place(x) >= j THEN Place(x) - j ELSE Place(x) - j + n
    BY <1>1, <1>4, <1>5 DEF TurnsLeft
  <2>3. TurnsLeft(x) = IF Place(x) >= k THEN Place(x) - k ELSE Place(x) - k + n
    BY DEF TurnsLeft
  <2>4. CASE x = r
    <3>1. skipped'[x] = 0
      BY <2>1, <2>4 DEF Route
    <3> HIDE DEF n, k
    <3> QED
      BY <1>2, <2>1, <2>2, <3>1
  <2>5. CASE x # r
    <3>1. skipped'[x] = skipped[x] + 1
      <4>1. skipped[x] < NumReplicas
        <5> HIDE DEF n
        <5> QED
          BY <1>2, <2>1
      <4> QED
        BY <2>1, <2>5, <4>1 DEF Route
    <3>2. Place(x) # k
      <4>1. x < r \/ r < x
        BY <2>1, <2>5 DEF Replicas
      <4>2. Place(x) < Place(r) \/ Place(r) < Place(x)
        BY <1>3, <4>1, PlaceIncreases
      <4> QED
        BY <1>2, <1>3, <2>1, <4>2
    <3> HIDE DEF n, k
    <3>3. TurnsLeft(x)' = TurnsLeft(x) - 1
      BY <1>2, <2>1, <2>2, <2>3, <3>2
    <3> QED
      BY <1>2, <2>1, <3>1, <3>3
  <2> QED
    BY <2>4, <2>5
<1> QED
  BY <1>1, <1>6, <1>7 DEF TurnsInv

(* No turn is lost when nothing that counts turns changes, and every one   *)
(* starts over when the set of healthy replicas does.                      *)
LEMMA SameTurns ==
    ASSUME TurnsInv, Healthy' = Healthy, UNCHANGED <<rr, skipped>>
    PROVE  TurnsInv'
<1>1. NextIndex' = NextIndex /\ \A x \in Healthy : Place(x)' = Place(x)
  BY DEF NextIndex, Place
<1>2. \A x \in Healthy : TurnsLeft(x)' = TurnsLeft(x)
  BY <1>1 DEF TurnsLeft
<1> QED
  BY <1>2 DEF TurnsInv

NoneSkipped == \A r \in Replicas : skipped[r] = 0

LEMMA TurnsStart ==
    ASSUME TypeOK, NoneSkipped, Policy = "round_robin"
    PROVE  TurnsInv
<1>1. ASSUME NEW r \in Healthy
      PROVE  skipped[r] + TurnsLeft(r) < Cardinality(Healthy)
  <2>1. TurnsLeft(r) \in 0 .. (Cardinality(Healthy) - 1) /\ Cardinality(Healthy) \in Nat
    BY TurnsLeftType, HealthyFinite
  <2>2. skipped[r] = 0
    BY HealthyFinite DEF NoneSkipped
  <2> QED
    BY <2>1, <2>2
<1> QED
  BY <1>1 DEF TurnsInv, NoneSkipped

LEMMA TurnsStartOver ==
    ASSUME Policy = "round_robin"
    PROVE  TypeOK' /\ NoneSkipped' => TurnsInv'
<1>1. TypeOK /\ NoneSkipped => TurnsInv
  BY TurnsStart
<1> QED
  BY <1>1, PTL

(* _mark_unhealthy and _periodic_health. *)
LEMMA SetHealthyTurns ==
    ASSUME TypeOK, TypeOK', TurnsInv, Policy = "round_robin",
           NEW r \in Replicas, NEW b \in BOOLEAN, SetHealthy(r, b),
           UNCHANGED <<phase, launched, rr>>
    PROVE  TurnsInv'
<1>1. CASE healthy[r] = b
  <2>1. healthy' = healthy /\ skipped' = skipped
    BY <1>1 DEF SetHealthy, TypeOK
  <2> QED
    BY <2>1, SameTurns DEF Healthy, Registered
<1>2. CASE healthy[r] # b
  <2>1. NoneSkipped'
    BY <1>2 DEF SetHealthy, NoneSkipped
  <2> QED
    BY <2>1, TurnsStartOver
<1> QED
  BY <1>1, <1>2

(* Nobody is healthy while the manager starts, so nobody was passed over.  *)
LEMMA StartingTurns ==
    ASSUME TypeOK', TurnsInv, Policy = "round_robin", phase = "starting",
           UNCHANGED skipped
    PROVE  TurnsInv'
<1>1. Healthy = {}
  BY DEF Healthy, Registered
<1>2. NoneSkipped'
  BY <1>1 DEF TurnsInv, NoneSkipped
<1> QED
  BY <1>2, TurnsStartOver

LEMMA TurnsStep ==
    ASSUME TypeOK, TypeOK', TurnsInv, Policy = "round_robin", [Next]_vars
    PROVE  TurnsInv'
<1>1. CASE PortTaken \/ FinishStart
  BY <1>1, StartingTurns DEF PortTaken, FinishStart
<1>2. CASE Stop
  <2>1. Healthy' = Healthy
    BY <1>2 DEF Stop, Healthy, Registered
  <2> QED
    BY <1>2, <2>1, SameTurns DEF Stop
<1>3. CASE StartChecks \/ InfoStart \/ InfoReply
  <2>1. UNCHANGED <<phase, launched, healthy, rr, skipped>>
    BY <1>3 DEF StartChecks, InfoStart, InfoReply
  <2> QED
    BY <2>1, SameTurns DEF Healthy, Registered
<1>4. CASE InfoResume
  <2>1. info.at \in Replicas
    BY <1>4 DEF InfoResume, TypeOK
  <2>2. (IF info.reply = "error" THEN FALSE ELSE healthy[info.at]) \in BOOLEAN
    BY <2>1 DEF TypeOK
  <2> QED
    BY <1>4, <2>1, <2>2, SetHealthyTurns DEF InfoResume
<1>5. ASSUME NEW r \in Replicas, LaunchHealthy(r) \/ LaunchFailed(r)
      PROVE  TurnsInv'
  BY <1>5, StartingTurns DEF LaunchHealthy, LaunchFailed
<1>6. ASSUME NEW r \in Replicas, ProcChange(r) \/ CheckReply(r)
      PROVE  TurnsInv'
  <2>1. UNCHANGED <<phase, launched, healthy, rr, skipped>>
    BY <1>6 DEF ProcChange, CheckReply
  <2> QED
    BY <2>1, SameTurns DEF Healthy, Registered
<1>7. ASSUME NEW r \in Replicas, CheckResume(r)
      PROVE  TurnsInv'
  BY <1>7, SetHealthyTurns DEF CheckResume
<1>8. ASSUME NEW q \in Requests, NEW r \in Replicas, Route(q, r)
      PROVE  TurnsInv'
  BY <1>8, RouteTurns
<1>9. ASSUME NEW q \in Requests, Refuse(q) \/ RequestReply(q) \/ RequestCancelled(q)
      PROVE  TurnsInv'
  <2>1. UNCHANGED <<phase, launched, healthy, rr, skipped>>
    BY <1>9 DEF Refuse, RequestReply, RequestCancelled
  <2> QED
    BY <2>1, SameTurns DEF Healthy, Registered
<1>10. ASSUME NEW q \in Requests, RequestResume(q)
       PROVE  TurnsInv'
  <2>1. req[q].at \in Replicas
    BY <1>10 DEF RequestResume, TypeOK
  <2>2. (IF req[q].reply = "error" THEN FALSE ELSE healthy[req[q].at]) \in BOOLEAN
    BY <2>1 DEF TypeOK
  <2> QED
    BY <1>10, <2>1, <2>2, SetHealthyTurns DEF RequestResume
<1>11. CASE UNCHANGED vars
  <2>1. UNCHANGED <<phase, launched, healthy, rr, skipped>>
    BY <1>11 DEF vars
  <2> QED
    BY <2>1, SameTurns DEF Healthy, Registered
<1> QED
  BY <1>1, <1>2, <1>3, <1>4, <1>5, <1>6, <1>7, <1>8, <1>9, <1>10, <1>11 DEF Next

(* While the set of healthy replicas does not change, round_robin passes a *)
(* healthy replica over at most once per other replica before its turn,    *)
(* although its index was taken of another list of replicas.               *)
THEOREM RoundRobinIsFair ==
    ASSUME Policy = "round_robin"
    PROVE  Spec => []RoundRobinTakesTurns
<1>1. Init => TurnsInv
  <2>1. Init => NoneSkipped
    BY DEF Init, NoneSkipped
  <2> QED
    BY <2>1, InitTypeOK, TurnsStart
<1>2. TypeOK /\ TypeOK' /\ TurnsInv /\ [Next]_vars => TurnsInv'
  BY TurnsStep
<1>3. TypeOK /\ TurnsInv => RoundRobinTakesTurns
  <2> SUFFICES ASSUME TypeOK, TurnsInv, NEW r \in Replicas
               PROVE  skipped[r] < NumReplicas
    BY DEF RoundRobinTakesTurns
  <2>1. CASE r \in Healthy
    <3>1. /\ skipped[r] \in Nat /\ skipped[r] + TurnsLeft(r) < Cardinality(Healthy)
          /\ TurnsLeft(r) \in 0 .. (Cardinality(Healthy) - 1)
          /\ Cardinality(Healthy) \in 0 .. NumReplicas /\ NumReplicas \in Nat
      BY <2>1, TurnsLeftType, HealthyFinite, NumReplicasType DEF TurnsInv, TypeOK
    <3> QED
      BY <3>1
  <2>2. CASE r \notin Healthy
    BY <2>2, NumReplicasType DEF TurnsInv
  <2> QED
    BY <2>1, <2>2
<1> QED
  BY <1>1, <1>2, <1>3, ManagerTypes, PTL DEF Spec

-----------------------------------------------------------------------------
(* One replica, for any calls, ids and numbers of prompts. *)

CONSTANTS
  Calls, Ids, MaxPrompts, MaxAborts  \* of Replica

VARIABLES
  server, ready, call, task, engine, aborted

Replica == INSTANCE Replica

Tasks == {"none", "created", "running", "embedded", "empty", "failed"}
Record == [request : Replica!Requests,
           phase : {"new", "sent", "encoding", "answered", "abandoned"},
           answer : Replica!Answers, embeddings : SUBSET Replica!Positions]

FullTypes ==
  /\ Replica!TypeOK
  /\ call \in [Calls -> Record]
  /\ task \in [Calls -> [Replica!Positions -> Tasks]]

\* A request of the engine has the name of the call it works for.
OwnNames == \A e \in Replica!EngineIds : engine[e] # None => e[1] = Replica!Id(engine[e])

\* What a call has been given, and what its tasks can still do.
TasksOf(c) ==
  /\ call[c].phase = "encoding" => call[c].request.given = call[c].request.n
  /\ call[c].answer # None => call[c].phase = "answered"
  /\ \A i \in Replica!Positions : task[c][i] # "none" =>
       i \in Replica!Prompts(c) /\ call[c].phase \in {"encoding", "answered"}
  /\ \A i \in Replica!Positions : task[c][i] \in {"created", "running"} =>
       call[c].phase = "encoding" \/ call[c].answer = "exception"

ReplicaInv ==
  /\ FullTypes /\ OwnNames /\ Replica!TasksAreDistinctRequests /\ Replica!AnswersAreComplete
  /\ \A c \in Calls : TasksOf(c)

LEMMA NameType ==
  ASSUME FullTypes, NEW c \in Calls
  PROVE  /\ Replica!Id(c) \in Ids \cup Calls
         /\ \A i \in Replica!Positions : <<Replica!Id(c), i>> \in Replica!EngineIds
  BY DEF FullTypes, Record, Replica!Requests, Replica!Id, Replica!EngineIds

LEMMA PromptsType ==
  ASSUME Replica!ReplicaAssumption, NEW c \in Calls, call[c] \in Record
  PROVE  Replica!Prompts(c) \in SUBSET Replica!Positions
<1>1. call[c].request.n \in 0 .. MaxPrompts /\ MaxPrompts \in Nat
  BY DEF Record, Replica!Requests, Replica!ReplicaAssumption
<1> QED
  BY <1>1 DEF Replica!Prompts, Replica!Positions

LEMMA InitHolds == ASSUME Replica!ReplicaAssumption PROVE Replica!Init => ReplicaInv
<1> SUFFICES ASSUME Replica!Init PROVE ReplicaInv
  OBVIOUS
<1>1. FullTypes
  <2>1. ASSUME NEW c \in Calls PROVE call[c] \in Record
    <3>1. PICK q \in Replica!Requests : call[c] = [request |-> q, phase |-> "new", answer |-> None,
                                          embeddings |-> {}]
      BY DEF Replica!Init
    <3> QED
      BY <3>1 DEF Record, Replica!Answers, Replica!Verdicts
  <2>2. call \in [Calls -> Record]
    BY <2>1 DEF Replica!Init
  <2>3. task \in [Calls -> [Replica!Positions -> Tasks]] /\ engine \in [Replica!EngineIds -> Calls \cup {None}]
    BY DEF Replica!Init, Tasks
  <2> QED
    BY <2>2, <2>3 DEF FullTypes, Replica!TypeOK, Record, Replica!Init
<1>2. \A c \in Calls : /\ call[c].phase = "new" /\ call[c].answer = None
                        /\ \A i \in Replica!Positions : task[c][i] = "none"
  BY DEF Replica!Init
<1>3. OwnNames /\ Replica!TasksAreDistinctRequests
  <2>1. \A e \in Replica!EngineIds : engine[e] = None
    BY DEF Replica!Init
  <2>2. \A c \in Calls : c # None /\ \A i \in Replica!Positions : <<Replica!Id(c), i>> \in Replica!EngineIds
    BY <1>1, NameType DEF Replica!ReplicaAssumption, Replica!Verdicts
  <2> QED
    BY <1>2, <2>1, <2>2 DEF OwnNames, Replica!TasksAreDistinctRequests
<1>4. Replica!AnswersAreComplete /\ \A c \in Calls : TasksOf(c)
  <2>1. None # "ok"
    BY DEF Replica!ReplicaAssumption, Replica!Verdicts
  <2> QED
    BY <1>2, <2>1 DEF Replica!AnswersAreComplete, TasksOf
<1> QED
  BY <1>1, <1>3, <1>4 DEF ReplicaInv

\* The engine is idle exactly where no task runs, seen from one call.
LEMMA Working ==
  ASSUME Replica!ReplicaAssumption, ReplicaInv
  PROVE  /\ \A c \in Calls : c # None
         /\ \A e \in Replica!EngineIds : engine[e] # None =>
              /\ engine[e] \in Calls /\ e[2] \in Replica!Positions /\ e = <<Replica!Id(engine[e]), e[2]>>
              /\ task[engine[e]][e[2]] = "running"
<1>1. \A c \in Calls : c # None
  BY DEF Replica!ReplicaAssumption, Replica!Verdicts
<1>2. ASSUME NEW e \in Replica!EngineIds, engine[e] # None
      PROVE  /\ engine[e] \in Calls /\ e[2] \in Replica!Positions /\ e = <<Replica!Id(engine[e]), e[2]>>
             /\ task[engine[e]][e[2]] = "running"
  <2>1. engine[e] \in Calls /\ e[1] = Replica!Id(engine[e])
    BY <1>2 DEF ReplicaInv, FullTypes, Replica!TypeOK, OwnNames
  <2>2. e[2] \in Replica!Positions /\ e = <<e[1], e[2]>>
    BY DEF Replica!EngineIds
  <2> QED
    BY <2>1, <2>2 DEF ReplicaInv, Replica!TasksAreDistinctRequests
<1> QED
  BY <1>1, <1>2

\* A step that changes one call and neither a task nor the engine.
LEMMA CallMoves ==
  ASSUME Replica!ReplicaAssumption, ReplicaInv, NEW c \in Calls, NEW new \in Record,
         call' = [call EXCEPT ![c] = new], new.request = call[c].request,
         UNCHANGED <<task, engine, aborted>>, Replica!TypeOK',
         new.phase = "encoding" => call[c].request.given = call[c].request.n,
         new.answer # None => new.phase = "answered",
         new.answer = "ok" => /\ call[c].request.given = call[c].request.n
                              /\ new.embeddings = Replica!Prompts(c) /\ Replica!Prompts(c) # {},
         \A i \in Replica!Positions : task[c][i] # "none" => new.phase \in {"encoding", "answered"},
         \A i \in Replica!Positions : task[c][i] \in {"created", "running"} =>
           new.phase = "encoding" \/ new.answer = "exception"
  PROVE  ReplicaInv'
<1>1. \A d \in Calls : call'[d] = IF d = c THEN new ELSE call[d]
  BY DEF ReplicaInv, FullTypes
<1>2. FullTypes'
  BY DEF ReplicaInv, FullTypes
<1>3. \A d \in Calls : Replica!Id(d)' = Replica!Id(d) /\ Replica!Prompts(d)' = Replica!Prompts(d)
  BY <1>1 DEF Replica!Id, Replica!Prompts
<1>4. OwnNames' /\ Replica!TasksAreDistinctRequests'
  BY <1>3, Working DEF ReplicaInv, OwnNames, Replica!TasksAreDistinctRequests
<1>5. Replica!AnswersAreComplete'
  BY <1>1, <1>3 DEF ReplicaInv, Replica!AnswersAreComplete
<1>6. ASSUME NEW d \in Calls PROVE TasksOf(d)'
  BY <1>1, <1>3 DEF ReplicaInv, TasksOf
<1> QED
  BY <1>2, <1>4, <1>5, <1>6 DEF ReplicaInv

\* Calls in C are given up: their tasks are cancelled, their requests freed.
LEMMA CallsCancelled ==
  ASSUME Replica!ReplicaAssumption, ReplicaInv, NEW C \in SUBSET Calls, Replica!TypeOK',
         NEW D \in SUBSET C, \A c \in D : call[c].answer = None,
         \A c \in C : call[c].phase \in {"sent", "encoding"} => c \in D,
         call' = [c \in Calls |-> IF c \in D THEN Replica!Abandoned(c) ELSE call[c]],
         task' = Replica!Cancelled(C), engine' = Replica!Freed(C)
  PROVE  ReplicaInv'
<1>1. \A c \in Calls :
        /\ call'[c].request = call[c].request
        /\ c \notin D => call'[c] = call[c]
        /\ c \in D => /\ call'[c].phase = "abandoned" /\ call'[c].answer = call[c].answer
                      /\ call'[c].embeddings = call[c].embeddings
  BY DEF Replica!Abandoned, ReplicaInv, FullTypes, Record
<1>2. \A c \in Calls : \A i \in Replica!Positions :
        task'[c][i] = IF c \in C THEN "none" ELSE task[c][i]
  BY DEF Replica!Cancelled
<1>3. \A e \in Replica!EngineIds : engine'[e] = IF engine[e] \in C THEN None ELSE engine[e]
  BY DEF Replica!Freed
<1>4. FullTypes'
  <2>1. \A c \in Calls : call'[c] \in Record
    BY DEF Replica!Abandoned, ReplicaInv, FullTypes, Record
  <2>2. call' \in [Calls -> Record]
    BY <2>1
  <2>3. task' \in [Calls -> [Replica!Positions -> Tasks]]
    BY DEF Replica!Cancelled, ReplicaInv, FullTypes, Tasks
  <2> QED
    BY <2>2, <2>3 DEF FullTypes
<1>5. \A c \in Calls : Replica!Id(c)' = Replica!Id(c) /\ Replica!Prompts(c)' = Replica!Prompts(c)
  BY <1>1 DEF Replica!Id, Replica!Prompts
<1>6. OwnNames'
  BY <1>3, <1>5, Working DEF ReplicaInv, OwnNames
<1>7. Replica!TasksAreDistinctRequests'
  <2> SUFFICES ASSUME NEW c \in Calls, NEW i \in Replica!Positions
               PROVE  task'[c][i] = "running" <=> engine'[<<Replica!Id(c), i>>] = c
    BY <1>5 DEF Replica!TasksAreDistinctRequests
  <2>1. <<Replica!Id(c), i>> \in Replica!EngineIds /\ c # None
    BY NameType, Working DEF ReplicaInv
  <2>2. task[c][i] = "running" <=> engine[<<Replica!Id(c), i>>] = c
    BY DEF ReplicaInv, Replica!TasksAreDistinctRequests
  <2> QED
    BY <1>2, <1>3, <2>1, <2>2
<1>8. Replica!AnswersAreComplete'
  BY <1>1, <1>5, Working DEF ReplicaInv, Replica!AnswersAreComplete
<1>9. ASSUME NEW c \in Calls PROVE TasksOf(c)'
  <2>1. CASE c \in D
    BY <1>1, <1>2, <2>1 DEF TasksOf
  <2>2. CASE c \notin D
    BY <1>1, <1>2, <1>5, <2>2 DEF ReplicaInv, TasksOf
  <2> QED
    BY <2>1, <2>2
<1> QED
  BY <1>4, <1>6, <1>7, <1>8, <1>9 DEF ReplicaInv

\* One task of c goes on to s; the engine's request of its name, if it is a
\* request of c or of nobody, changes with it.
Fails(c, i) ==
  /\ task[c][i] = "created" /\ task' = [task EXCEPT ![c][i] = "failed"]
  /\ engine' = engine /\ call' = call
Works(c, i, s, w) ==
  /\ task[c][i] \in {"created", "running"} /\ task' = [task EXCEPT ![c][i] = s]
  /\ engine[<<Replica!Id(c), i>>] \in {c, None}
  /\ engine' = [engine EXCEPT ![<<Replica!Id(c), i>>] = w] /\ call' = call
  /\ s \in Tasks /\ s \notin {"none", "created"}
  /\ s = "running" => w = c
  /\ s # "running" => w = None

LEMMA TaskFails ==
  ASSUME Replica!ReplicaAssumption, ReplicaInv, Replica!TypeOK',
         NEW c \in Calls, NEW i \in Replica!Positions, Fails(c, i)
  PROVE  ReplicaInv'
<1>1. \A d \in Calls : \A j \in Replica!Positions :
        task'[d][j] = IF d = c /\ j = i THEN "failed" ELSE task[d][j]
  BY DEF ReplicaInv, FullTypes, Fails
<1>2. FullTypes'
  <2>1. task' \in [Calls -> [Replica!Positions -> Tasks]]
    BY DEF ReplicaInv, FullTypes, Fails, Tasks
  <2> QED
    BY <2>1 DEF ReplicaInv, FullTypes, Fails
<1>3. \A d \in Calls : Replica!Id(d)' = Replica!Id(d) /\ Replica!Prompts(d)' = Replica!Prompts(d)
  BY DEF Replica!Id, Replica!Prompts, Fails
<1>5. OwnNames' /\ Replica!TasksAreDistinctRequests'
  BY <1>1, <1>3, Working DEF ReplicaInv, OwnNames, Replica!TasksAreDistinctRequests, Fails
<1>6. Replica!AnswersAreComplete'
  BY <1>3 DEF ReplicaInv, Replica!AnswersAreComplete, Fails
<1>7. ASSUME NEW d \in Calls PROVE TasksOf(d)'
  BY <1>1, <1>3 DEF ReplicaInv, TasksOf, Fails
<1> QED
  BY <1>2, <1>5, <1>6, <1>7 DEF ReplicaInv

LEMMA TaskWorks ==
  ASSUME Replica!ReplicaAssumption, ReplicaInv, Replica!TypeOK',
         NEW c \in Calls, NEW i \in Replica!Positions, NEW s, NEW w, Works(c, i, s, w)
  PROVE  ReplicaInv'
<1>1. \A d \in Calls : \A j \in Replica!Positions :
        task'[d][j] = IF d = c /\ j = i THEN s ELSE task[d][j]
  BY DEF ReplicaInv, FullTypes, Works
<1>2. FullTypes'
  <2>1. task' \in [Calls -> [Replica!Positions -> Tasks]]
    BY DEF ReplicaInv, FullTypes, Works
  <2> QED
    BY <2>1 DEF ReplicaInv, FullTypes, Works
<1>3. \A d \in Calls : Replica!Id(d)' = Replica!Id(d) /\ Replica!Prompts(d)' = Replica!Prompts(d)
  BY DEF Replica!Id, Replica!Prompts, Works
<1>4. /\ \A d \in Calls : d # None /\ \A j \in Replica!Positions : <<Replica!Id(d), j>> \in Replica!EngineIds
      /\ engine \in [Replica!EngineIds -> Calls \cup {None}]
  BY NameType, Working DEF ReplicaInv, FullTypes, Replica!TypeOK
<1>5. OwnNames' /\ Replica!TasksAreDistinctRequests'
  <2>0. /\ engine' = [engine EXCEPT ![<<Replica!Id(c), i>>] = w] /\ engine[<<Replica!Id(c), i>>] \in {c, None}
        /\ s = "running" => w = c
        /\ s # "running" => w = None
    BY DEF Works
  <2>1. \A e \in Replica!EngineIds : engine'[e] = IF e = <<Replica!Id(c), i>> THEN w ELSE engine[e]
    BY <1>4, <2>0
  <2>2. OwnNames'
    BY <1>3, <1>4, <2>0, <2>1, Working DEF ReplicaInv, OwnNames
  <2>3. ASSUME NEW d \in Calls, NEW j \in Replica!Positions
        PROVE  task'[d][j] = "running" <=> engine'[<<Replica!Id(d), j>>] = d
    <3>1. /\ task[d][j] = "running" <=> engine[<<Replica!Id(d), j>>] = d
          /\ <<Replica!Id(d), j>> \in Replica!EngineIds /\ d # None /\ c # None
      BY <1>4 DEF ReplicaInv, Replica!TasksAreDistinctRequests
    <3>2. CASE d = c /\ j = i
      BY <1>1, <2>0, <2>1, <3>1, <3>2
    <3>3. CASE ~(d = c /\ j = i)
      <4>1. task'[d][j] = task[d][j]
        BY <1>1, <3>3
      <4>2. CASE <<Replica!Id(d), j>> = <<Replica!Id(c), i>>
        <5>1. d # c
          BY <3>3, <4>2
        <5>2. engine'[<<Replica!Id(d), j>>] # d /\ engine[<<Replica!Id(d), j>>] # d
          BY <2>0, <2>1, <3>1, <4>2, <5>1
        <5> QED
          BY <3>1, <4>1, <5>2
      <4>3. CASE <<Replica!Id(d), j>> # <<Replica!Id(c), i>>
        BY <2>1, <3>1, <4>1, <4>3
      <4> QED
        BY <4>2, <4>3
    <3> QED
      BY <3>2, <3>3
  <2> QED
    BY <1>3, <2>2, <2>3 DEF Replica!TasksAreDistinctRequests
<1>6. Replica!AnswersAreComplete'
  BY <1>3 DEF ReplicaInv, Replica!AnswersAreComplete, Works
<1>7. ASSUME NEW d \in Calls PROVE TasksOf(d)'
  BY <1>1, <1>3 DEF ReplicaInv, TasksOf, Works
<1> QED
  BY <1>2, <1>5, <1>6, <1>7 DEF ReplicaInv

-----------------------------------------------------------------------------
LEMMA EncodingStarts ==
  ASSUME Replica!ReplicaAssumption, ReplicaInv, NEW c \in Calls, call[c].phase = "sent",
         Replica!Refusal(call[c].request) = None, Replica!EncodeStarts(c)
  PROVE  ReplicaInv'
<1>0. /\ call \in [Calls -> Record] /\ Replica!TypeOK /\ engine \in [Replica!EngineIds -> Calls \cup {None}]
      /\ call[c].answer = None /\ \A i \in Replica!Positions : task[c][i] = "none"
  BY DEF ReplicaInv, FullTypes, Replica!TypeOK, TasksOf
<1>1. /\ call' = [call EXCEPT ![c].phase = "encoding"]
      /\ task' = [task EXCEPT ![c] = [i \in Replica!Positions |-> IF i \in Replica!Prompts(c) THEN "created" ELSE "none"]]
      /\ UNCHANGED <<server, ready, engine, aborted>>
  BY DEF Replica!EncodeStarts
<1>2. call[c].request.given = call[c].request.n
  <2>1. None \notin {"not ready", "wrong model", "wrong count"} => call[c].request.given = call[c].request.n
    BY DEF Replica!Refusal
  <2> QED
    BY <2>1 DEF Replica!ReplicaAssumption, Replica!Verdicts
<1>3. \A d \in Calls : /\ call'[d].request = call[d].request /\ call'[d].answer = call[d].answer
                      /\ call'[d].embeddings = call[d].embeddings
                      /\ call'[d].phase = IF d = c THEN "encoding" ELSE call[d].phase
  BY <1>0, <1>1 DEF Record
<1>4. \A d \in Calls : \A i \in Replica!Positions :
        task'[d][i] = IF d = c THEN (IF i \in Replica!Prompts(c) THEN "created" ELSE "none") ELSE task[d][i]
  BY <1>1 DEF ReplicaInv, FullTypes
<1>5. \A d \in Calls : Replica!Id(d)' = Replica!Id(d) /\ Replica!Prompts(d)' = Replica!Prompts(d)
  BY <1>3 DEF Replica!Id, Replica!Prompts
<1>6. FullTypes'
  <2>1. call' \in [Calls -> Record]
    BY <1>0, <1>1 DEF Record
  <2>2. task' \in [Calls -> [Replica!Positions -> Tasks]]
    BY <1>1 DEF ReplicaInv, FullTypes, Tasks
  <2> QED
    BY <1>0, <1>1, <2>1, <2>2 DEF FullTypes, Replica!TypeOK, Record
<1>7. OwnNames'
  BY <1>1, <1>5, Working DEF ReplicaInv, OwnNames
<1>8. Replica!TasksAreDistinctRequests'
  <2> SUFFICES ASSUME NEW d \in Calls, NEW i \in Replica!Positions
               PROVE  task'[d][i] = "running" <=> engine[<<Replica!Id(d), i>>] = d
    BY <1>1, <1>5 DEF Replica!TasksAreDistinctRequests
  <2>1. task[d][i] = "running" <=> engine[<<Replica!Id(d), i>>] = d
    BY DEF ReplicaInv, Replica!TasksAreDistinctRequests
  <2> QED
    BY <1>0, <1>4, <2>1
<1>9. Replica!AnswersAreComplete'
  BY <1>3, <1>5 DEF ReplicaInv, Replica!AnswersAreComplete
<1>10. ASSUME NEW d \in Calls PROVE TasksOf(d)'
  <2>1. CASE d = c
    BY <1>0, <1>2, <1>3, <1>4, <1>5, <2>1 DEF TasksOf
  <2>2. CASE d # c
    BY <1>3, <1>4, <1>5, <2>2 DEF ReplicaInv, TasksOf
  <2> QED
    BY <2>1, <2>2
<1> QED
  BY <1>6, <1>7, <1>8, <1>9, <1>10 DEF ReplicaInv

LEMMA Gathered ==
  ASSUME Replica!ReplicaAssumption, ReplicaInv, NEW c \in Calls, Replica!Gather(c)
  PROVE  ReplicaInv'
<1>0. /\ call \in [Calls -> Record] /\ call[c] \in Record /\ Replica!TypeOK /\ TasksOf(c)
      /\ call[c].phase = "encoding" /\ UNCHANGED <<server, ready, task, engine, aborted>>
  BY DEF ReplicaInv, FullTypes, Replica!Gather
<1>1. call[c].request.given = call[c].request.n
  BY <1>0 DEF TasksOf
<1>2. ASSUME NEW answer \in {"exception", "no result"},
             call' = Replica!Answered(c, answer),
             answer = "exception" \/ \A i \in Replica!Prompts(c) : task[c][i] \in {"embedded", "empty"}
      PROVE  ReplicaInv'
  <2> DEFINE new == [call[c] EXCEPT !.phase = "answered", !.answer = answer]
  <2>1. call' = [call EXCEPT ![c] = new]
    BY <1>0, <1>2 DEF Replica!Answered, Record
  <2>2. new \in Record /\ new.request = call[c].request /\ new.phase = "answered" /\ new.answer = answer
    BY <1>0 DEF Record, Replica!Answers, Replica!Verdicts
  <2>3. Replica!TypeOK'
    BY <1>0, <2>1, <2>2 DEF Replica!TypeOK, Record
  <2>4. \A i \in Replica!Positions : task[c][i] \in {"created", "running"} => answer = "exception"
    BY <1>0, <1>2 DEF TasksOf
  <2> HIDE DEF new
  <2> QED
    BY <1>0, <2>1, <2>2, <2>3, <2>4, CallMoves
<1>3. CASE /\ call' = [Replica!Answered(c, "ok") EXCEPT ![c].embeddings = Replica!Prompts(c)]
           /\ Replica!Prompts(c) # {} /\ \A i \in Replica!Prompts(c) : task[c][i] \in {"embedded", "empty"}
  <2> DEFINE new == [call[c] EXCEPT !.phase = "answered", !.answer = "ok", !.embeddings = Replica!Prompts(c)]
  <2>0. Replica!Prompts(c) \in SUBSET Replica!Positions
    BY <1>0, PromptsType
  <2>1. call' = [call EXCEPT ![c] = new]
    BY <1>0, <1>3 DEF Replica!Answered, Record
  <2>2. /\ new \in Record /\ new.request = call[c].request /\ new.phase = "answered"
        /\ new.answer = "ok" /\ new.embeddings = Replica!Prompts(c)
    BY <1>0, <2>0 DEF Record, Replica!Answers, Replica!Verdicts
  <2>3. Replica!TypeOK'
    BY <1>0, <2>1, <2>2 DEF Replica!TypeOK, Record
  <2>4. \A i \in Replica!Positions : task[c][i] \notin {"created", "running"}
    BY <1>0, <1>3 DEF TasksOf
  <2> HIDE DEF new
  <2> QED
    BY <1>0, <1>1, <1>3, <2>1, <2>2, <2>3, <2>4, CallMoves
<1> QED
  BY <1>2, <1>3 DEF Replica!Gather

LEMMA StepHolds == ASSUME Replica!ReplicaAssumption PROVE ReplicaInv /\ [Replica!Next]_(Replica!vars) => ReplicaInv'
<1> SUFFICES ASSUME ReplicaInv, [Replica!Next]_(Replica!vars) PROVE ReplicaInv'
  OBVIOUS
<1>0. /\ call \in [Calls -> Record] /\ task \in [Calls -> [Replica!Positions -> Tasks]] /\ Replica!TypeOK
      /\ \A c \in Calls : TasksOf(c)
  BY DEF ReplicaInv, FullTypes
<1>1. CASE Replica!Open
  BY <1>1, Working DEF Replica!Open, ReplicaInv, FullTypes, Replica!TypeOK, OwnNames, Replica!TasksAreDistinctRequests,
                      Replica!AnswersAreComplete, TasksOf, Replica!Id, Replica!Prompts
<1>2. CASE Replica!Stop
  <2> DEFINE D == {c \in Calls : call[c].phase \in {"sent", "encoding"}}
  <2>1. call' = [c \in Calls |-> IF c \in D THEN Replica!Abandoned(c) ELSE call[c]]
    BY <1>2 DEF Replica!Stop
  <2>2. /\ Calls \in SUBSET Calls /\ D \in SUBSET Calls
        /\ \A c \in Calls : call[c].phase \in {"sent", "encoding"} => c \in D
    OBVIOUS
  <2>3. \A c \in D : call[c].answer = None
    BY <1>0 DEF TasksOf
  <2>4. Replica!TypeOK'
    BY <1>0, <1>2 DEF Replica!Stop, Replica!TypeOK, Replica!Abandoned, Replica!Freed, Record
  <2> HIDE DEF D
  <2> QED
    BY <1>2, <2>1, <2>2, <2>3, <2>4, CallsCancelled DEF Replica!Stop
<1>3. ASSUME NEW c \in Calls, Replica!Send(c) PROVE ReplicaInv'
  <2> DEFINE new == [call[c] EXCEPT !.phase = "sent"]
  <2>1. new \in Record /\ call' = [call EXCEPT ![c] = new]
    BY <1>0, <1>3 DEF Replica!Send, Record
  <2>2. /\ new.request = call[c].request /\ new.phase = "sent" /\ new.answer = call[c].answer
        /\ call[c].phase = "new"
    BY <1>0, <1>3 DEF Replica!Send, Record
  <2>3. call[c].answer = None /\ \A i \in Replica!Positions : task[c][i] = "none"
    BY <1>0, <2>2 DEF TasksOf
  <2>4. Replica!TypeOK'
    BY <1>0, <1>3, <2>1 DEF Replica!Send, Replica!TypeOK, Record
  <2> HIDE DEF new
  <2>5. new.answer # "ok"
    BY <2>2, <2>3 DEF Replica!ReplicaAssumption, Replica!Verdicts
  <2> QED
    BY <1>3, <2>1, <2>2, <2>3, <2>4, <2>5, CallMoves DEF Replica!Send
<1>4. ASSUME NEW c \in Calls, Replica!EncodeStarts(c) PROVE ReplicaInv'
  <2> DEFINE refusal == Replica!Refusal(call[c].request)
  <2>1. /\ call[c].phase = "sent" /\ call[c].answer = None /\ call[c] \in Record
        /\ \A i \in Replica!Positions : task[c][i] = "none"
    BY <1>0, <1>4 DEF Replica!EncodeStarts, TasksOf
  <2>2. CASE refusal # None
    <3> DEFINE new == [call[c] EXCEPT !.phase = "answered", !.answer = refusal]
    <3>1. refusal \in {"not ready", "wrong model", "wrong count"}
      BY <2>2 DEF Replica!Refusal
    <3>2. call' = [call EXCEPT ![c] = new] /\ UNCHANGED <<task, engine, aborted>>
      BY <1>0, <1>4, <2>1, <2>2 DEF Replica!EncodeStarts, Replica!Answered, Record
    <3> HIDE DEF refusal
    <3>3. new \in Record /\ new.request = call[c].request /\ new.phase = "answered"
          /\ new.answer = refusal
      BY <2>1, <3>1 DEF Record, Replica!Answers, Replica!Verdicts
    <3>4. Replica!TypeOK'
      BY <1>0, <1>4, <3>2, <3>3 DEF Replica!EncodeStarts, Replica!TypeOK, Record
    <3> HIDE DEF new
    <3>5. new.answer # "ok" /\ new.phase # "encoding"
      BY <3>1, <3>3
    <3> QED
      BY <2>1, <3>2, <3>3, <3>4, <3>5, CallMoves
  <2>3. CASE refusal = None
    BY <1>4, <2>1, <2>3, EncodingStarts DEF Replica!EncodeStarts
  <2> QED
    BY <2>2, <2>3
<1>5. ASSUME NEW c \in Calls, Replica!Gather(c) PROVE ReplicaInv'
  BY <1>5, Gathered
<1>6. ASSUME NEW c \in Calls, Replica!Abandon(c) PROVE ReplicaInv'
  <2>1. call[c].answer = None
    BY <1>0, <1>6 DEF Replica!Abandon, TasksOf
  <2>2. call' = [d \in Calls |-> IF d \in {c} THEN Replica!Abandoned(d) ELSE call[d]]
    BY <1>0, <1>6 DEF Replica!Abandon
  <2>3. Replica!TypeOK'
    BY <1>0, <1>6 DEF Replica!Abandon, Replica!TypeOK, Replica!Abandoned, Replica!Freed, Record
  <2>4. {c} \in SUBSET Calls /\ \A d \in {c} : call[d].answer = None
    BY <2>1
  <2> DEFINE C == {c}
  <2> HIDE DEF C
  <2>5. /\ C \in SUBSET Calls /\ C \in SUBSET C /\ \A d \in C : call[d].answer = None
        /\ call' = [d \in Calls |-> IF d \in C THEN Replica!Abandoned(d) ELSE call[d]]
        /\ task' = Replica!Cancelled(C) /\ engine' = Replica!Freed(C)
    BY <1>6, <2>2, <2>4 DEF Replica!Abandon, C
  <2> QED
    BY <2>3, <2>5, CallsCancelled
<1>7. ASSUME NEW c \in Calls, Replica!Abort(c) PROVE ReplicaInv'
  BY <1>7, Working DEF Replica!Abort, ReplicaInv, FullTypes, Replica!TypeOK, OwnNames, Replica!TasksAreDistinctRequests,
                      Replica!AnswersAreComplete, TasksOf, Replica!Id, Replica!Prompts
<1>8. ASSUME NEW c \in Calls, NEW i \in Replica!Positions, Replica!Submit(c, i) PROVE ReplicaInv'
  <2>1. <<Replica!Id(c), i>> \in Replica!EngineIds /\ task[c][i] = "created"
    BY <1>8, NameType DEF Replica!Submit, ReplicaInv
  <2>2. Replica!TypeOK'
    BY <1>0, <1>8, <2>1 DEF Replica!Submit, Replica!TypeOK
  <2>3. CASE engine[<<Replica!Id(c), i>>] = None
    <3>1. Works(c, i, "running", c)
      BY <1>8, <2>1, <2>3 DEF Replica!Submit, Works, Tasks
    <3> QED
      BY <2>2, <3>1, TaskWorks
  <2>4. CASE engine[<<Replica!Id(c), i>>] # None
    <3>1. Fails(c, i)
      BY <1>8, <2>4 DEF Replica!Submit, Fails
    <3> QED
      BY <2>2, <3>1, TaskFails
  <2> QED
    BY <2>3, <2>4
<1>9. ASSUME NEW c \in Calls, NEW i \in Replica!Positions, Replica!Complete(c, i) PROVE ReplicaInv'
  <2>1. /\ <<Replica!Id(c), i>> \in Replica!EngineIds /\ task[c][i] = "running"
        /\ engine[<<Replica!Id(c), i>>] = c
    BY <1>9, NameType DEF Replica!Complete, ReplicaInv, Replica!TasksAreDistinctRequests
  <2>2. Replica!TypeOK'
    BY <1>0, <1>9, <2>1 DEF Replica!Complete, Replica!TypeOK
  <2>3. PICK s \in {"embedded", "empty", "failed"} : task' = [task EXCEPT ![c][i] = s]
    BY <1>9 DEF Replica!Complete
  <2>4. Works(c, i, s, None)
    BY <1>9, <2>1, <2>3 DEF Replica!Complete, Works, Tasks
  <2> QED
    BY <2>2, <2>4, TaskWorks
<1>10. CASE UNCHANGED Replica!vars
  BY <1>10, Working DEF Replica!vars, ReplicaInv, FullTypes, Replica!TypeOK, OwnNames, Replica!TasksAreDistinctRequests,
                      Replica!AnswersAreComplete, TasksOf, Replica!Id, Replica!Prompts
<1> QED
  BY <1>1, <1>2, <1>3, <1>4, <1>5, <1>6, <1>7, <1>8, <1>9, <1>10 DEF Replica!Next

\* Encode, its tasks and the engine, whichever ids the clients chose and
\* whatever is cancelled: a call that is answered without an error has one
\* embedding per prompt, what the engine works on is of a call that waits or
\* has raised, and no two tasks share a request of the engine.
THEOREM CallsAreKeptApart ==
  ASSUME Replica!ReplicaAssumption
  PROVE  Replica!Spec =>
           [](Replica!AnswersAreComplete /\ Replica!WorkHasACaller /\ Replica!TasksAreDistinctRequests)
<1>1. Replica!Spec => []ReplicaInv
  BY InitHolds, StepHolds, PTL DEF Replica!Spec
<1>2. ReplicaInv => Replica!AnswersAreComplete /\ Replica!TasksAreDistinctRequests
  BY DEF ReplicaInv
<1>3. ReplicaInv => Replica!WorkHasACaller
  BY Working DEF ReplicaInv, TasksOf, Replica!WorkHasACaller
<1> QED
  BY <1>1, <1>2, <1>3, PTL
=============================================================================
