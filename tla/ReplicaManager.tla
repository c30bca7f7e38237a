--------------------------- MODULE ReplicaManager ---------------------------
(***************************************************************************)
(* ReplicaManager and ManagerServicer (arctic_inference/embedding/         *)
(* replica_manager.py): one asyncio process that launches embedding        *)
(* replicas, routes client requests to the healthy ones and checks their   *)
(* health periodically.  A coroutine runs atomically up to its next await  *)
(* on an RPC, so an RPC is two actions: the reply is fixed (Reply), and    *)
(* later the coroutine that awaits it resumes (Resume).  Everything else   *)
(* may run in between.                                                     *)
(***************************************************************************)
EXTENDS Integers, FiniteSets

CONSTANTS
    NumReplicas,  \* --num-replicas
    Requests,     \* requests in flight at once, as slots that are reused
    Policy,       \* "round_robin", "least_loaded" or "random"
    NPrompts,     \* NPrompts[q]: n_prompts of the request in slot q
    MaxLoad,      \* bound of the model: a current_load not exceeded by routing
    AskInfo,      \* bound of the model: whether clients call GetReplicaInfo
    None          \* no replica

Replicas == 1 .. NumReplicas

ASSUME ReplicaManagerAssumption ==
    /\ NumReplicas \in Nat \ {0}
    /\ Policy \in {"round_robin", "least_loaded", "random"}
    /\ NPrompts \in [Requests -> Nat]
    /\ MaxLoad \in Nat
    /\ AskInfo \in BOOLEAN
    /\ None \notin Replicas

VARIABLES
    phase,    \* of the manager: "starting", "ready", "stopped" or "aborted"
    launched, \* launched[r]: "waiting", "ok" or "failed" (start's gather)
    proc,     \* proc[r]: the replica process (external)
    healthy,  \* ReplicaInfo.healthy
    load,     \* ReplicaInfo.current_load
    rr,       \* _rr_index
    probe,    \* probe[r]: the HealthCheck of the health loop
    req,      \* req[q]: the request in slot q
    info,     \* the GetReplicaInfo call: the replica asked, and its reply
    skipped   \* history: see RoundRobinTakesTurns

vars == <<phase, launched, proc, healthy, load, rr, probe, req, info, skipped>>

(* A replica process loads its model, answers ("up"), lets RPCs time out   *)
(* ("slow") or is gone ("down"); the manager never starts it again.        *)
ProcStates == {"loading", "up", "slow", "down"}
Replies == {"awaited", "ok", "error"}

TypeOK ==
    /\ phase \in {"starting", "ready", "stopped", "aborted"}
    /\ launched \in [Replicas -> {"waiting", "ok", "failed"}]
    /\ proc \in [Replicas -> ProcStates]
    /\ healthy \in [Replicas -> BOOLEAN]
    /\ load \in [Replicas -> Nat]
    /\ rr \in -1 .. (NumReplicas - 1)
    /\ probe \in [Replicas -> {"idle"} \union Replies]
    /\ req \in [Requests -> [at : Replicas \union {None}, reply : Replies,
                             result : {"none", "ok", "unavailable"}]]
    /\ info \in [at : Replicas \union {None}, reply : Replies]
    /\ skipped \in [Replicas -> 0 .. NumReplicas]

Init ==
    /\ phase = "starting"
    /\ launched = [r \in Replicas |-> "waiting"]
    /\ proc = [r \in Replicas |-> "loading"]
    /\ healthy = [r \in Replicas |-> FALSE]
    /\ load = [r \in Replicas |-> 0]
    /\ rr = -1
    /\ probe = [r \in Replicas |-> "idle"]
    /\ req = [q \in Requests |-> [at |-> None, reply |-> "awaited", result |-> "none"]]
    /\ info = [at |-> None, reply |-> "awaited"]
    /\ skipped = [r \in Replicas |-> 0]

(* _replicas: filled by start once every launch has ended. *)
Registered == IF phase \in {"starting", "aborted"} THEN {}
              ELSE {r \in Replicas : launched[r] = "ok"}

Healthy == {r \in Registered : healthy[r]}
InFlight(r) == {q \in Requests : req[q].at = r}

(* A working replica answers its health checks.  Any other call to it may  *)
(* still end in an error: Encode raises when there is no prompt or when    *)
(* the engine rejects one, GetReplicaInfo when the engine does not say.    *)
CheckReplyOf(r) == IF proc[r] = "up" THEN "ok" ELSE "error"
RepliesOf(r) == {"error"} \union {CheckReplyOf(r)}

-----------------------------------------------------------------------------
(* The replica processes (external to the manager). *)
ProcChange(r) ==
    /\ phase \in {"starting", "ready"}
    /\ \/ proc[r] = "loading" /\ proc' = [proc EXCEPT ![r] = "up"]
       \/ proc[r] = "up" /\ proc' = [proc EXCEPT ![r] = "slow"]
       \/ proc[r] = "slow" /\ proc' = [proc EXCEPT ![r] = "up"]
       \/ proc[r] # "down" /\ proc' = [proc EXCEPT ![r] = "down"]
    /\ UNCHANGED <<phase, launched, healthy, load, rr, probe, req, info, skipped>>

(* _launch_replica_process: a health check succeeds before the deadline. *)
LaunchHealthy(r) ==
    /\ phase = "starting" /\ launched[r] = "waiting" /\ proc[r] = "up"
    /\ launched' = [launched EXCEPT ![r] = "ok"]
    /\ healthy' = [healthy EXCEPT ![r] = TRUE]
    /\ UNCHANGED <<phase, proc, load, rr, probe, req, info, skipped>>

(* It exits, or the deadline passes: the replica is closed. *)
LaunchFailed(r) ==
    /\ phase = "starting" /\ launched[r] = "waiting"
    /\ launched' = [launched EXCEPT ![r] = "failed"]
    /\ proc' = [proc EXCEPT ![r] = "down"]
    /\ UNCHANGED <<phase, healthy, load, rr, probe, req, info, skipped>>

(* start, before it launches anything: RuntimeError when a port is taken. *)
PortTaken ==
    /\ phase = "starting"
    /\ \A r \in Replicas : launched[r] = "waiting" /\ proc[r] = "loading"
    /\ phase' = "aborted"
    /\ proc' = [r \in Replicas |-> "down"]
    /\ UNCHANGED <<launched, healthy, load, rr, probe, req, info, skipped>>

(* start, after the gather: RuntimeError when no launch succeeded. *)
FinishStart ==
    /\ phase = "starting"
    /\ \A r \in Replicas : launched[r] # "waiting"
    /\ phase' = IF \E r \in Replicas : launched[r] = "ok" THEN "ready" ELSE "aborted"
    /\ UNCHANGED <<launched, proc, healthy, load, rr, probe, req, info, skipped>>

(* stop: the health task is cancelled and every replica closed. *)
Stop ==
    /\ phase = "ready"
    /\ phase' = "stopped"
    /\ proc' = [r \in Replicas |-> "down"]
    /\ probe' = [r \in Replicas |-> "idle"]
    /\ UNCHANGED <<launched, healthy, load, rr, req, info, skipped>>

-----------------------------------------------------------------------------
(* _select_replica: the replicas the policy may return and the new         *)
(* _rr_index.  healthy[i] of the code is the i-th healthy replica, from 0, *)
(* in the order of the ports.                                              *)
NthHealthy(i) ==
    CHOOSE r \in Healthy : Cardinality({x \in Healthy : x < r}) = i

(* Broken: an index that does not advance. *)
StuckIndex == IF Policy = "round_robin" THEN 0 ELSE rr

NextIndex == IF Policy = "round_robin" THEN (rr + 1) % Cardinality(Healthy) ELSE rr

(* Broken: the loads are not compared. *)
AnyHealthy == Healthy

Selectable ==
    CASE Policy = "round_robin"  -> {NthHealthy(NextIndex)}
      [] Policy = "least_loaded" ->
           {r \in Healthy : \A x \in Healthy :
              load[r] < load[x] \/ (load[r] = load[x] /\ r <= x)}
      [] OTHER -> Healthy

(* route_request up to its await: select a replica and forward. *)
Route(q, r) ==
    /\ req[q].at = None /\ phase \in {"starting", "ready"}
    /\ Healthy # {} /\ r \in Selectable
    /\ load[r] + NPrompts[q] <= MaxLoad
    /\ rr' = NextIndex
    /\ load' = [load EXCEPT ![r] = @ + NPrompts[q]]
    /\ req' = [req EXCEPT ![q] = [at |-> r, reply |-> "awaited", result |-> "none"]]
    /\ skipped' = [x \in Replicas |-> IF x \in Healthy \ {r} /\ skipped[x] < NumReplicas
                                      THEN skipped[x] + 1
                                      ELSE IF x = r THEN 0 ELSE skipped[x]]
    /\ UNCHANGED <<phase, launched, proc, healthy, probe, info>>

(* No healthy replica: UNAVAILABLE at once. *)
Refuse(q) ==
    /\ req[q].at = None /\ phase \in {"starting", "ready"}
    /\ Healthy = {}
    /\ req' = [req EXCEPT ![q].result = "unavailable"]
    /\ UNCHANGED <<phase, launched, proc, healthy, load, rr, probe, info, skipped>>

(* Broken: without a timeout, only a replica that works answers. *)
RequestReplyUntimed(q) ==
    /\ req[q].at # None /\ req[q].reply = "awaited"
    /\ proc[req[q].at] = "up"
    /\ req' = [req EXCEPT ![q].reply = "ok"]
    /\ UNCHANGED <<phase, launched, proc, healthy, load, rr, probe, info, skipped>>

(* The RPC of route_request ends: an answer, an error or its timeout. *)
RequestReply(q) ==
    /\ req[q].at # None /\ req[q].reply = "awaited"
    /\ \E reply \in RepliesOf(req[q].at) : req' = [req EXCEPT ![q].reply = reply]
    /\ UNCHANGED <<phase, launched, proc, healthy, load, rr, probe, info, skipped>>

(* _mark_unhealthy and _periodic_health write healthy; a change of the     *)
(* healthy set starts the turns over.                                      *)
SetHealthy(r, b) ==
    /\ healthy' = [healthy EXCEPT ![r] = b]
    /\ skipped' = IF healthy[r] = b THEN skipped ELSE [x \in Replicas |-> 0]

(* The load of a replica when a request on it ends, whatever its number of *)
(* prompts; broken, it is not clamped at 0, or not lowered.                *)
UnloadedBelowZero(x) == x - 1
NotUnloaded(x) == x
Unloaded(x) == IF x > 1 THEN x - 1 ELSE 0

(* The rest of route_request, its finally clause included. *)
RequestResume(q) ==
    LET r == req[q].at
        failed == req[q].reply = "error"
    IN  /\ r # None /\ req[q].reply # "awaited"
        /\ SetHealthy(r, IF failed THEN FALSE ELSE healthy[r])
        /\ load' = [load EXCEPT ![r] = Unloaded(@)]
        /\ req' = [req EXCEPT ![q] = [at |-> None, reply |-> "awaited",
                                      result |-> IF failed THEN "unavailable" ELSE "ok"]]
        /\ UNCHANGED <<phase, launched, proc, rr, probe, info>>

(* A client that gives up cancels the handler at its await: no answer, and *)
(* only the finally clause runs.                                           *)
RequestCancelled(q) ==
    /\ req[q].at # None
    /\ load' = [load EXCEPT ![req[q].at] = Unloaded(@)]
    /\ req' = [req EXCEPT ![q] = [at |-> None, reply |-> "awaited", result |-> "none"]]
    /\ UNCHANGED <<phase, launched, proc, healthy, rr, probe, info, skipped>>

-----------------------------------------------------------------------------
(* _health_loop: when its sleep is over, and no check of the last round is *)
(* left (the gather), every replica is checked.                            *)
StartChecks ==
    /\ phase = "ready"
    /\ \A r \in Replicas : probe[r] = "idle"
    /\ probe' = [r \in Replicas |-> IF r \in Registered THEN "awaited" ELSE "idle"]
    /\ UNCHANGED <<phase, launched, proc, healthy, load, rr, req, info, skipped>>

CheckReply(r) ==
    /\ probe[r] = "awaited"
    /\ probe' = [probe EXCEPT ![r] = CheckReplyOf(r)]
    /\ UNCHANGED <<phase, launched, proc, healthy, load, rr, req, info, skipped>>

(* Broken: a check only ever clears healthy, or only ever sets it. *)
CheckOnlyClears(r) ==
    /\ probe[r] \in {"ok", "error"}
    /\ SetHealthy(r, healthy[r] /\ probe[r] = "ok")
    /\ probe' = [probe EXCEPT ![r] = "idle"]
    /\ UNCHANGED <<phase, launched, proc, load, rr, req, info>>

CheckOnlySets(r) ==
    /\ probe[r] \in {"ok", "error"}
    /\ SetHealthy(r, healthy[r] \/ probe[r] = "ok")
    /\ probe' = [probe EXCEPT ![r] = "idle"]
    /\ UNCHANGED <<phase, launched, proc, load, rr, req, info>>

(* _periodic_health, after _check_health: the answer overwrites healthy. *)
CheckResume(r) ==
    /\ probe[r] \in {"ok", "error"}
    /\ SetHealthy(r, probe[r] = "ok")
    /\ probe' = [probe EXCEPT ![r] = "idle"]
    /\ UNCHANGED <<phase, launched, proc, load, rr, req, info>>

(* GetReplicaInfo asks the replicas one after the other; a failed RPC      *)
(* marks the replica unhealthy.                                            *)
FirstAfter(S, r) == {x \in S : x > r /\ \A y \in S : y > r => x <= y}

Ask(S) == [at |-> IF S = {} THEN None ELSE CHOOSE x \in S : TRUE, reply |-> "awaited"]

InfoStart ==
    /\ AskInfo /\ info.at = None /\ phase = "ready"
    /\ info' = Ask(FirstAfter(Registered, 0))
    /\ UNCHANGED <<phase, launched, proc, healthy, load, rr, probe, req, skipped>>

InfoReply ==
    /\ info.at # None /\ info.reply = "awaited"
    /\ \E reply \in RepliesOf(info.at) : info' = [info EXCEPT !.reply = reply]
    /\ UNCHANGED <<phase, launched, proc, healthy, load, rr, probe, req, skipped>>

InfoResume ==
    /\ info.at # None /\ info.reply # "awaited"
    /\ SetHealthy(info.at, IF info.reply = "error" THEN FALSE ELSE healthy[info.at])
    /\ info' = Ask(FirstAfter(Registered, info.at))
    /\ UNCHANGED <<phase, launched, proc, load, rr, probe, req>>

Next ==
    \/ PortTaken \/ FinishStart \/ Stop \/ StartChecks
    \/ InfoStart \/ InfoReply \/ InfoResume
    \/ \E r \in Replicas : \/ ProcChange(r)
                           \/ LaunchHealthy(r) \/ LaunchFailed(r)
                           \/ CheckReply(r) \/ CheckResume(r)
    \/ \E q \in Requests : \/ \E r \in Replicas : Route(q, r)
                           \/ Refuse(q) \/ RequestReply(q) \/ RequestResume(q)
                           \/ RequestCancelled(q)

Spec == Init /\ [][Next]_vars

(* Every RPC has a timeout, so its reply is fixed in time; the event loop  *)
(* resumes every coroutine whose RPC is over; the health loop's sleep ends. *)
(* Nothing is assumed of clients, of GetReplicaInfo or of the replicas.    *)
Fairness ==
    /\ WF_vars(StartChecks)
    /\ \A r \in Replicas : WF_vars(CheckReply(r)) /\ WF_vars(CheckResume(r))
    /\ \A q \in Requests : WF_vars(RequestReply(q)) /\ WF_vars(RequestResume(q))
    /\ WF_vars(InfoReply) /\ WF_vars(InfoResume)

FairSpec == Spec /\ Fairness

-----------------------------------------------------------------------------
(* current_load is the number of requests in flight on the replica (the    *)
(* comment on the field), when requests have one prompt each.              *)
LoadIsActiveRequests ==
    \A r \in Replicas : load[r] = Cardinality(InFlight(r))

(* The least_loaded policy picks a replica with the fewest requests in     *)
(* flight among the healthy ones.                                          *)
FewestActivePicked ==
    [][\A q \in Requests : (req[q].at = None /\ req'[q].at # None) =>
         \A r \in Healthy : Cardinality(InFlight(req'[q].at)) <= Cardinality(InFlight(r))]_vars

(* While the set of healthy replicas does not change, round robin passes a *)
(* healthy replica over at most once per other replica before its turn.    *)
RoundRobinTakesTurns == \A r \in Replicas : skipped[r] < NumReplicas

(* A replica whose process is gone for good is eventually out of rotation  *)
(* for good, although a check answered before the crash or a late one may  *)
(* put it back for a while.                                                *)
DeadLeavesRotation ==
    \A r \in Replicas :
        <>[](phase = "ready" /\ proc[r] = "down") => <>[](~ healthy[r])

(* A call to r, a request or GetReplicaInfo, that ended in an error and    *)
(* will mark it unhealthy (replica_manager.py:188-191).                    *)
FailedCall(r) ==
    \/ \E q \in InFlight(r) : req[q].reply = "error"
    \/ info.at = r /\ info.reply = "error"

(* A replica that answers its checks for good is put back in rotation      *)
(* again and again, however often failing requests mark it unhealthy; and  *)
(* once no call to it fails any more it stays there for good, so that late *)
(* answers of checks from before do not take it out.                       *)
RecoveredReturns ==
    \A r \in Replicas :
        <>[](phase = "ready" /\ r \in Registered /\ proc[r] = "up") =>
            /\ []<>(healthy[r])
            /\ <>[](~ FailedCall(r)) => <>[](healthy[r])

(* Every forwarded request is answered, also when its replica dies. *)
RequestsAreAnswered ==
    \A q \in Requests : req[q].at # None ~> req[q].at = None

(* The module's docstring (replica_manager.py:18): a request whose replica *)
(* fails is retried on a different replica.  So it fails only when no      *)
(* other replica is healthy.                                               *)
RetriedElsewhere ==
    [][\A q \in Requests :
         (req[q].at # None /\ req'[q].at = None /\ req'[q].result = "unavailable")
           => Healthy \subseteq {req[q].at}]_vars
=============================================================================
