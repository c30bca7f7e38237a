------------------------ MODULE MCReplicaPolicies ------------------------
(***************************************************************************)
(* The two policies that choose by state, for TLC: least_loaded with two    *)
(* requests, and round_robin with three replicas.  A behaviour runs one of  *)
(* the two managers, and the other rests as it starts.                      *)
(***************************************************************************)
EXTENDS ReplicaManager

CONSTANTS q1, q2

VARIABLES
    policy,  \* of the manager that runs
    tPhase, tLaunched, tProc, tHealthy, tLoad, tRr, tProbe, tReq, tInfo,
    tSkipped

turnsVars ==
    <<tPhase, tLaunched, tProc, tHealthy, tLoad, tRr, tProbe, tReq, tInfo,
      tSkipped>>

Turns == INSTANCE ReplicaManager WITH
    NumReplicas <- 3, Requests <- {q1}, Policy <- "round_robin", NPrompts <- [q \in {q1} |-> 1],
    AskInfo <- FALSE,
    phase <- tPhase, launched <- tLaunched, proc <- tProc, healthy <- tHealthy,
    load <- tLoad, rr <- tRr, probe <- tProbe, req <- tReq, info <- tInfo,
    skipped <- tSkipped

MCTwoRequests   == {q1, q2}
MCSinglePrompts == [q \in Requests |-> 1]

MCInit == policy \in {"least_loaded", "round_robin"} /\ Init /\ Turns!Init

MCNext ==
    \/ policy = "least_loaded" /\ Next /\ UNCHANGED <<policy, turnsVars>>
    \/ policy = "round_robin" /\ Turns!Next /\ UNCHANGED <<policy, vars>>

MCSpec == MCInit /\ [][MCNext]_<<policy, vars, turnsVars>>

(* While the set of healthy replicas does not change, the round_robin       *)
(* policy of _select_replica passes a healthy replica over at most once per *)
(* other replica before its turn.                                           *)
HealthyTakeTurns == Turns!RoundRobinTakesTurns
=============================================================================
