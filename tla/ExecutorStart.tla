---------------------------- MODULE ExecutorStart ----------------------------
(***************************************************************************)
(* How the executor brings its workers up                                  *)
(* (UlyssesMultiprocExecutor._init_executor, vllm/ulysses.py): it creates  *)
(* one process per rank, waits for every READY, connects the message       *)
(* queues in an order both sides agree on, and terminates what it created  *)
(* when something raises.  The worker side is vLLM's.                      *)
(***************************************************************************)
EXTENDS Integers, FiniteSets

CONSTANTS
  World,        \* the number of ranks
  MaxCrashes    \* bound: worker processes that die by themselves

WorldAssumption == World \in Nat \ {0} /\ MaxCrashes \in Nat

VARIABLES
  executor,     \* where _init_executor stands
  created,      \* len(unready_workers)
  worker,       \* rank -> the state of its process
  heard,        \* the ranks whose READY wait_for_ready received
  crashes       \* processes that died by themselves so far

vars == <<executor, created, worker, heard, crashes>>

Ranks == 0..World - 1
Alive(r) == worker[r] \notin {"none", "dead"}

Init ==
  /\ executor = "create"
  /\ created = 0
  /\ worker = [r \in Ranks |-> "none"]
  /\ heard = {}
  /\ crashes = 0

-----------------------------------------------------------------------------
(* The executor.                                                           *)

\* One round of the loop over range(world_size).
MakeWorker ==
  /\ executor = "create" /\ created < World
  /\ worker' = [worker EXCEPT ![created] = "started"]
  /\ created' = created + 1
  /\ UNCHANGED <<executor, heard, crashes>>

\* make_worker_process raises: the rank is not in unready_workers.
MakeWorkerRaises ==
  /\ executor = "create" /\ created < World
  /\ executor' = "cleanup"
  /\ crashes < MaxCrashes /\ crashes' = crashes + 1
  /\ UNCHANGED <<created, worker, heard>>

WaitForReady ==
  /\ executor = "create" /\ created = World
  /\ executor' = "ready"
  /\ UNCHANGED <<created, worker, heard, crashes>>

Hear(r) ==
  /\ executor = "ready" /\ worker[r] = "rpc" /\ r \notin heard
  /\ heard' = heard \cup {r}
  /\ executor' = IF heard' = Ranks THEN "rpc" ELSE executor
  /\ UNCHANGED <<created, worker, crashes>>

\* The pipe of a worker that died before READY is at its end.
HearFailure(r) ==
  /\ executor = "ready" /\ r \notin heard /\ worker[r] = "dead"
  /\ executor' = "cleanup"
  /\ UNCHANGED <<created, worker, heard, crashes>>

\* rpc_broadcast_mq.wait_until_ready: every reader has subscribed.
ConnectBroadcast ==
  /\ executor = "rpc" /\ \A r \in Ranks : worker[r] = "rpc"
  /\ executor' = "respond"
  /\ worker' = [r \in Ranks |-> "respond"]
  /\ UNCHANGED <<created, heard, crashes>>

\* worker_response_mq.wait_until_ready, for one worker after another.
ConnectResponses(r) ==
  /\ executor = "respond" /\ worker[r] = "respond"
  /\ \A q \in Ranks : q < r => worker[q] # "respond"
  /\ worker' = [worker EXCEPT ![r] = "serving"]
  /\ UNCHANGED <<executor, created, heard, crashes>>

StartMonitor ==
  /\ executor = "respond" /\ \A r \in Ranks : worker[r] = "serving"
  /\ executor' = "running"
  /\ UNCHANGED <<created, worker, heard, crashes>>

\* The finally clause: the death writers are closed, the processes ended.
\* wrong: only the workers that reported READY are ended
CleanUpReady ==
  /\ executor = "cleanup"
  /\ executor' = "failed"
  /\ worker' = [r \in Ranks |-> IF r \in heard THEN "dead" ELSE worker[r]]
  /\ UNCHANGED <<created, heard, crashes>>

CleanUp ==
  /\ executor = "cleanup"
  /\ executor' = "failed"
  /\ worker' = [r \in Ranks |-> IF r < created THEN "dead" ELSE worker[r]]
  /\ UNCHANGED <<created, heard, crashes>>

-----------------------------------------------------------------------------
(* The workers.                                                            *)

\* init_device synchronises with the devices of all the ranks.
EnterDeviceSync(r) ==
  /\ worker[r] = "started"
  /\ worker' = [worker EXCEPT ![r] = "syncing"]
  /\ UNCHANGED <<executor, created, heard, crashes>>

SendReady(r) ==
  /\ worker[r] = "syncing"
  /\ \A q \in Ranks : worker[q] \in {"syncing", "rpc"}
  /\ worker' = [worker EXCEPT ![r] = "rpc"]
  /\ UNCHANGED <<executor, created, heard, crashes>>

Crash(r) ==
  /\ executor # "running" /\ Alive(r)
  /\ crashes < MaxCrashes /\ crashes' = crashes + 1
  /\ worker' = [worker EXCEPT ![r] = "dead"]
  /\ UNCHANGED <<executor, created, heard>>

ExecutorStep ==
  \/ MakeWorker \/ WaitForReady \/ ConnectBroadcast \/ StartMonitor \/ CleanUp
  \/ \E r \in Ranks : Hear(r) \/ HearFailure(r) \/ ConnectResponses(r)
WorkerStep(r) == EnterDeviceSync(r) \/ SendReady(r)

Next ==
  \/ ExecutorStep
  \/ MakeWorkerRaises
  \/ \E r \in Ranks : WorkerStep(r) \/ Crash(r)

\* The executor's thread and the workers' processes keep running.
Spec ==
  /\ Init /\ [][Next]_vars
  /\ WF_vars(ExecutorStep)
  /\ \A r \in Ranks : WF_vars(WorkerStep(r))

-----------------------------------------------------------------------------

TypeOK ==
  /\ executor \in {"create", "ready", "rpc", "respond", "running", "cleanup",
                   "failed"}
  /\ created \in 0..World
  /\ worker \in [Ranks -> {"none", "started", "syncing", "rpc", "respond",
                           "serving", "dead"}]
  /\ heard \subseteq Ranks
  /\ crashes \in 0..MaxCrashes

\* A start that fails leaves no worker process behind, whatever stage each of
\* them had reached.
NoOrphans == executor = "failed" => \A r \in Ranks : ~Alive(r)

\* No worker serves before all of them have reported READY and connected to
\* the broadcast queue: the first broadcast reaches every rank.
ServeTogether ==
  (\E r \in Ranks : worker[r] = "serving") =>
    /\ heard = Ranks
    /\ \A r \in Ranks : worker[r] \in {"respond", "serving", "dead"}

\* A worker that died after its READY, before the monitor watches it: the
\* executor waits for its queue without a timeout.
DiedUnwatched ==
  \E r \in heard : worker[r] = "dead" /\ executor \in {"ready", "rpc", "respond"}

\* The start ends, in success or in failure, unless a worker dies in the
\* window between its READY and the start of the monitor.
StartEnds == <>(executor \in {"running", "failed"} \/ DiedUnwatched)

=============================================================================
