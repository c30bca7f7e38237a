------------------------------ MODULE MCEngine ------------------------------
(***************************************************************************)
(* Start-up, parallelism and serving of an engine, for TLC: one            *)
(* small instance of each component's module.  A behaviour picks one of the *)
(* components and runs it by its own specification; they share no state.   *)
(***************************************************************************)
EXTENDS ShiftParallel

CONSTANTS
  Idle,
  \* BatchRouting
  Sizes, SP, Threshold, MaxTokens, MaxSeqs, GraphMode, Adaptive, SwiftKV,
  \* ExecutorStart
  NumWorkers, MaxCrashes,
  \* Replica
  C1, C2, Id1,
  \* Patching
  Procs, Main, MaxWorkers

VARIABLES
  part,  \* the component that runs
  \* BatchRouting
  phase, keys, captured, run,
  \* RankGroups
  layout, group, destroyed,
  \* EngineConfig
  asked, args, built, parallel, spec, grammar, runner,
  \* ReplicaCommand
  options,
  \* ExecutorStart
  executor, created, worker, heard, crashes,
  \* Replica
  port, ready, call, task, llm, aborted,
  \* DynasorServers
  main, server, proxy, request,
  \* Patching
  installed, proc

routingVars == <<phase, keys, captured, run>>
ranksVars == <<layout, group, destroyed>>
configVars == <<asked, args, built, parallel, spec, grammar, runner>>
commandVars == <<options>>
startVars == <<executor, created, worker, heard, crashes>>
replicaVars == <<port, ready, call, task, llm, aborted>>
serversVars == <<main, server, proxy, request>>
patchingVars == <<installed, proc>>
MCvars == <<part, routingVars, vars, ranksVars, configVars, commandVars, startVars,
          replicaVars, serversVars, patchingVars>>

Routing == INSTANCE BatchRouting
Ranks == INSTANCE RankGroups WITH
  Degrees <- {1, 2, 3, 4}, MaxWorld <- 16, Heads <- {1, 2, 4, 12},
  Tokens <- 2, cfg <- layout
Config == INSTANCE EngineConfig WITH
  Degrees <- {1, 2}, Methods <- {None, "arctic", "mlp_speculator", "suffix", "eagle"},
  Drafts <- {1, 3}, Depth <- 6, MaxSpecLen <- 4, stage <- built
Command == INSTANCE ReplicaCommand WITH
  Styles <- {"spaced", "joined"}, MaxOptions <- 4, args <- options
Start == INSTANCE ExecutorStart WITH World <- NumWorkers
Embedder == INSTANCE Replica WITH
  Calls <- {C1, C2}, Ids <- {Id1}, MaxPrompts <- 2, MaxAborts <- 1,
  server <- port, engine <- llm
Servers == INSTANCE DynasorServers
Patching == INSTANCE Patching

ASSUME RoutingAssumption == Routing!BatchRoutingAssumption /\ Routing!WellSized
ASSUME ConfigAssumption == Config!DepthAssumption
ASSUME StartAssumption == Start!WorldAssumption
ASSUME EmbedderAssumption == Embedder!ReplicaAssumption
ASSUME PatchesAssumption == Patching!PatchingAssumption

(* Every component starts as its own specification says when it is the one *)
(* that runs, and rests otherwise.                                         *)
MCInit ==
  /\ part \in {"routing", "modes", "ranks", "config", "command", "start",
              "replica", "servers", "patching"}
  /\ IF part = "routing" THEN Routing!Init
     ELSE phase = Idle /\ keys = Idle /\ captured = Idle /\ run = Idle
  /\ Init /\ (part # "modes" => ~hasShift)
  /\ IF part = "ranks" THEN Ranks!Init
     ELSE layout = Idle /\ group = Idle /\ destroyed = Idle
  /\ IF part = "config" THEN Config!Init
     ELSE /\ asked = Idle /\ args = Idle /\ built = Idle /\ parallel = Idle
          /\ spec = Idle /\ grammar = Idle /\ runner = Idle
  /\ IF part = "command" THEN Command!Init
     ELSE options = Idle
  /\ IF part = "start" THEN Start!Init
     ELSE /\ executor = Idle /\ created = Idle /\ worker = Idle
          /\ heard = Idle /\ crashes = Idle
  /\ IF part = "replica" THEN Embedder!Init
     ELSE /\ port = Idle /\ ready = Idle /\ call = Idle /\ task = Idle
          /\ llm = Idle /\ aborted = Idle
  /\ IF part = "servers" THEN Servers!Init
     ELSE main = Idle /\ server = Idle /\ proxy = Idle /\ request = Idle
  /\ IF part = "patching" THEN Patching!Init
     ELSE installed = Idle /\ proc = Idle

Rest ==
  /\ UNCHANGED part
  /\ part # "routing" => UNCHANGED routingVars
  /\ part # "modes" => UNCHANGED vars
  /\ part # "ranks" => UNCHANGED ranksVars
  /\ part # "config" => UNCHANGED configVars
  /\ part # "command" => UNCHANGED commandVars
  /\ part # "start" => UNCHANGED startVars
  /\ part # "replica" => UNCHANGED replicaVars
  /\ part # "servers" => UNCHANGED serversVars
  /\ part # "patching" => UNCHANGED patchingVars

(* A batch finds nothing of the one before it but the graphs: after the    *)
(* capture one batch is executed, whichever it is.                         *)
MCNext ==
  \/ part = "routing" /\ run = Routing!NoRun /\ Routing!Next /\ Rest
  \/ part = "modes" /\ Next /\ Rest
  \/ part = "ranks" /\ Ranks!Next /\ Rest
  \/ part = "config" /\ Config!Next /\ Rest
  \/ part = "command" /\ Command!Next /\ Rest
  \/ part = "start" /\ Start!Next /\ Rest
  \/ part = "replica" /\ Embedder!Next /\ Rest
  \/ part = "servers" /\ Servers!Next /\ Rest
  \/ part = "patching" /\ Patching!Next /\ Rest

(* The fairness of ExecutorStart, of Replica and of DynasorServers, while  *)
(* they run.                                                               *)
Fairness ==
  /\ \A c \in {C1, C2} :
       /\ WF_replicaVars(part = "replica" /\ Embedder!EncodeStarts(c) /\ Rest)
       /\ WF_replicaVars(part = "replica" /\ Embedder!Gather(c) /\ Rest)
       /\ \A i \in 0 .. 1 :
            /\ WF_replicaVars(part = "replica" /\ Embedder!Submit(c, i) /\ Rest)
            /\ WF_replicaVars(part = "replica" /\ Embedder!Complete(c, i) /\ Rest)
  /\ WF_startVars(part = "start" /\ Start!ExecutorStep /\ Rest)
  /\ \A r \in 0 .. NumWorkers - 1 : WF_startVars(part = "start" /\ Start!WorkerStep(r) /\ Rest)
  /\ WF_serversVars(part = "servers" /\ Servers!MainStep /\ Rest)
  /\ WF_serversVars(/\ part = "servers" /\ server = "starting"
                    /\ Servers!ServerUp \/ Servers!ServerDies
                    /\ Rest)
  /\ WF_serversVars(/\ part = "servers" /\ proxy = "starting"
                    /\ Servers!ProxyUp \/ Servers!ProxyDies
                    /\ Rest)

MCSpec == MCInit /\ [][MCNext]_MCvars /\ Fairness

-----------------------------------------------------------------------------

(* With the adaptive rule, as by default, and sizes that are WellSized: a  *)
(* batch that the threshold decides on is executed on a graph that was     *)
(* captured of the model that runs it, the asserts of the capture hold,    *)
(* and the slices of ulysses_forward cover the batch and nothing twice.    *)
(* Of the graphs of a batch that the adaptive rule puts on the shift model *)
(* it says nothing: the run batch_routing_adaptive shows one missing.      *)
DispatchSound == part = "routing" =>
  Routing!TypeOK /\ Routing!ThresholdGraphsCaptured /\ Routing!CaptureAssertsHold
    /\ Routing!SlicesCoverBatch

(* Whatever degrees divide the ranks: every family of groups partitions    *)
(* them, the pipeline stages and the experts lie where the weights are, a  *)
(* rank owns the same heads in both modes, and the two all-to-alls of      *)
(* UlyssesAttention compute attention.                                     *)
RanksSound == part = "ranks" =>
  Ranks!TypeOK /\ Ranks!GroupsPartitionTheRanks /\ Ranks!StagesFollowThePipeline
    /\ Ranks!ExpertsSpanTheReplicas /\ Ranks!SameHeadsInBothModes
    /\ Ranks!ForwardIsAttention

(* What the user asked for is what runs: the degrees, the executor and the *)
(* speculation reach the model runner past vLLM's checks, exactly the      *)
(* contradictory options are refused, and the grammar can roll back every  *)
(* draft, but for the method mlp_speculator with suffix decoding.  A       *)
(* replica of the embedding server gets the engine's options and listens   *)
(* on its own port, unless --port or an option only the manager knows was  *)
(* written in one word with its value: those pass the filter, and exactly  *)
(* then another port is taken, or the replica refuses its command line.    *)
OptionsReachTheirProcess ==
  /\ part = "config" =>
       Config!TypeOK /\ Config!DegreesReachTheRunner
         /\ Config!SeveralRanksSeveralProcesses /\ Config!RefusedExactly
         /\ Config!SpeculationSurvives
         /\ (Config!DraftsFitTheGrammar \/ Config!SuffixUncounted)
  /\ part = "command" => Command!OnlyJoinedOptionsPass

(* A start that fails leaves no process behind and none serves before all  *)
(* are connected (_init_executor); the proxy accepts requests only behind a *)
(* server that was healthy (Dynasor's main).  Both starts come to an end:  *)
(* the executor's unless a worker dies unwatched, and main's once both its *)
(* processes have ended.                                                   *)
StartsAndEnds ==
  /\ [](part = "start" => Start!TypeOK /\ Start!NoOrphans /\ Start!ServeTogether)
  /\ [](part = "servers" => Servers!TypeOK /\ Servers!ConnectionFailsOnlyAfterDeath)
  /\ <>(part = "start" => executor \in {"running", "failed"} \/ Start!DiedUnwatched)
  /\ (part = "servers" /\ main = "watch" /\ ~Servers!Alive(server) /\ ~Servers!Alive(proxy))
       ~> main = "exited"

(* Calls that share an id: an answer without an error has one embedding for *)
(* each prompt of its own call, the engine works for calls that wait or for *)
(* what a failed prompt left, no call is told the model is not ready, and  *)
(* every call that reached the replica is answered or given up.            *)
EveryCallGetsItsOwn ==
  /\ [](part = "replica" =>
         Embedder!TypeOK /\ Embedder!AnswersAreComplete /\ Embedder!WorkHasACaller
           /\ Embedder!TasksAreDistinctRequests /\ Embedder!NeverNotReady)
  /\ \A c \in {C1, C2} :
       (part = "replica" /\ call[c].phase = "sent")
         ~> (part = "replica" /\ call[c].phase \in {"answered", "abandoned"})

(* Forked or spawned, in whatever order processes load the plugins: a      *)
(* worker runs with every patch or with none, nothing is patched twice but *)
(* by a second worker in one process, and an installation that is refused  *)
(* runs no worker.                                                         *)
PatchedOnce == part = "patching" =>
  Patching!TypeOK /\ Patching!WorkersArePatched /\ Patching!OnlyASecondWorkerFails
    /\ Patching!RefusedInstallationsDoNotRun
=============================================================================
