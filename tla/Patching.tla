------------------------------ MODULE Patching ------------------------------
(***************************************************************************)
(* How Arctic changes vLLM in every process of an engine                   *)
(* (arctic_inference/patching.py, vllm/plugin.py, vllm/patches.py).  The   *)
(* plugin patches the classes of the process it is loaded in; an engine    *)
(* core and its workers may live in the user's process, in forked ones,    *)
(* which inherit the patched classes, or in spawned ones, which start      *)
(* without them.  The patch of the model runner is applied last, in the    *)
(* constructor of a worker, since it imports CUDA libraries.               *)
(***************************************************************************)
EXTENDS Integers, FiniteSets

CONSTANTS
  Procs,        \* the operating-system processes; Main is the user's
  Main,
  MaxWorkers    \* bound: workers constructed in one process

PatchingAssumption == Main \in Procs /\ MaxWorkers \in Nat

VARIABLES
  installed,    \* the plugin's checks: enabled, and the versions they see
  proc          \* process -> its interpreter

vars == <<installed, proc>>

\* The patches, in the order they are applied.  A target is patched by one
\* patch only; AsyncEngineArgs is a subclass of EngineArgs.
Patch(target, names) == [target |-> target, names |-> names]
EngineCore == Patch("EngineCoreProc", {"run_engine_core"})
WorkerBase == Patch("WorkerBase", {"init"})
Configuration == {Patch("EngineArgs", {"new", "create_engine_config"}),
                  Patch("AsyncEngineArgs", {"new"})}
ModelRunner == Patch("GPUModelRunner", {"init", "execute_model"})
GeneralPatches == {EngineCore, WorkerBase} \cup Configuration

Entries(patch) == {<<patch.target, n>> : n \in patch.names}
Applied(p, patch) == Entries(patch) \subseteq proc[p].registry

\* apply_patch raises on a name of the target that is already patched.
\* wrong: the registry is looked up through the base classes of the target
ConflictsInherited(registry, patch) ==
  \E e \in registry : /\ e[2] \in patch.names
                      /\ \/ e[1] = patch.target
                         \/ e[1] = "EngineArgs" /\ patch.target = "AsyncEngineArgs"
Conflicts(registry, patch) == Entries(patch) \cap registry # {}

Fresh == [up |-> TRUE, role |-> "main", loaded |-> FALSE, registry |-> {},
          cuda |-> FALSE, workers |-> 0, failed |-> FALSE, patchedEntry |-> FALSE]
Off == [Fresh EXCEPT !.up = FALSE]

Init ==
  /\ installed \in [enabled : BOOLEAN, version : BOOLEAN, platform : BOOLEAN]
  /\ proc = [p \in Procs |-> IF p = Main THEN Fresh ELSE Off]

Runs(p, role) == proc[p].up /\ ~proc[p].failed /\ proc[p].role = role

-----------------------------------------------------------------------------

\* arctic_inference_plugin applies one patch after another.
Patched(i) ==
  [i EXCEPT
    !.registry = i.registry \cup UNION {Entries(q) : q \in GeneralPatches},
    !.failed = \E q \in GeneralPatches :
      \/ Conflicts(i.registry, q)
      \/ \E r \in GeneralPatches \ {q} : Conflicts(Entries(r), q)]

Plugin(i) ==
  IF ~installed.enabled THEN i
  ELSE IF installed.version /\ installed.platform THEN Patched(i)
  ELSE [i EXCEPT !.failed = TRUE]

\* vLLM loads the plugins of a process once.
Loaded(i) == IF i.loaded THEN i ELSE Plugin([i EXCEPT !.loaded = TRUE])

LoadInMain ==
  /\ Runs(Main, "main")
  /\ proc' = [proc EXCEPT ![Main] = Loaded(@)]
  /\ UNCHANGED installed

\* A child for the engine core, or for a worker of it.  vLLM spawns when CUDA
\* is initialised.  What a spawned core runs is named by its parent's class.
Child(p, how) ==
  LET role == IF proc[p].role = "main" THEN "core" ELSE "worker"
      from == IF how = "fork" THEN proc[p] ELSE Fresh
  IN  [from EXCEPT !.role = role, !.workers = 0,
         !.patchedEntry = Applied(p, EngineCore)]

Start(p, q, how) ==
  /\ Runs(p, "main") \/ Runs(p, "core")
  /\ proc[p].loaded /\ ~proc[q].up
  /\ how = "fork" => ~proc[p].cuda
  /\ proc' = [proc EXCEPT ![q] = Child(p, how)]
  /\ UNCHANGED installed

\* EngineCoreProcPatch.run_engine_core loads the plugins first.
RunEngineCore(p) ==
  /\ Runs(p, "core") /\ proc[p].workers = 0
  /\ proc' = [proc EXCEPT ![p] = IF @.patchedEntry THEN Loaded(@)
                                 ELSE [@ EXCEPT !.loaded = TRUE]]
  /\ UNCHANGED installed

\* vLLM's worker process loads the plugins itself.
RunWorkerProc(p) ==
  /\ Runs(p, "worker") /\ proc[p].workers = 0
  /\ proc' = [proc EXCEPT ![p] = Loaded(@)]
  /\ UNCHANGED installed

\* WorkerBase.__init__, in the process of the executor or in a worker's own.
Constructed(i) ==
  IF ~(Entries(WorkerBase) \subseteq i.registry)
  THEN [i EXCEPT !.cuda = TRUE, !.workers = @ + 1]
  ELSE IF Conflicts(i.registry, ModelRunner) THEN [i EXCEPT !.failed = TRUE]
  ELSE [i EXCEPT !.registry = @ \cup Entries(ModelRunner), !.cuda = TRUE,
                 !.workers = @ + 1]

ConstructWorker(p) ==
  /\ proc[p].up /\ ~proc[p].failed /\ proc[p].loaded
  /\ proc[p].workers < MaxWorkers
  /\ proc' = [proc EXCEPT ![p] = Constructed(@)]
  /\ UNCHANGED installed

Next ==
  \/ LoadInMain
  \/ \E p \in Procs :
       \/ RunEngineCore(p) \/ RunWorkerProc(p) \/ ConstructWorker(p)
       \/ \E q \in Procs, how \in {"fork", "spawn"} : Start(p, q, how)

Spec == Init /\ [][Next]_vars
-----------------------------------------------------------------------------

TypeOK ==
  /\ installed \in [enabled : BOOLEAN, version : BOOLEAN, platform : BOOLEAN]
  /\ \A p \in Procs :
       /\ proc[p].role \in {"main", "core", "worker"}
       /\ proc[p].workers \in 0..MaxWorkers
       /\ \A e \in proc[p].registry : \E q \in GeneralPatches \cup {ModelRunner} :
            e \in Entries(q)

\* A worker runs either with every patch, the model runner's included, or,
\* where the plugin is disabled, with none, however its process came to be:
\* forked or spawned, from a process that had loaded the plugins or not.
WorkersArePatched ==
  \A p \in Procs : proc[p].workers > 0 =>
    IF installed.enabled
    THEN \A q \in GeneralPatches \cup {ModelRunner} : Applied(p, q)
    ELSE proc[p].registry = {}

\* Nothing is patched twice while an engine comes up: the only failures are an
\* installation the plugin refuses and a second worker in one process.
OnlyASecondWorkerFails ==
  \A p \in Procs : proc[p].failed =>
    /\ installed.enabled
    /\ (installed.version /\ installed.platform) => proc[p].workers > 0

\* An installation the plugin refuses never runs a worker with the plugin on.
RefusedInstallationsDoNotRun ==
  \A p \in Procs : proc[p].workers > 0 =>
    (installed.enabled => installed.version /\ installed.platform)
=============================================================================
