--------------------------- MODULE ShiftParallel ---------------------------
(***************************************************************************)
(* The global tensor-parallel mode of a worker (vllm/model_runner.py:      *)
(* set_shift_parallel_mode and its uses in profile_run, ulysses_forward,   *)
(* execute_model, load_model, _capture_cudagraphs and                      *)
(* initialize_kv_cache).  The mode and the group vLLM takes for its        *)
(* tensor-parallel group are globals, swapped in nested scopes; self.model *)
(* is swapped in the same way.  Any computation may raise, which unwinds   *)
(* the scopes.                                                             *)
(*                                                                         *)
(* An operation of the runner is a sequence of steps, taken one at a time. *)
(***************************************************************************)
EXTENDS Integers, Sequences

CONSTANTS
    Layers,  \* the names of the attention and Mamba layers
    None     \* no mode, no group, no cache

ASSUME ShiftParallelAssumption ==
    None \notin BOOLEAN /\ None \notin {"TP", "SP_TP", "base", "shift"}

VARIABLES
    hasShift,  \* enable_shift_parallel
    stage,     \* of start-up: what the worker has done so far
    mode,      \* SP_TP_MODE
    tp,        \* parallel_state._TP
    origTp,    \* parallel_state._ORIG_TP
    model,     \* self.model: the base or the shift model
    scopes,    \* the open scopes, each with what it restores
    steps,     \* what the operation under way has yet to do
    computed,  \* the last computation: which model saw which mode and group
    cache      \* cache[m][l]: whose KV buffers layer l of model m uses

vars == <<hasShift, stage, mode, tp, origTp, model, scopes, steps, computed, cache>>

Models == {"base", "shift"}
Modes  == {None, TRUE, FALSE}
Groups == {"TP", "SP_TP"}

(* Steps: open a scope, close it, call a model or what self.model is at    *)
(* the time, compute.                                                      *)
EnterMode(m) == [do |-> "mode", arg |-> m]
SwapModel    == [do |-> "swap", arg |-> None]
Leave        == [do |-> "leave", arg |-> None]
Forward(m)   == [do |-> "forward", arg |-> m]
Compute(m)   == [do |-> "compute", arg |-> m]

Steps == {EnterMode(m) : m \in Modes} \union {SwapModel, Leave, Forward(None)}
             \union {Forward(m) : m \in Models} \union {Compute(m) : m \in Models}

-----------------------------------------------------------------------------
(* The operations.                                                         *)

(* Loading a model computes with the groups it finds.                      *)
LoadModel == <<Compute("base")>>
                 \o (IF hasShift THEN <<EnterMode(TRUE), Compute("shift"), Leave>> ELSE <<>>)

ProfileRun == <<Forward(None)>>
                  \o (IF hasShift THEN <<SwapModel, EnterMode(TRUE), Forward(None), Leave, Leave>>
                      ELSE <<>>)

(* Each model has shapes to capture, or has none.                          *)
CaptureGraphs(baseShapes, shiftShapes) ==
    (IF baseShapes THEN <<Forward(None)>> ELSE <<>>)
        \o (IF hasShift /\ shiftShapes
            THEN <<SwapModel, EnterMode(TRUE), Forward(None), Leave, Leave>> ELSE <<>>)

(* The logits are always computed by the base model.                       *)
ExecuteModel(useShift) ==
    <<EnterMode(useShift), Forward(IF useShift THEN "shift" ELSE "base"), Leave,
      EnterMode(FALSE), Compute("base"), Leave>>

Begin(before, after, todo) ==
    /\ steps = <<>> /\ scopes = <<>> /\ stage = before
    /\ stage' = after
    /\ steps' = todo
    /\ UNCHANGED <<hasShift, mode, tp, origTp, model, scopes, computed, cache>>

Load    == Begin("new", "loaded", LoadModel)
Profile == Begin("loaded", "profiled", ProfileRun)
CaptureAll == \E b, s \in BOOLEAN : Begin("cached", "captured", CaptureGraphs(b, s))
Execute ==
    \E useShift \in {FALSE, hasShift}, before \in {"captured", "ready"} :
        Begin(before, "ready", ExecuteModel(useShift))

(* initialize_kv_cache: vLLM gives the layers of the base model their      *)
(* buffers; the layers of the same names in the shift model get the same.  *)
InitializeKvCache ==
    /\ steps = <<>> /\ stage = "profiled"
    /\ stage' = "cached"
    /\ cache' = [cache EXCEPT !["base"] = [l \in Layers |-> "base"],
                              !["shift"] = IF hasShift THEN [l \in Layers |-> "base"] ELSE @]
    /\ UNCHANGED <<hasShift, mode, tp, origTp, model, scopes, steps, computed>>

-----------------------------------------------------------------------------
(* The steps.                                                              *)

Push(scope) == scopes' = Append(scopes, scope)

(* The group in force is saved as the original one unless it may be the    *)
(* full-TP group.                                                          *)
SavedTpNever == origTp  \* wrong: forgets to save it
SavedTp == IF mode # TRUE THEN tp ELSE origTp

DoEnterMode ==
    /\ steps # <<>> /\ Head(steps).do = "mode"
    /\ steps' = Tail(steps)
    /\ Push([kind |-> "mode", mode |-> mode, tp |-> tp])
    /\ LET m == Head(steps).arg
       IN  IF m = None THEN UNCHANGED <<mode, tp, origTp>>
           ELSE /\ origTp' = SavedTp
                /\ mode' = m
                /\ tp' = IF m THEN "SP_TP" ELSE SavedTp
    /\ UNCHANGED <<hasShift, stage, model, computed, cache>>

DoSwapModel ==
    /\ steps # <<>> /\ Head(steps) = SwapModel
    /\ steps' = Tail(steps)
    /\ Push([kind |-> "swap", model |-> model])
    /\ model' = "shift"
    /\ UNCHANGED <<hasShift, stage, mode, tp, origTp, computed, cache>>

(* The finally clause of the innermost scope.                              *)
Restore ==
    LET top == scopes[Len(scopes)]
    IN  /\ scopes' = SubSeq(scopes, 1, Len(scopes) - 1)
        /\ IF top.kind = "mode"
           THEN mode' = top.mode /\ tp' = top.tp /\ UNCHANGED model
           ELSE model' = top.model /\ UNCHANGED <<mode, tp>>

DoLeave ==
    /\ steps # <<>> /\ Head(steps) = Leave
    /\ steps' = Tail(steps)
    /\ Restore
    /\ UNCHANGED <<hasShift, stage, origTp, computed, cache>>

(* monkeypatch_forward: the forward of the base model is ulysses_forward,  *)
(* with a scope of its own.                                                *)
ForwardSteps(m) ==
    IF m = "base" THEN <<EnterMode(FALSE), Compute(m), Leave>> ELSE <<Compute(m)>>

DoForward ==
    /\ steps # <<>> /\ Head(steps).do = "forward"
    /\ LET m == IF Head(steps).arg = None THEN model ELSE Head(steps).arg
       IN  steps' = ForwardSteps(m) \o Tail(steps)
    /\ UNCHANGED <<hasShift, stage, mode, tp, origTp, model, scopes, computed, cache>>

DoCompute ==
    /\ steps # <<>> /\ Head(steps).do = "compute"
    /\ steps' = Tail(steps)
    /\ computed' = [model |-> Head(steps).arg, mode |-> mode, tp |-> tp,
                    cache |-> cache[Head(steps).arg]]
    /\ UNCHANGED <<hasShift, stage, mode, tp, origTp, model, scopes, cache>>

(* A computation raises: what is left of the operation is the finally      *)
(* clauses of the scopes that are open.  A worker that fails to start does *)
(* nothing more; one that serves is given the next batch all the same.     *)
Raise ==
    /\ steps # <<>> /\ Head(steps).do = "compute"
    /\ stage' = IF stage = "ready" THEN stage ELSE "failed"
    /\ steps' = [i \in 1 .. Len(scopes) |-> Leave]
    /\ UNCHANGED <<hasShift, mode, tp, origTp, model, scopes, computed, cache>>

NotComputed == [model |-> None, mode |-> None, tp |-> None, cache |-> None]

Init ==
    /\ hasShift \in BOOLEAN
    /\ stage = "new"
    /\ mode = None /\ tp = "TP" /\ origTp = None
    /\ model = "base"
    /\ scopes = <<>> /\ steps = <<>>
    /\ computed = NotComputed
    /\ cache = [m \in Models |-> [l \in Layers |-> None]]

Next ==
    \/ Load \/ Profile \/ InitializeKvCache \/ CaptureAll \/ Execute
    \/ DoEnterMode \/ DoSwapModel \/ DoLeave \/ DoForward \/ DoCompute \/ Raise

Spec == Init /\ [][Next]_vars

-----------------------------------------------------------------------------

Scopes == [kind : {"mode"}, mode : Modes, tp : Groups] \union [kind : {"swap"}, model : Models]

TypeOK ==
    /\ hasShift \in BOOLEAN
    /\ stage \in {"new", "loaded", "profiled", "cached", "captured", "ready", "failed"}
    /\ mode \in Modes
    /\ tp \in Groups
    /\ origTp \in {"TP", None}
    /\ model \in Models
    /\ scopes \in Seq(Scopes)
    /\ steps \in Seq(Steps)
    /\ computed \in [model : Models, mode : Modes, tp : Groups,
                     cache : [Layers -> {"base", None}]] \union {NotComputed}
    /\ cache \in [Models -> [Layers -> {"base", None}]]

(* set_shift_parallel_mode: "Swap the tensor-parallel group to an          *)
(* SP-compatible variant when 'mode' is True", however scopes are nested.  *)
GroupMatchesMode == tp = (IF mode = TRUE THEN "SP_TP" ELSE "TP")

(* Whatever operation ran, and whether or not it raised, the globals are   *)
(* back where they were when no scope is open.                             *)
RestoredOutsideScopes ==
    scopes = <<>> => mode = None /\ tp = "TP" /\ model = "base"

(* Each model is loaded and run with the group its weights are split over. *)
ModelsSeeTheirGroup ==
    computed # NotComputed => computed.tp = (IF computed.model = "shift" THEN "SP_TP" ELSE "TP")

(* initialize_kv_cache: "bind the same buffers into the shift-parallel     *)
(* model so they share cache/state".  A request may be run by either model *)
(* from one step to the next.                                              *)
ModelsShareCache ==
    [][stage = "ready" /\ computed' # computed =>
          \A l \in Layers : computed'.cache[l] # None /\ computed'.cache[l] = cache["base"][l]]_vars

(* All of it, of nested scopes and of scopes left by exceptions.           *)
ModesSound ==
    /\ [](TypeOK /\ GroupMatchesMode /\ RestoredOutsideScopes /\ ModelsSeeTheirGroup)
    /\ ModelsShareCache
=============================================================================
