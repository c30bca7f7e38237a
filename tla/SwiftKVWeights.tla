--------------------------- MODULE SwiftKVWeights ---------------------------
(***************************************************************************)
(* Building and loading a SwiftKV model (vllm/swiftkv/llama_swiftkv.py:    *)
(* LlamaSwiftKVModel.__init__ and load_weights).  Every layer's matrices   *)
(* are cut over a tensor-parallel group: the layers before the cut over    *)
(* the group of the mode the model is built in, those after it over the    *)
(* combined SP and TP group.  Which part of a checkpoint's tensor a rank   *)
(* copies depends on the group that is current when it is loaded.          *)
(*                                                                         *)
(* A tensor is <<layer, projection>>; "bias" is the bias of a quantised    *)
(* linear layer that has none, "kv_scale" the scale of a quantised cache.  *)
(***************************************************************************)
EXTENDS Integers

CONSTANTS
    NumLayers,    \* config.num_hidden_layers
    NumKvLayers   \* config.num_key_value_layers

SwiftKVWeightsAssumption ==
    /\ NumLayers \in Nat /\ NumKvLayers \in 0 .. NumLayers

VARIABLES
    mode,      \* SP_TP_MODE, "shift" when it is True and "tp" otherwise
    pending,   \* the checkpoint's tensors that have not been read
    loaded     \* <<parameter, shard, tensor, mode at the time>> copied so far

vars == <<mode, pending, loaded>>

Layers == 0 .. NumLayers - 1
AfterCut(l) == l >= NumKvLayers

-----------------------------------------------------------------------------
(* __init__                                                                *)

Stacked ==
    [q_proj |-> <<"qkv_proj", "q">>, k_proj |-> <<"qkv_proj", "k">>, v_proj |-> <<"qkv_proj", "v">>,
     gate_proj |-> <<"gate_up_proj", "0">>, up_proj |-> <<"gate_up_proj", "1">>,
     k_proj_swiftkv |-> <<"kv_proj_swiftkv", "k">>, v_proj_swiftkv |-> <<"kv_proj_swiftkv", "v">>]

ParamsOf(l) ==
    {"qkv_proj", "gate_up_proj", "o_proj", "down_proj", "kv_scale"}
        \union IF AfterCut(l) THEN {"q_proj_swiftkv", "kv_proj_swiftkv"} ELSE {}
Params == UNION {{l} \X ParamsOf(l) : l \in Layers}

(* The mode in which a layer's parameters were made, outer being that of   *)
(* whoever builds the model.                                               *)
BuiltIn(l, outer) == IF AfterCut(l) THEN "shift" ELSE outer

(* param.shift_parallel_mode, if the parameter has one.                    *)
UseShiftMode(l) == IF AfterCut(l) THEN "shift" ELSE "unset"

(* What a checkpoint holds of a layer.                                     *)
Projections(l) ==
    {"q_proj", "k_proj", "v_proj", "gate_proj", "up_proj", "o_proj", "down_proj", "kv_scale", "inv_freq", "bias"}
        \union IF AfterCut(l) THEN {"q_proj_swiftkv", "k_proj_swiftkv", "v_proj_swiftkv"} ELSE {}

-----------------------------------------------------------------------------
(* load_weights                                                            *)

(* set_shift_parallel_mode(None) leaves the mode as it is.                 *)
ModeDuring(use) == IF use = "unset" THEN mode ELSE use

(* A tensor of a stacked parameter is copied to its shard, another one to  *)
(* the parameter of its name.                                              *)
Target(proj) == IF proj \in DOMAIN Stacked THEN Stacked[proj] ELSE <<proj, "all">>

Skipped(l, proj) ==
    \/ proj = "inv_freq"
    \/ proj = "bias" /\ <<l, proj>> \notin Params

(* A checkpoint is read layer by layer, the tensors of a layer in any      *)
(* order.                                                                  *)
Load(l, proj) ==
    /\ <<l, proj>> \in pending /\ \A x \in pending : x[1] >= l
    /\ pending' = pending \ {<<l, proj>>}
    /\ loaded' = IF Skipped(l, proj) THEN loaded
                 ELSE loaded \union {<<<<l, Target(proj)[1]>>, Target(proj)[2], proj, ModeDuring(UseShiftMode(l))>>}
    /\ UNCHANGED mode

Init ==
    /\ mode \in {"tp", "shift"}
    /\ \E omitted \in SUBSET ({"bias", "inv_freq"} \cap UNION {Projections(l) : l \in Layers}) :
           pending = UNION {{l} \X (Projections(l) \ omitted) : l \in Layers}
    /\ loaded = {}

Next == \E l \in Layers : \E proj \in Projections(l) : Load(l, proj)
Spec == Init /\ [][Next]_vars

-----------------------------------------------------------------------------

Shards == [qkv_proj |-> {"q", "k", "v"}, gate_up_proj |-> {"0", "1"}, kv_proj_swiftkv |-> {"k", "v"},
           q_proj_swiftkv |-> {"all"}, kv_scale |-> {"all"}, o_proj |-> {"all"}, down_proj |-> {"all"}]

(* A parameter is filled under the group it was cut for, whether the model *)
(* is built as the original one or as the shift one: otherwise the ranks   *)
(* of the smaller group would hold the wrong parts of the matrix.          *)
LoadedWhereBuilt == \A x \in loaded : x[4] = BuiltIn(x[1][1], mode)

(* When the checkpoint has been read, every part of every parameter has    *)
(* been filled, and from one tensor only.                                  *)
EveryShardFilledOnce ==
    pending = {} => \A p \in Params : \A s \in Shards[p[2]] :
                        \E x \in loaded : /\ x[1] = p /\ x[2] = s
                                          /\ \A y \in loaded : y[1] = p /\ y[2] = s => y = x
=============================================================================
