------------------------- MODULE SpeculatorWeights -------------------------
(***************************************************************************)
(* The weights of the draft models (vllm/spec_dec/arctic_speculator.py:    *)
(* __init__, load_weights and generate_states of ArcticMLPSpeculator and   *)
(* ArcticLSTMSpeculator).  The modules of a model may be tied over its     *)
(* heads, the projections of an LSTM's gates are one matrix, and names the *)
(* model does not know are skipped, so a weight that ends up in the wrong  *)
(* place, or nowhere, is not noticed: the drafts are only worse.           *)
(*                                                                         *)
(* A weight of a checkpoint is its name, <<family, index>>.                *)
(***************************************************************************)
EXTENDS Integers, Sequences, SequencesExt

CONSTANTS
    MaxHeads,  \* bound: config.n_predict
    Unset      \* what a parameter holds that was never loaded

SpeculatorWeightsAssumption == MaxHeads \in Nat \ {0}

VARIABLES
    config,    \* of the draft model
    prefixed,  \* whether the checkpoint's names start with "speculator."
    complete,  \* whether it has a tied weight once for every head
    params     \* the named parameters, and what each holds; or "error"

vars == <<config, prefixed, complete, params>>

MinOf(a, b) == IF a < b THEN a ELSE b
First(n) == 0 .. n - 1

Configs ==
    {c \in [method : {"mlp", "sum_rnn", "sum_lstm"}, tie : BOOLEAN, n : 1 .. MaxHeads, lookahead : 1 .. MaxHeads] :
        /\ c.lookahead <= c.n
        /\ c.method = "mlp" /\ c.tie => c.n > 1
        /\ c.method = "sum_lstm" => c.tie}

-----------------------------------------------------------------------------
(* __init__: how many modules each family has of its own.                  *)

Gates == <<"forget_proj", "input_proj", "output_proj", "cell_proj">>

NumParams ==
    LET heads == IF config.method = "mlp" THEN config.lookahead ELSE config.n
        own   == IF config.tie THEN 1 ELSE heads
        proj  == IF config.tie THEN MinOf(2, heads) ELSE heads
    IN  [emb |-> IF config.method = "sum_lstm" THEN 0 ELSE own,
         proj |-> IF config.method = "sum_lstm" THEN 0 ELSE proj,
         ln |-> IF config.method = "sum_lstm" THEN 0 ELSE own,
         forget_emb |-> IF config.method = "sum_lstm" THEN 1 ELSE 0,
         projs |-> IF config.method = "sum_lstm" THEN 2 ELSE 0,
         cell_ln |-> IF config.method = "sum_lstm" THEN 1 ELSE 0,
         state_ln |-> IF config.method = "sum_lstm" THEN 1 ELSE 0,
         head |-> IF config.tie THEN 1 ELSE config.lookahead,
         qhead |-> IF config.tie THEN 1 ELSE 0]

Params == {w \in (DOMAIN NumParams) \X First(MaxHeads + 2) : w[2] < NumParams[w[1]]}

(* The index of the parameter that head h uses, of a family.               *)
Actual(f, h) ==
    IF ~config.tie THEN h
    ELSE IF f \in {"proj", "projs"} THEN MinOf(h, 1) ELSE 0

-----------------------------------------------------------------------------
(* The checkpoint.                                                         *)

Trained ==
    LET count(f) == IF complete THEN config.n ELSE NumParams[f]
        plain == {w \in (DOMAIN NumParams \ {"qhead", "projs"}) \X First(MaxHeads) :
                     NumParams[w[1]] > 0 /\ w[2] < count(w[1])}
        gates == {<<Gates[g], i>> : g \in DOMAIN Gates, i \in First(2)}
    IN  plain \union IF config.method = "sum_lstm" THEN gates \union {<<"input_emb", 0>>} ELSE {}

(* Tied weights are the same under whatever index, but the first           *)
(* projection, which is from the target model's states, is on its own.     *)
Value(w) ==
    IF config.tie /\ w[1] = "proj" /\ w[2] > 0 THEN <<"proj", 1>>
    ELSE IF config.tie /\ w[1] \notin ToSet(Gates) \union {"proj"} THEN <<w[1], 0>> ELSE w

-----------------------------------------------------------------------------
(* load_weights.                                                           *)

(* The four projections of an LSTM become the rows of one matrix.  They    *)
(* are looked up before the prefix is taken off; a name that is not there  *)
(* ends the load.                                                          *)
Fused(i) == [g \in 1 .. 4 |-> <<Gates[g], i>>]

Fuses == config.method = "sum_lstm"
MissesGates == Fuses /\ (prefixed \/ ~ \A i \in First(NumParams.projs), g \in DOMAIN Gates : <<Gates[g], i>> \in Trained)

LoadedSkippingQhead(p) ==  \* wrong: only names of the checkpoint are loaded
    IF p[1] = "projs" THEN Fused(p[2]) ELSE IF p \in Trained THEN Value(p) ELSE Unset

(* A parameter gets the weight of its name; qhead that of head.            *)
Loaded(p) ==
    LET name == IF p[1] = "qhead" THEN <<"head", p[2]>> ELSE p
    IN  IF p[1] = "projs" THEN Fused(p[2]) ELSE IF name \in Trained THEN Value(name) ELSE Unset

Load ==
    /\ \A p \in DOMAIN params : params[p] = Unset
    /\ DOMAIN params # {}
    /\ params' = IF MissesGates THEN <<>> ELSE [p \in Params |-> Loaded(p)]
    /\ UNCHANGED <<config, prefixed, complete>>

Init ==
    /\ config \in Configs
    /\ prefixed \in BOOLEAN
    /\ complete \in BOOLEAN
    /\ params = [p \in Params |-> Unset]

Next == Load
Spec == Init /\ [][Next]_vars

-----------------------------------------------------------------------------
(* generate_states and generate_token_ids.                                 *)

IsLoaded == DOMAIN params # {} /\ \E p \in DOMAIN params : params[p] # Unset

Families == {f \in DOMAIN NumParams : NumParams[f] > 0}

(* The parameter head h computes with; the quantised copy of the head      *)
(* stands in for it in batches of up to 32 rows.                           *)
Used(f, h) == <<f, Actual(f, h)>>

(* The matrix of the gates is taken apart again: forget, input, output and *)
(* the candidate for the cell, in arctic_speculator.py:737-743 as in       *)
(* sum_lstm.cu.                                                            *)
GateOf(g, i) == params[<<"projs", i>>][CHOOSE k \in DOMAIN Gates : Gates[k] = g]

TypeOK ==
    /\ DOMAIN params \in {Params, {}}
    /\ Used("head", config.lookahead - 1) \in Params

(* Once a checkpoint is loaded, every head of the draft model computes     *)
(* with the weights that were trained for it, whether the modules are tied *)
(* or not and whether the checkpoint repeats tied weights or not.          *)
HeadsUseTheirWeights ==
    IsLoaded =>
        \A f \in Families, h \in First(config.lookahead) :
            /\ Used(f, h) \in DOMAIN params
            /\ f \notin {"projs", "qhead"} => params[Used(f, h)] = Value(<<f, h>>)
            /\ f = "qhead" => params[Used(f, h)] = params[Used("head", h)]

(* Each gate of the LSTM is computed with the projection trained for it.   *)
GatesUseTheirProjection ==
    IsLoaded /\ Fuses =>
        \A g \in ToSet(Gates), h \in First(config.lookahead) :
            GateOf(g, Actual("projs", h)) = <<g, Actual("projs", h)>>
=============================================================================
