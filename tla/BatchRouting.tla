---------------------------- MODULE BatchRouting ----------------------------
(***************************************************************************)
(* Which model runs a batch, over how many tokens and with which CUDA      *)
(* graph (vllm/model_runner.py: execute_model, _capture_cudagraphs,        *)
(* _dummy_run, ulysses_forward; vllm/ulysses.py:                           *)
(* initialize_cudagraph_keys).  The base model splits the batch over SP    *)
(* sequence-parallel ranks; the shift model runs it whole, with full       *)
(* tensor parallelism.  The graphs are captured once, at start-up, from    *)
(* one set of rules, and looked up for every batch by another: the         *)
(* properties relate the two.                                              *)
(*                                                                         *)
(* Data parallelism, microbatching and vLLM's own sequence parallelism are *)
(* off (get_dp_padding adds nothing).  uniform_decode_query_len is 1: the  *)
(* runner hides the speculative configuration while vLLM computes it.      *)
(***************************************************************************)
EXTENDS Integers, Sequences, FiniteSets, Functions, FiniteSetsExt

CONSTANTS
    Sizes,      \* cudagraph_capture_sizes
    SP,         \* ulysses_sequence_parallel_size
    Threshold,  \* shift_parallel_threshold
    MaxTokens,  \* max_num_batched_tokens, the rows of the input buffers
    MaxSeqs,    \* max_num_seqs
    GraphMode,  \* cudagraph_mode
    Adaptive,   \* ARCTIC_ADAPTIVE_THRESHOLD # "0"
    SwiftKV     \* the model is a SwiftKV model

GraphModes == {"NONE", "PIECEWISE", "FULL", "FULL_DECODE_ONLY", "FULL_AND_PIECEWISE"}

BatchRoutingAssumption ==
    /\ Sizes \in SUBSET (Nat \ {0}) /\ Sizes # {} /\ IsFiniteSet(Sizes)
    /\ {SP, MaxTokens, MaxSeqs} \subseteq Nat \ {0}
    /\ SP > 1                   \* config.py:37: shift parallelism needs it
    /\ MaxTokens % SP = 0
    /\ Threshold \in Nat
    /\ GraphMode \in GraphModes
    /\ Adaptive \in BOOLEAN /\ SwiftKV \in BOOLEAN

VARIABLES
    phase,     \* of start-up: "loaded", "keyed", "captured", or "failed"
    keys,      \* the dispatcher's keys: graphs that may be asked for
    captured,  \* the graphs captured, each with the model it was captured of
    run        \* the last batch executed and how it was run

vars == <<phase, keys, captured, run>>

Desc(mode, n, uniform) == [mode |-> mode, tokens |-> n, uniform |-> uniform]
NoGraph == Desc("NONE", 0, FALSE)
Descs == [mode : {"PIECEWISE", "FULL"}, tokens : Nat, uniform : BOOLEAN]

(* vLLM's CUDAGraphMode (external): a pair of modes, or one for both.      *)
DecodeMode == IF GraphMode \in {"FULL_DECODE_ONLY", "FULL_AND_PIECEWISE"} THEN "FULL" ELSE GraphMode
MixedMode == CASE GraphMode = "FULL_DECODE_ONLY"   -> "NONE"
               [] GraphMode = "FULL_AND_PIECEWISE" -> "PIECEWISE"
               [] OTHER -> GraphMode
SeparateRoutine == GraphMode \in {"FULL_DECODE_ONLY", "FULL_AND_PIECEWISE"}

(* The sizes for uniform decode batches, of one token per request.         *)
DecodeSizes == {s \in Sizes : s <= MaxSeqs}
FullDecode == DecodeMode = "FULL" /\ SeparateRoutine

(* Configurations of which every graph that may be asked for by the        *)
(* threshold is captured: the threshold is a size, whose batches are not   *)
(* padded beyond it, every size fits the buffers of all ranks, and so      *)
(* does, where there are full graphs, every size that a batch of decodes   *)
(* is padded to.                                                           *)
WellSized ==
    /\ Threshold \in Sizes \union {0}
    /\ \A s \in Sizes : s * SP <= MaxTokens
    /\ MixedMode = "FULL" => \A s \in Sizes : s * SP <= MaxSeqs
    /\ FullDecode =>
          /\ \/ \E s \in Sizes : s * SP = MaxSeqs
             \/ \A s \in Sizes : s * SP <= MaxSeqs
          /\ MaxSeqs \in Sizes \/ Threshold <= MaxSeqs

(* vLLM's own keys, before Ulysses adds the multiples of SP (external).    *)
OrigKeys ==
    {Desc(MixedMode, s, FALSE) : s \in {s \in Sizes : MixedMode # "NONE"}}
        \union {Desc("FULL", s, TRUE) : s \in {s \in DecodeSizes : FullDecode}}

SpMixedKeys == {Desc(MixedMode, s * SP, FALSE) : s \in {s \in Sizes : MixedMode # "NONE"}}
SpDecodeKeys == {Desc("FULL", s * SP, TRUE) : s \in {s \in DecodeSizes : FullDecode}}

(* sp_size is assigned in the branch for the mixed mode only.              *)
SpSizeUnbound == MixedMode = "NONE" /\ SpDecodeKeys # {}

InitializeKeys ==
    /\ phase = "loaded"
    /\ IF SpSizeUnbound
       THEN phase' = "failed" /\ keys' = OrigKeys
       ELSE phase' = "keyed" /\ keys' = OrigKeys \union SpMixedKeys \union SpDecodeKeys
    /\ UNCHANGED <<captured, run>>

(* CudagraphDispatcher.dispatch (external): a full graph for the batch as  *)
(* it is, else one that does not need it to be uniform, else none.         *)
Dispatch(n, uniform) ==
    LET ranked == <<Desc("FULL", n, uniform), Desc("FULL", n, FALSE), Desc("PIECEWISE", n, FALSE)>>
        found  == {i \in DOMAIN ranked : ranked[i] \in keys}
    IN  IF found = {} THEN NoGraph ELSE ranked[Min(found)]

-----------------------------------------------------------------------------
(* _capture_cudagraphs.                                                    *)

BaseShapesByBatch(cases, mode) ==  \* wrong: compares the shape of one rank
    {s \in {Min({c * SP, MaxTokens}) : c \in {c \in cases : c > Threshold}} :
        mode = "FULL" => s <= MaxSeqs}

BaseShapes(cases, mode) ==
    {s \in {Min({c * SP, MaxTokens}) : c \in {c \in cases : c * SP > Threshold}} :
        mode = "FULL" => s <= MaxSeqs}

ShiftShapes(cases, mode) ==
    {c \in cases : /\ c <= Threshold \/ SwiftKV
                   /\ mode = "FULL" => c <= MaxSeqs}

GraphsOf(cases, mode, uniform) ==
    [model : {"base"}, graph : {Desc(mode, s, uniform) : s \in BaseShapes(cases, mode)}]
        \union [model : {"shift"}, graph : {Desc(mode, s, uniform) : s \in ShiftShapes(cases, mode)}]

(* vLLM's capture_model calls it for the mixed batches and then for the    *)
(* uniform decode batches (external).                                      *)
Capture ==
    /\ phase = "keyed"
    /\ phase' = "captured"
    /\ captured' =
          (IF MixedMode # "NONE" THEN GraphsOf(Sizes, MixedMode, FALSE) ELSE {})
              \union (IF FullDecode THEN GraphsOf(DecodeSizes, "FULL", TRUE) ELSE {})
    /\ UNCHANGED <<keys, run>>

(* The requests of a _dummy_run over n tokens, with at most MaxSeqs of     *)
(* them unless every one is a decode of a single token.                    *)
DummyRequests(n, uniform, mixed) ==
    IF mixed THEN [i \in 1 .. n \div 2 + 1 |-> IF i <= n \div 2 THEN 1 ELSE n - n \div 2]
    ELSE LET reqs == IF uniform THEN n ELSE Min({n, MaxSeqs})
         IN  [i \in 1 .. reqs |-> n \div reqs + (IF i = reqs THEN n % reqs ELSE 0)]

-----------------------------------------------------------------------------
(* execute_model.  A batch is the sequence of the tokens scheduled for each *)
(* of its requests.                                                        *)

Total(batch) == FoldFunction(LAMBDA x, y : x + y, 0, batch)
MaxPerReq(batch) == Max(Range(batch))
Batches == {b \in UNION {[1 .. k -> 1 .. MaxTokens] : k \in 1 .. MaxSeqs} : Total(b) <= MaxTokens}

UseShiftModel(batch) ==
    \/ Total(batch) <= Threshold
    \/ Adaptive /\ MaxPerReq(batch) <= Threshold

LargestSize == Max(Sizes)
PadForCudagraph(n) == Min({s \in Sizes : s >= n})  \* vLLM's (external)
RoundUp(n, k) == ((n + k - 1) \div k) * k

NumInputTokens(batch, shift) ==
    LET total   == Total(batch)
        rounded == RoundUp(total, SP)
        graphs  == GraphMode # "NONE"
    IN  IF ~shift
        THEN IF graphs /\ rounded \div SP <= LargestSize
             THEN PadForCudagraph(rounded \div SP) * SP ELSE rounded
        ELSE IF graphs /\ total <= LargestSize THEN PadForCudagraph(total) ELSE total

UniformDecode(batch) == MaxPerReq(batch) = 1

Execute(batch) ==
    /\ phase = "captured"
    /\ LET shift == UseShiftModel(batch)
           n     == NumInputTokens(batch, shift)
       IN  run' = [batch |-> batch, model |-> IF shift THEN "shift" ELSE "base",
                   tokens |-> n, graph |-> Dispatch(n, UniformDecode(batch))]
    /\ UNCHANGED <<phase, keys, captured>>

(* ulysses_forward: the rows that sequence-parallel rank r computes, of    *)
(* the rows that are there: the buffers end at MaxTokens.                  *)
Rows(n) == Min({n, MaxTokens})
SliceOf(n, r) == LET share == Rows(n) \div SP IN share * r .. share * (r + 1) - 1

NoRun == [batch |-> <<>>, model |-> "base", tokens |-> 0, graph |-> NoGraph]

Init ==
    /\ phase = "loaded"
    /\ keys = {} /\ captured = {}
    /\ run = NoRun

Next ==
    \/ InitializeKeys
    \/ Capture
    \/ \E b \in Batches : Execute(b)

Spec == Init /\ [][Next]_vars

-----------------------------------------------------------------------------

TypeOK ==
    /\ phase \in {"loaded", "keyed", "captured", "failed"}
    /\ keys \subseteq Descs
    /\ captured \subseteq [model : {"base", "shift"}, graph : Descs]
    /\ run.batch \in Batches \union {<<>>}
    /\ run.model \in {"base", "shift"}
    /\ run.tokens \in 0 .. Max({MaxTokens, LargestSize * SP})
    /\ run.graph \in Descs \union {NoGraph}

(* The docstring of _capture_cudagraphs: "splitting shapes by threshold so *)
(* both models have required graphs captured".  A batch that is dispatched *)
(* to a graph is run by a model of which that graph was captured.          *)
RequiredGraphsCaptured ==
    run.graph # NoGraph => [model |-> run.model, graph |-> run.graph] \in captured

(* The adaptive rule (on by default, model_runner.py:599-611) has put the  *)
(* last batch on the shift model, although it is above the threshold.      *)
RoutedAdaptively == run.model = "shift" /\ Total(run.batch) > Threshold

(* So it is for the batches that the threshold decides on, with the        *)
(* adaptive rule or without; those that rule decides on need not find      *)
(* their graph.                                                            *)
ThresholdGraphsCaptured == RoutedAdaptively \/ RequiredGraphsCaptured

(* The asserts of _dummy_run when a graph is captured: the dispatcher      *)
(* gives the graph that is being captured, and the dummy requests have     *)
(* together the tokens of the shape.  A full graph needs its requests to   *)
(* fit in the buffers of the attention metadata too.                       *)
CaptureAssertsHold ==
    \A c \in captured :
        LET g == c.graph
            reqs == DummyRequests(g.tokens, g.uniform, FALSE)
        IN  /\ Dispatch(g.tokens, g.uniform) = g
            /\ Total(reqs) = g.tokens
            /\ g.mode = "FULL" => Len(reqs) <= MaxSeqs

(* The slices of ulysses_forward cover every scheduled token, and the rows *)
(* the ranks compute are as many as the gathered output has.               *)
SlicesCoverBatch ==
    run.model = "base" =>
        /\ 0 .. Total(run.batch) - 1 \subseteq UNION {SliceOf(run.tokens, r) : r \in 0 .. SP - 1}
        /\ Rows(run.tokens) = SP * Cardinality(SliceOf(run.tokens, 0))

(* The comment "Ulyssses specific keys for full decode mode": a            *)
(* configuration with graphs for decode batches only gets its keys.        *)
DecodeKeysAdded == phase # "failed"

(* The help of --shift-parallel-threshold: "Ulysses sequence parallel if   *)
(* batch size > threshold, otherwise tensor parallel".                     *)
ThresholdDecides == run # NoRun => (run.model = "base" <=> Total(run.batch) > Threshold)
=============================================================================
