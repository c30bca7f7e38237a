---------------------------- MODULE DraftGraphs ----------------------------
(***************************************************************************)
(* The CUDA graphs of the draft models (vllm/spec_dec/arctic_speculator.py, *)
(* ArcticMLPSpeculator and ArcticLSTMSpeculator.generate_proposals): the   *)
(* inputs of a call go into the first rows of static buffers, a graph that *)
(* was captured for the padded batch size writes one static buffer of next *)
(* tokens per head, and the first rows of those are the answer.  Capturing *)
(* a graph records its kernels and runs none of them.                      *)
(*                                                                         *)
(* The kernels work row by row, so a row of a buffer is told by the call   *)
(* its content comes from: "now" is the current one, "none" is memory that *)
(* nobody has written.                                                     *)
(***************************************************************************)
EXTENDS Integers, FiniteSetsExt

CONSTANTS
    MaxBatch,     \* disable_by_batch_size, or max_num_seqs without it
    Batches,      \* bound: the sizes tried, which are the rows of a batch
    NPredict,     \* config.n_predict
    Lookahead     \* config.num_lookahead_tokens

DraftGraphsAssumption ==
    /\ {MaxBatch, NPredict, Lookahead} \subseteq Nat \ {0}
    /\ Lookahead <= NPredict
    /\ Batches \subseteq 1 .. MaxBatch

VARIABLES
    kind,    \* the draft model: "mlp" or "lstm"
    eager,   \* model_config.enforce_eager
    graphs,  \* cuda_graphs: padded batch size -> the heads its graph computes
    inputs,  \* the rows of last_tokens, previous_hidden_states, cell_states
    next,    \* next_tokens: next[h][r]
    call,    \* the last call: its rows, its heads, and how it was answered
    out      \* out[h][r]: what it returned

vars == <<kind, eager, graphs, inputs, next, call, out>>

-----------------------------------------------------------------------------

Power[k \in Nat] == IF k = 0 THEN 1 ELSE 2 * Power[k - 1]  \* 1 << k
BitLength(m) == Min({k \in 0 .. m : Power[k] > m})

PaddingSize(n) ==
    LET mult == Power[BitLength(n - 1)] \div 4
    IN  IF mult < 1 THEN n ELSE ((n + mult - 1) \div mult) * mult

MaxRows == PaddingSize(MaxBatch)
Rows == 1 .. MaxRows
Heads == 1 .. NPredict

Origins == {"none", "zero", "earlier", "now"}
Aged(o) == IF o = "now" THEN "earlier" ELSE o

GraphMode(size) == ~eager /\ size <= MaxRows

(* The LSTM always takes its inputs from the static buffers, the MLP only  *)
(* for a graph; assigning more rows than a buffer has raises.              *)
Prepared(size) ==
    [r \in Rows |-> IF r <= size /\ (kind = "lstm" \/ GraphMode(size)) THEN "now" ELSE Aged(inputs[r])]

(* What the kernels leave for p rows and n heads.                          *)
Written(p, n, values) ==
    [h \in Heads |-> [r \in Rows |-> IF h <= n /\ r <= p THEN values[r] ELSE Aged(next[h][r])]]

(* Before a capture the LSTM clears the tokens its graph will write.       *)
Captured(p, n) == IF kind = "lstm" THEN Written(p, n, [r \in Rows |-> "zero"])
                  ELSE Written(0, n, inputs)

(* generate_proposals by the graph of its padded batch size, captured for  *)
(* rows rows by the first call that needs it.                              *)
GenerateFor(size, n, rows) ==
    LET p == PaddingSize(size)
    IN  /\ inputs' = Prepared(size)
        /\ IF p \in DOMAIN graphs
           THEN /\ next' = Written(graphs[p].rows, graphs[p].heads, inputs')
                /\ UNCHANGED graphs
           ELSE /\ next' = Captured(p, n)
                /\ graphs' = [q \in DOMAIN graphs \union {p} |-> IF q = p THEN [heads |-> n, rows |-> rows] ELSE graphs[q]]
        /\ out' = [h \in 1 .. n |-> [r \in 1 .. size |-> next'[h][r]]]
        /\ call' = [rows |-> size, heads |-> n, by |-> IF p \in DOMAIN graphs THEN "replay" ELSE "capture"]

GenerateUnpadded(size, n) == GenerateFor(size, n, size) \* wrong: not the padding
Generate(size, n) == GenerateFor(size, n, PaddingSize(size))

(* generate_proposals without a graph: each head makes its own tensor.     *)
GenerateEager(size, n) ==
    /\ inputs' = Prepared(size)
    /\ next' = Written(0, n, inputs)
    /\ out' = [h \in 1 .. n |-> [r \in 1 .. size |-> IF kind = "lstm" THEN inputs'[r] ELSE "now"]]
    /\ call' = [rows |-> size, heads |-> n, by |-> "eager"]
    /\ UNCHANGED graphs

(* More tokens than the model has heads, or a slice shorter than the rows  *)
(* to be written to it.                                                    *)
Raises(size, n) ==
    \/ n > Lookahead
    \/ ~GraphMode(size) /\ kind = "lstm" /\ size > MaxRows
    \/ GraphMode(size) /\ PaddingSize(size) > MaxRows

Raise(size, n) ==
    /\ Raises(size, n)
    /\ call' = [rows |-> size, heads |-> n, by |-> "error"]
    /\ out' = << >>
    /\ UNCHANGED <<graphs, inputs, next>>

(* The model runner asks for one number of tokens for all rows, fewer near *)
(* the end of the longest sequence, and for no more rows than              *)
(* disable_by_batch_size.                                                  *)
GenerateProposals(size, n) ==
    \/ Raise(size, n)
    \/ ~Raises(size, n) /\ GraphMode(size) /\ Generate(size, n)
    \/ ~Raises(size, n) /\ ~GraphMode(size) /\ GenerateEager(size, n)

Init ==
    /\ kind \in {"mlp", "lstm"} /\ eager \in BOOLEAN
    /\ graphs = << >>
    /\ inputs = [r \in Rows |-> "none"]
    /\ next = [h \in Heads |-> [r \in Rows |-> "none"]]
    /\ call = [rows |-> 0, heads |-> 0, by |-> "eager"]
    /\ out = << >>

Next ==
    /\ \E size \in Batches, n \in 1 .. NPredict : GenerateProposals(size, n)
    /\ UNCHANGED <<kind, eager>>

Spec == Init /\ [][Next]_vars

-----------------------------------------------------------------------------

TypeOK ==
    /\ kind \in {"mlp", "lstm"} /\ eager \in BOOLEAN
    /\ DOMAIN graphs \subseteq Rows
    /\ \A p \in DOMAIN graphs : graphs[p] \in [heads : 1 .. Lookahead, rows : Rows]
    /\ inputs \in [Rows -> Origins]
    /\ next \in [Heads -> [Rows -> Origins]]
    /\ call \in [rows : 0 .. MaxBatch, heads : 0 .. NPredict, by : {"eager", "capture", "replay", "error"}]
    /\ call.by # "error" => out \in [1 .. call.heads -> [1 .. call.rows -> Origins]]

(* The heads of a call its graph computes: all without a graph, none while *)
(* it is only captured, and on a replay those of the call that captured    *)
(* it, which may be fewer than now.                                        *)
Computed ==
    IF call.by = "eager" THEN call.heads
    ELSE IF call.by = "replay" THEN graphs[PaddingSize(call.rows)].heads ELSE 0

(* Whatever the calls before it, of other batch sizes that pad to the same *)
(* size included, a call returns for each of its rows the tokens of that   *)
(* row, from every head computed for it.  This says nothing of a call that *)
(* captures its graph, which computes none, nor of the heads asked for     *)
(* beyond those of the graph that is replayed: their tokens are not of the *)
(* call (EveryHeadIsRun).                                                  *)
ComputedDraftsAreTheirs ==
    \A h \in DOMAIN out : h <= Computed => \A r \in DOMAIN out[h] : out[h][r] = "now"

(* The call that captures a graph returns zeros from the LSTM, for every   *)
(* row and head, and not memory nobody has written, which need not be a    *)
(* token at all.  The MLP's call returns what its buffers held.            *)
LstmCapturesAreZero ==
    kind = "lstm" /\ call.by = "capture" =>
        \A h \in DOMAIN out : \A r \in DOMAIN out[h] : out[h][r] = "zero"

(* docs/arctic-speculator.rst:68: "Captures the full speculation loop into *)
(* a single CUDA graph".  So a call answered by a replay has tokens of its *)
(* own from every head it asked for.                                       *)
EveryHeadIsRun ==
    call.by = "replay" =>
        \A h \in DOMAIN out : \A r \in DOMAIN out[h] : out[h][r] = "now"

(* No batch the model runner drafts for overruns a static buffer, padded   *)
(* or not: the only error is a request for more tokens than there are      *)
(* heads.                                                                  *)
BuffersHoldTheBatch == call.by = "error" => call.heads > Lookahead

(* arctic_speculator.py:44: padding_size will "Round up a size to the      *)
(* nearest multiple of 4."                                                 *)
PaddedToMultipleOf4 == \A p \in DOMAIN graphs : p % 4 = 0
=============================================================================
