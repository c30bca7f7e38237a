---------------------------- MODULE DynasorProxy ----------------------------
(***************************************************************************)
(* One streaming request of the Dynasor proxy                              *)
(* (dynasor/openai_server.py: handle_chat_completion_request and           *)
(* execute_single_probe).  The proxy passes the chunks of the model on to  *)
(* the client and, every probe_interval chunks, starts a task that asks    *)
(* the model for its answer so far.  When the last certainty_window        *)
(* answers agree it ends the stream itself.                                *)
(*                                                                         *)
(* The example client projects/dynasor/naive_client.py probes in the same  *)
(* way, beside its own request, and only collects the answers.             *)
(*                                                                         *)
(* The generator runs without interruption from one yield to the next, so  *)
(* the handling of a chunk is one action; probes, the upstream model and   *)
(* the client act between any two chunks.                                  *)
(***************************************************************************)
EXTENDS Integers, Sequences, FiniteSets, SequencesExt

CONSTANTS
    Program,   \* the proxy for "chat" or "completions", or the "naive" client
    Intervals, \* values of dynasor.probe_interval
    Windows,   \* values of dynasor.certainty_window
    Answers,   \* answers a probe can find
    NoAnswer,  \* the empty answer
    ChunkKinds, \* kinds of chunks the model sends, see below
    MaxChunks  \* bound: chunks the model sends

ASSUME DynasorProxyAssumption ==
    /\ Program \in {"chat", "completions", "naive"}
    /\ Intervals \subseteq Nat /\ Windows \subseteq Nat
    /\ ChunkKinds \subseteq {"text", "mute", "length", "stop", "usage"}
    /\ MaxChunks \in Nat /\ NoAnswer \notin Answers /\ Answers # {}

(* A chunk: text is content; mute has none (only a role, or reasoning);    *)
(* length and stop carry that finish_reason; usage has no choices.         *)

VARIABLES
    interval,   \* probe_interval
    window,     \* certainty_window
    status,     \* the generator: streaming, ended, failed (it raised) or gone
    chunks,     \* history: kinds of the chunks of the model, in order
    sent,       \* what the client got
    processed,  \* chunks_processed, and so the length of generated_text
    wanted,     \* should_launch_next_probe
    inProgress, \* probe_in_progress_event
    task,       \* probe_task: an index of probes, or 0 for None
    probes,     \* every execute_single_probe: its text, how it went, its answer
    answered    \* probe_answers and probe_responses, as indices of probes

vars == <<interval, window, status, chunks, sent, processed, wanted, inProgress, task, probes, answered>>

(* What the client gets besides the chunks, which count from 1: the        *)
(* answer, a chunk that finishes, the end marker data: [DONE].             *)
Final == 0
Finish == -1
Done == -2

-----------------------------------------------------------------------------
(* The exit condition, on the indices of the probes answered so far.  A    *)
(* slice [-0:] is the whole list.                                          *)
LastAnswers(s) == IF window = 0 \/ Len(s) <= window THEN s ELSE SubSeq(s, Len(s) - window + 1, Len(s))

AdaptiveEnd(s) ==
    LET last == LastAnswers(s)
    IN  /\ Cardinality({probes[last[i]].answer : i \in DOMAIN last}) = 1
        /\ Cardinality({i \in DOMAIN last : probes[last[i]].answer # NoAnswer}) = window
        /\ Cardinality({i \in DOMAIN last : probes[last[i]].certain}) = window

-----------------------------------------------------------------------------
(* The handling of one chunk after it is passed on, in the order of the    *)
(* code; every step may be the last.                                       *)

Fail == status' = "failed" /\ UNCHANGED <<processed, wanted, inProgress, task, probes, answered>>

EndStream(tail) ==
    /\ status' = "ended"
    /\ sent' = sent \o tail \o <<Done>>

TaskDone == task # 0 /\ probes[task].state # "running"
Launched(n) == Append(probes, [of |-> n, state |-> "running", answer |-> NoAnswer, certain |-> FALSE])

(* The end of the iteration: pending is probe_task by then.                *)
LaunchIfWantedAlways(pending, want, n) ==  \* wrong: does not look at the event
    IF want
    THEN wanted' = FALSE /\ inProgress' = TRUE /\ probes' = Launched(n) /\ task' = Len(probes) + 1
    ELSE wanted' = want /\ task' = pending /\ UNCHANGED <<inProgress, probes>>

LaunchIfWanted(pending, want, n) ==
    IF want /\ ~inProgress
    THEN wanted' = FALSE /\ inProgress' = TRUE /\ probes' = Launched(n) /\ task' = Len(probes) + 1
    ELSE wanted' = want /\ task' = pending /\ UNCHANGED <<inProgress, probes>>

AfterProbe(chunk, want, n) ==
    LET collected == IF TaskDone THEN Append(answered, task) ELSE answered
    IN  /\ answered' = collected
        /\ IF TaskDone /\ AdaptiveEnd(collected)
           THEN /\ EndStream(<<chunk, Final, Finish>>)
                /\ task' = 0 /\ wanted' = FALSE /\ UNCHANGED <<inProgress, probes>>
           ELSE /\ LaunchIfWanted(IF TaskDone THEN 0 ELSE task, want, n)
                /\ sent' = Append(sent, chunk) /\ UNCHANGED status

Handle(kind) ==
    LET n    == IF kind \in {"text", "length"} THEN processed + 1 ELSE processed
        want == wanted \/ (n > 0 /\ n % interval = 0)
        chunk == Len(chunks) + 1
    IN  IF kind = "stop"
        THEN EndStream(<<chunk>>) /\ UNCHANGED <<processed, wanted, inProgress, task, probes, answered>>
        ELSE IF \/ kind = "usage"                              \* choices[0] of no choices
                \/ Program = "completions"                     \* a completion has no delta
                \/ n > 0 /\ interval = 0                       \* modulo zero
                \/ TaskDone /\ probes[task].state = "failed"   \* result() raises
        THEN Fail /\ sent' = Append(sent, chunk)
        ELSE processed' = n /\ AfterProbe(chunk, want, n)

(* The loop of the naive client; a probe of its own never raises.          *)
HandleNaive(kind) ==
    LET n    == IF kind \in {"text", "length"} THEN processed + 1 ELSE processed
        want == wanted \/ (n > 0 /\ n % interval = 0)
    IN  /\ processed' = n
        /\ answered' = IF TaskDone THEN Append(answered, task) ELSE answered
        /\ LaunchIfWanted(IF TaskDone THEN 0 ELSE task, want, n)
        /\ sent' = Append(sent, Len(chunks) + 1) /\ UNCHANGED status

Chunk(kind) ==
    /\ status = "streaming" /\ Len(chunks) < MaxChunks
    /\ chunks' = Append(chunks, kind)
    /\ IF Program = "naive" THEN HandleNaive(kind) ELSE Handle(kind)
    /\ UNCHANGED <<interval, window>>

(* The model has no more to send (or has stopped at max_tokens).           *)
StreamOver ==
    /\ status = "streaming"
    /\ EndStream(<<>>)
    /\ UNCHANGED <<interval, window, chunks, processed, wanted, inProgress, task, probes, answered>>

StreamBreaks ==
    /\ status = "streaming"
    /\ Fail
    /\ UNCHANGED <<interval, window, chunks, sent>>

(* The client closes the connection; a probe that is running runs on.      *)
Disconnect ==
    /\ status = "streaming" /\ Program # "naive"
    /\ status' = "gone"
    /\ UNCHANGED <<interval, window, chunks, sent, processed, wanted, inProgress, task, probes, answered>>

(* The task of a probe ends: the event is cleared whatever happened.       *)
ProbeEnds(p, outcome) ==
    /\ probes[p].state = "running"
    /\ probes' = [probes EXCEPT ![p] = [@ EXCEPT !.state = outcome.state, !.answer = outcome.answer,
                                                 !.certain = outcome.certain]]
    /\ inProgress' = FALSE
    /\ UNCHANGED <<interval, window, status, chunks, sent, processed, wanted, task, answered>>

NaiveOutcomes == [state : {"done"}, answer : Answers \union {NoAnswer}, certain : BOOLEAN]
Outcomes == IF Program = "naive" THEN NaiveOutcomes
            ELSE [state : {"done"}, answer : Answers \union {NoAnswer}, certain : BOOLEAN]
                 \union [state : {"failed"}, answer : {NoAnswer}, certain : {FALSE}]

Init ==
    /\ interval \in Intervals /\ window \in Windows
    /\ status = "streaming"
    /\ chunks = <<>> /\ sent = <<>>
    /\ processed = 0 /\ wanted = FALSE
    /\ inProgress = FALSE /\ task = 0
    /\ probes = <<>> /\ answered = <<>>

Next ==
    \/ \E kind \in ChunkKinds : Chunk(kind)
    \/ StreamOver
    \/ StreamBreaks
    \/ Disconnect
    \/ \E p \in DOMAIN probes, outcome \in Outcomes : ProbeEnds(p, outcome)

Spec == Init /\ [][Next]_vars

-----------------------------------------------------------------------------

TypeOK ==
    /\ interval \in Intervals /\ window \in Windows
    /\ status \in {"streaming", "ended", "failed", "gone"}
    /\ chunks \in Seq(ChunkKinds)
    /\ sent \in Seq((1 .. MaxChunks) \union {Final, Finish, Done})
    /\ processed \in 0 .. Len(chunks)
    /\ {wanted, inProgress} \subseteq BOOLEAN
    /\ task \in 0 .. Len(probes)
    /\ probes \in Seq([of : 1 .. MaxChunks, state : {"running", "done", "failed"},
                       answer : Answers \union {NoAnswer}, certain : BOOLEAN])
    /\ answered \in Seq(DOMAIN probes)

(* At most one probe runs at a time, the event says whether one does, and  *)
(* no answer is lost, taken twice or taken out of order: what was          *)
(* collected is the answers of all probes but the pending one.             *)
AnswersInOrder ==
    /\ Cardinality({p \in DOMAIN probes : probes[p].state = "running"}) = IF inProgress THEN 1 ELSE 0
    /\ \A i \in DOMAIN answered : answered[i] = i
    /\ status = "streaming" => Len(answered) = Len(probes) - IF task = 0 THEN 0 ELSE 1

(* The proxy ends a stream by itself only when the last certainty_window   *)
(* probes, each of a text at least as long as the one before, gave one and *)
(* the same answer, none of them with a word of doubt.                     *)
EarlyEndIsCertain ==
    Contains(sent, Final) =>
        /\ Len(answered) >= window
        /\ \E a \in Answers : \A i \in Len(answered) - window + 1 .. Len(answered) :
              probes[i].answer = a /\ probes[i].certain
        /\ \A i \in 2 .. Len(answered) : probes[i - 1].of <= probes[i].of

(* The client gets every chunk the model sent, once and in order; after    *)
(* them nothing, or the answer and a chunk that finishes; and [DONE] is    *)
(* the last thing it gets of a stream that ended.                          *)
SentIsStream ==
    LET passed == [i \in 1 .. Len(chunks) |-> i]
        done   == IF status = "ended" THEN <<Done>> ELSE <<>>
    IN  sent \in {passed \o done, passed \o <<Final, Finish>> \o done}

(* A probe task beside the stream, in any interleaving: at most one runs,  *)
(* its answer is taken once and in order; the stream ends early only on    *)
(* answers that agree and are certain; and the client gets every chunk     *)
(* once, in order, and [DONE] last.                                        *)
ProbesKeepTheStream == TypeOK /\ AnswersInOrder /\ EarlyEndIsCertain /\ SentIsStream

(* The docstring (openai_server.py:195-196): "Keep the states of the       *)
(* probed results, and stream back the decoding results to the user." A    *)
(* well-formed stream of the model is passed on to its end: the generator  *)
(* raises in the middle of it only if the model did.                       *)
DecodingStreamedBack ==
    [][status' = "failed" => chunks' = chunks]_vars
=============================================================================
