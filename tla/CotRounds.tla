------------------------------ MODULE CotRounds -----------------------------
(***************************************************************************)
(* openai_chat_completion_stream of dynasor/cot.py: a reasoning text made  *)
(* in rounds of chunk_size tokens.  At the start of a round a probe is     *)
(* sent with the prompt as it is; its answer is read after the round's own *)
(* tokens; the loop ends when the last threshold answers agree.  Without   *)
(* dynasor_saving_effort the text is passed on word by word.               *)
(***************************************************************************)
EXTENDS Integers, Sequences, FiniteSets, SequencesExt

CONSTANTS
    MaxTokens,  \* max_tokens
    ChunkSize,  \* chunk_size
    Threshold,  \* threshold
    Answers,    \* answers a probe can give
    NoAnswer    \* the empty answer

CotRoundsAssumption ==
    /\ {MaxTokens, ChunkSize, Threshold} \subseteq Nat \ {0}
    /\ NoAnswer \notin Answers

VARIABLES
    saving,    \* whether dynasor_saving_effort was given
    pc,        \* where the generator is
    iter,      \* iter_id
    prompt,    \* tokens of current_prompt after the prompt itself
    yielded,   \* tokens yielded so far
    buffer,    \* tokens in the buffer of the plain loop
    probe,     \* what prompt held when the open probe was sent, -1 for none
    answers,   \* probe_answers with probe_responses: what each was asked of
    ending     \* tokens of the round's text, and why it stopped

vars == <<saving, pc, iter, prompt, yielded, buffer, probe, answers, ending>>

LastOf(s) == IF Len(s) <= Threshold THEN s ELSE SubSeq(s, Len(s) - Threshold + 1, Len(s))

(* range(0, max_tokens, chunk_size)                                        *)
NextRound(i) == pc' = IF i < MaxTokens THEN "probe" ELSE "done"

SendProbe ==
    /\ pc = "probe"
    /\ probe' = prompt
    /\ pc' = "generate"
    /\ UNCHANGED <<saving, iter, prompt, yielded, buffer, answers, ending>>

(* The tokens of a round: fewer than chunk_size only if the model stops by *)
(* itself, or gives nothing.                                               *)
Rounds ==
    {[len |-> ChunkSize, finish |-> "length"], [len |-> 0, finish |-> "length"]}
    \union [len : 0 .. ChunkSize, finish : {"stop"}]

Generate(round) ==
    /\ pc = "generate"
    /\ yielded' = yielded + round.len
    /\ prompt' = prompt + round.len
    /\ ending' = round
    /\ pc' = IF round.finish = "stop" \/ round.len = 0 THEN "done" ELSE "read"
    /\ UNCHANGED <<saving, iter, buffer, probe, answers>>

AgreedOnceFull(s) ==  \* wrong: answers that are blank count
    LET last == LastOf(s)
    IN  /\ Len(last) = Threshold
        /\ \A i \in DOMAIN last : last[i].answer = last[1].answer /\ last[i].certain
Agreed(s) ==
    LET last == LastOf(s)
    IN  /\ \A i \in DOMAIN last : last[i].answer = last[1].answer
        /\ Cardinality({i \in DOMAIN last : last[i].answer # NoAnswer}) = Threshold
        /\ Cardinality({i \in DOMAIN last : last[i].certain}) = Threshold

ReadProbe(answer, certain) ==
    /\ pc = "read"
    /\ answers' = Append(answers, [of |-> probe, answer |-> answer, certain |-> certain])
    /\ probe' = -1
    /\ iter' = iter + ChunkSize
    /\ IF Agreed(answers')
       THEN pc' = "final"
       ELSE NextRound(iter + ChunkSize)
    /\ UNCHANGED <<saving, prompt, yielded, buffer, ending>>

(* The plain loop: the buffer goes out at a space, and at the end.         *)
PlainChunk(n, space) ==
    /\ pc = "plain" /\ prompt + n <= MaxTokens
    /\ prompt' = prompt + n
    /\ IF space
       THEN yielded' = yielded + buffer + n /\ buffer' = 0
       ELSE buffer' = buffer + n /\ UNCHANGED yielded
    /\ UNCHANGED <<saving, pc, iter, probe, answers, ending>>

PlainEnd ==
    /\ pc = "plain" /\ pc' = "done"
    /\ yielded' = yielded + buffer /\ buffer' = 0
    /\ UNCHANGED <<saving, iter, prompt, probe, answers, ending>>

Init ==
    /\ saving \in BOOLEAN
    /\ pc = IF saving THEN "probe" ELSE "plain"
    /\ iter = 0 /\ prompt = 0 /\ yielded = 0 /\ buffer = 0
    /\ probe = -1
    /\ answers = <<>>
    /\ ending = [len |-> 0, finish |-> "length"]

Next ==
    \/ SendProbe
    \/ \E round \in Rounds : Generate(round)
    \/ \E a \in Answers \union {NoAnswer}, certain \in BOOLEAN : ReadProbe(a, certain)
    \/ \E n \in 1 .. ChunkSize, space \in BOOLEAN : PlainChunk(n, space)
    \/ PlainEnd

Spec == Init /\ [][Next]_vars

-----------------------------------------------------------------------------

(* Rounds are whole, so that the text may go past max_tokens, but by less  *)
(* than a round.                                                           *)
OverrunBelowOneRound == yielded < MaxTokens + ChunkSize

(* When the generator is through, or between two rounds, everything the    *)
(* model gave was yielded, and is in the prompt of what comes next.        *)
NothingHeldBack == pc \in {"probe", "final", "done"} => yielded = prompt

(* Each answer is that of the text one round before the one it was read    *)
(* in, so the answers used are of different and growing texts; the final   *)
(* answer is the last of threshold equal answers, none blank or in doubt.  *)
FinalIsAgreed ==
    /\ \A i \in DOMAIN answers : answers[i].of = (i - 1) * ChunkSize
    /\ pc = "final" =>
          /\ prompt = Len(answers) * ChunkSize
          /\ Len(answers) >= Threshold
          /\ \E a \in Answers : \A i \in Len(answers) - Threshold + 1 .. Len(answers) :
                answers[i].answer = a /\ answers[i].certain
=============================================================================
