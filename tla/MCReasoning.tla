---------------------------- MODULE MCReasoning -----------------------------
(***************************************************************************)
(* Dynasor, for TLC: small instances of the proxy, of the client that      *)
(* probes by itself, of the chain of thought in rounds and of the answers  *)
(* they compare.  A behaviour picks one of them and runs it by its own     *)
(* specification; they share no state.                                     *)
(***************************************************************************)
EXTENDS DynasorProxy, TLC

CONSTANTS
  Idle,
  ansA, ansB,
  \* CotRounds
  MaxTokens, ChunkSize, Threshold

VARIABLES
  part,  \* the component that runs
  \* CotRounds
  saving, pc, iter, prompt, yielded, buffer, probe, answers, ending,
  \* Answers
  text, group, certain, bar

roundsVars == <<saving, pc, iter, prompt, yielded, buffer, probe, answers,
                ending>>
answersVars == <<text, group, certain, bar>>
MCvars == <<part, vars, roundsVars, answersVars>>

MCAnswers == {ansA, ansB}

Naive == INSTANCE DynasorProxy WITH
  Program <- "naive", Intervals <- {1}, Windows <- {1},
  ChunkKinds <- {"text", "mute", "stop"}
Rounds == INSTANCE CotRounds
Texts == INSTANCE Answers WITH
  TextLen <- 6, GroupLen <- 3, AnswerKinds <- {"number", "letter", "option",
  "blank", "expression", "equation", "open", "closed"}, Bars <- {2}

ASSUME NaiveAssumption == Naive!DynasorProxyAssumption
ASSUME RoundsAssumption == Rounds!CotRoundsAssumption
ASSUME TextsAssumption == Texts!AnswersAssumption

(* Every component starts as its own specification says when it is the one *)
(* that runs, and rests otherwise.                                         *)
MCInit ==
  /\ part \in {"chat", "naive", "rounds", "answers"}
  /\ Init /\ (part # "chat" => interval = 1 /\ window = 1)
  /\ IF part = "rounds" THEN Rounds!Init
     ELSE /\ saving = Idle /\ pc = Idle /\ iter = Idle /\ prompt = Idle
          /\ yielded = Idle /\ buffer = Idle /\ probe = Idle
          /\ answers = Idle /\ ending = Idle
  /\ IF part = "answers" THEN Texts!Init
     ELSE text = Idle /\ group = Idle /\ certain = Idle /\ bar = Idle

Rest ==
  /\ UNCHANGED part
  /\ part \notin {"chat", "naive"} => UNCHANGED vars
  /\ part # "rounds" => UNCHANGED roundsVars
  /\ part # "answers" => UNCHANGED answersVars

MCNext ==
  \/ part = "chat" /\ Next /\ Rest
  \/ part = "naive" /\ Naive!Next /\ Rest
  \/ part = "rounds" /\ Rounds!Next /\ Rest
  \/ part = "answers" /\ Texts!Next /\ Rest

MCSpec == MCInit /\ [][MCNext]_MCvars

-----------------------------------------------------------------------------

Symmetry == Permutations({ansA, ansB})

(* openai_chat_completion_stream overruns max_tokens by less than a round, *)
(* yields everything the model gave, and closes with an answer only when   *)
(* threshold answers, each of a longer text, agree without doubt.          *)
RoundsAgree ==
  part = "rounds" => Rounds!OverrunBelowOneRound /\ Rounds!NothingHeldBack /\ Rounds!FinalIsAgreed

(* The answer written at the end of a text is the one the evaluator reads  *)
(* there, boxes and braces before it notwithstanding (the texts are without *)
(* "final answer is $", which it would look for first); a group is equal   *)
(* when all its answers equal the first, and the vote picks the largest    *)
(* class.                                                                  *)
AnswersAreRead ==
  part = "answers" =>
    /\ Texts!ObtainedIsBoxed /\ Texts!FinalAnswerIsExtracted /\ Texts!FirstBoxStays
    /\ Texts!EqualGroupIsAllFirst /\ Texts!MajorityWins
=============================================================================
