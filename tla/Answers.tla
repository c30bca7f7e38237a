------------------------------ MODULE Answers -------------------------------
(***************************************************************************)
(* What Dynasor does with answers: reading one off a text                  *)
(* (dynasor/cot.py, dynasor/evaluator.py: extract_answer), telling whether *)
(* two are equal (math_equal), whether a list of them agrees or which one  *)
(* wins (equal_group, dynasor/entropy.py: majority_voting), and the        *)
(* decision to stop (should_early_exit).                                   *)
(*                                                                         *)
(* A text is a sequence of tokens: the braces, \boxed, a character that    *)
(* math does not care about, and the full stop.  An answer is a record of  *)
(* its kind: what the functions tell apart.                                *)
(***************************************************************************)
EXTENDS Integers, Sequences, FiniteSets, SequencesExt, FiniteSetsExt

CONSTANTS
    TextLen,     \* bound: length of texts
    GroupLen,    \* bound: number of answers
    AnswerKinds, \* bound: kinds of the answers
    Bars         \* values of continue_certain_bar

AnswersAssumption ==
    /\ {TextLen, GroupLen} \subseteq Nat
    /\ Bars \subseteq Nat \ {0}
    /\ AnswerKinds \subseteq {"number", "letter", "option", "blank", "expression", "equation", "open", "closed"}

VARIABLES
    text,    \* a text of the model
    group,   \* the answers so far
    certain, \* is_certains: which of them came without a word of doubt
    bar      \* continue_certain_bar

vars == <<text, group, certain, bar>>

-----------------------------------------------------------------------------
(* Texts.                                                                  *)

Tokens == {"{", "}", "boxed", "x", "."}
Count(s, c, n) == Cardinality({i \in 1 .. n : s[i] = c})
Depth(s, n) == Count(s, "{", n) - Count(s, "}", n)
Balanced(s) == Depth(s, Len(s)) = 0 /\ \A n \in DOMAIN s : Depth(s, n) >= 0

(* obtain_answer: up to the first closing brace that no open one matches.  *)
ObtainAnswer(s) ==
    LET unmatched == {i \in DOMAIN s : s[i] = "}" /\ Depth(s, i - 1) = 0}
    IN  IF unmatched = {} THEN <<>> ELSE SubSeq(s, 1, Min(unmatched) - 1)

(* formalize_final_response.                                               *)
FinalResponse(generated, answer) == generated \o <<"boxed", "{">> \o answer \o <<"}">>

(* The group in braces that follows \boxed, or what is left of the text.   *)
AfterBoxed(s) ==
    IF s = <<>> \/ s[1] # "{" THEN s
    ELSE LET closed == {i \in 2 .. Len(s) : Depth(s, i) = 0}
         IN  SubSeq(s, 2, IF closed = {} THEN Len(s) ELSE Min(closed) - 1)

Cleaned(s) == IF s # <<>> /\ Last(s) = "." THEN Front(s) ELSE s

Boxes(s) == {i \in DOMAIN s : s[i] = "boxed"}

(* extract_answer and extract_boxed_answer take the last box, and          *)
(* extract_first_boxed_answer what is before the next box.  None of them   *)
(* looks for a box that is open.  strip_string is left out.                *)
ExtractBoxedAny(s) ==  \* wrong: the first box
    IF Boxes(s) = {} THEN <<>> ELSE Cleaned(AfterBoxed(SubSeq(s, Min(Boxes(s)) + 1, Len(s))))

ExtractBoxed(s) ==
    IF Boxes(s) = {} THEN <<>> ELSE Cleaned(AfterBoxed(SubSeq(s, Max(Boxes(s)) + 1, Len(s))))

ExtractFirstBoxed(s) ==
    IF Boxes(s) = {} THEN <<>>
    ELSE LET first == Min(Boxes(s))
             rest  == Boxes(s) \ {first}
         IN  Cleaned(AfterBoxed(SubSeq(s, first + 1, IF rest = {} THEN Len(s) ELSE Min(rest) - 1)))

-----------------------------------------------------------------------------
(* Answers: the number 100^n[1]; a letter of a choice; an option, a longer    *)
(* text with that letter as a word; blank; an expression whose value is a  *)
(* number; the equation k = a number; an open or closed pair of numbers.   *)

Numbers == 0 .. 2
Answer ==
    [kind : AnswerKinds \intersect {"number", "expression", "equation"}, n : {<<e>> : e \in Numbers}]
    \union [kind : AnswerKinds \intersect {"letter", "option", "blank"}, n : {<<0>>}]
    \union [kind : AnswerKinds \intersect {"open", "closed"}, n : {<<0, 1>>, <<0, 2>>}]

Interval == {"open", "closed"}

(* numeric_equal, with include_percentage.                                 *)
NumberEqual(m, n) == \A i \in DOMAIN m : m[i] - n[i] \in -1 .. 1

(* symbolic_equal: equal text or equal value.                              *)
Value(a) == IF a.kind \in {"number", "expression"} THEN {a.n} ELSE {}
SymbolicEqual(p, r) == p = r \/ (Value(p) = Value(r) /\ Value(p) # {})

(* math_equal of anything but an equation.                                 *)
PlainEqual(p, r) ==
    \/ p = r
    \/ r.kind = "letter" /\ p.kind = "option" /\ p.n = r.n
    \/ /\ p.kind = "number" /\ r.kind = "number"
       /\ NumberEqual(p.n, r.n)
    \/ /\ p.kind # "blank" /\ {p.kind, r.kind} # {"number"}
       /\ \/ /\ p.kind \in Interval /\ r.kind \in Interval
             /\ NumberEqual(p.n, r.n)
          \/ SymbolicEqual(p, r)

RightSide(a) == [kind |-> "number", n |-> a.n]

MathEqual(p, r) ==
    CASE p.kind = "equation" /\ r.kind = "equation" -> SymbolicEqual(RightSide(p), RightSide(r))
      [] p.kind = "equation" /\ r.kind # "equation" -> PlainEqual(RightSide(p), r)
      [] p.kind \notin {"equation", "blank"} /\ r.kind = "equation" -> PlainEqual(p, RightSide(r))
      [] OTHER -> PlainEqual(p, r)

-----------------------------------------------------------------------------
(* Lists of answers.  An answer joins the first class whose first member   *)
(* it equals.                                                              *)

Joins(reps, a) == {i \in DOMAIN reps : MathEqual(a, reps[i])}
EquivClasses(answers) ==
    FoldLeft(LAMBDA reps, a : IF Joins(reps, a) = {} THEN Append(reps, a) ELSE reps, <<>>, answers)

EqualGroup(answers) == Len(EquivClasses(answers)) = 1

CountNotEmpty(answers) == Cardinality({i \in DOMAIN answers : answers[i].kind # "blank"})

(* majority_voting: the last answer to join the class that was the first   *)
(* to reach the largest weight.                                            *)
Vote(state, a) ==
    LET joined == Joins(state.reps, a)
        i == IF joined = {} THEN Len(state.reps) + 1 ELSE Min(joined)
        weight == IF joined = {} THEN 1 ELSE state.weights[i] + 1
        better == weight > state.maxVote
    IN  [reps    |-> IF joined = {} THEN Append(state.reps, a) ELSE state.reps,
         weights |-> IF joined = {} THEN Append(state.weights, 1) ELSE [state.weights EXCEPT ![i] = weight],
         maxVote |-> IF better THEN weight ELSE state.maxVote,
         maxRep  |-> IF better THEN a ELSE state.maxRep]

MajorityVoting(answers) ==
    FoldLeft(Vote, [reps |-> <<>>, weights |-> <<>>, maxVote |-> 0, maxRep |-> [kind |-> "blank", n |-> <<0>>]], answers).maxRep

LastOf(s, n) == IF Len(s) <= n THEN s ELSE SubSeq(s, Len(s) - n + 1, Len(s))

(* should_early_exit, the last answer being the one with the probe's text. *)
ShouldEarlyExit(answers, certains, n) ==
    /\ Len(answers) >= n
    /\ Last(certains)
    /\ \/ /\ EqualGroup(LastOf(answers, n))
          /\ CountNotEmpty(LastOf(answers, n)) = n
          /\ LastOf(certains, n) = [i \in 1 .. n |-> TRUE]
       \/ TRUE                                              \* the final return

-----------------------------------------------------------------------------
(* Every input is an initial state; nothing happens.                       *)

Init ==
    \/ text \in SeqOf(Tokens, TextLen) /\ group = <<>> /\ certain = <<>> /\ bar \in Bars
    \/ /\ text = <<>> /\ bar \in Bars
       /\ group \in SeqOf(Answer, GroupLen) \ {<<>>}
       /\ certain \in [DOMAIN group -> BOOLEAN]

Next == UNCHANGED vars

Spec == Init /\ [][Next]_vars

-----------------------------------------------------------------------------

(* The answer read off a probe is balanced and ends at a brace that closes *)
(* the box the prompt opened; if there is no such brace there is none.     *)
ObtainedIsBoxed ==
    LET a == ObtainAnswer(text)
    IN  /\ Balanced(a)
        /\ a # <<>> => IsPrefix(Append(a, "}"), text)
        /\ a = <<>> => \A n \in 1 .. Len(text) - 1 : ~(Balanced(SubSeq(text, 1, n)) /\ text[n + 1] = "}")

(* The answer the proxy or the client writes at the end of a text is the   *)
(* answer the evaluator finds there, whatever boxes the text had before,   *)
(* if the answer has no box of its own.                                    *)
FinalAnswerIsExtracted ==
    LET a == ObtainAnswer(text)
    IN  Boxes(a) = {} => ExtractBoxed(FinalResponse(text, a)) = Cleaned(a)

(* Looking for the first box and for the last finds the same when there is *)
(* one, and the first box is found whatever follows it.                    *)
FirstBoxStays ==
    /\ Cardinality(Boxes(text)) = 1 => ExtractFirstBoxed(text) = ExtractBoxed(text)
    /\ Boxes(text) # {} => ExtractFirstBoxed(text \o <<"boxed", "x", "}">>) = ExtractFirstBoxed(text)

(* A group is equal if and only if all its answers equal its first.        *)
EqualGroupIsAllFirst ==
    EqualGroup(group) <=> group # <<>> /\ \A i \in DOMAIN group : MathEqual(group[i], group[1])

(* The winner of a vote is of a class no other outweighs; among equals, of *)
(* the one that had that many members first.                               *)
ClassOf(answers, i) ==
    LET reps == EquivClasses(answers) IN Min({j \in DOMAIN reps : MathEqual(answers[i], reps[j])})
Members(answers, c, n) == Cardinality({i \in 1 .. n : ClassOf(answers, i) = c})
MajorityWins ==
    group # <<>> =>
        \E i \in DOMAIN group :
            LET c == ClassOf(group, i)
                most == Members(group, c, i)
            IN  /\ group[i] = MajorityVoting(group)
                /\ most = Members(group, c, Len(group))
                /\ \A d \in DOMAIN EquivClasses(group) :
                      /\ Members(group, d, Len(group)) <= most
                      /\ d # c => Members(group, d, i) < most

(* The docstring of should_early_exit (entropy.py:216-218): the answers    *)
(* are consistent and certain enough; "3. The answers should be            *)
(* consistent".                                                            *)
EarlyExitIsConsistent ==
    group # <<>> /\ ShouldEarlyExit(group, certain, bar) => EqualGroup(LastOf(group, bar))

(* The docstring of equal_group (entropy.py:96-102): "Check if all answers *)
(* in a list are equivalent".                                              *)
EqualGroupIsAllPairs ==
    EqualGroup(group) => \A i, j \in DOMAIN group : MathEqual(group[i], group[j])
=============================================================================
