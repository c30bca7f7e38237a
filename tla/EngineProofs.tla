---------------------------- MODULE EngineProofs ----------------------------
(***************************************************************************)
(* Proofs about parts of the engine, for any value of their constants, and *)
(* for the behaviours of MCEngine they make up: the modes of shift         *)
(* parallelism, the patches of the plugin, the dispatch of a batch to a    *)
(* captured graph and the start of the workers.                            *)
(***************************************************************************)
EXTENDS MCEngine, SequenceTheorems, FiniteSetTheorems, WellFoundedInduction, NaturalsInduction, TLAPS

-----------------------------------------------------------------------------
(* ShiftParallel.  Its properties are about what is open and what is left  *)
(* to do at the same time, so the inductive invariant lists, for each way  *)
(* scopes may be nested, what they restore and the steps that may be left. *)

(* The steps of an operation, one at a time. *)
Then(step, rest) == <<step>> \o rest

ExecRest  == Then(EnterMode(FALSE), Then(Compute("base"), Then(Leave, <<>>)))
LoadRest  == Then(EnterMode(TRUE), Then(Compute("shift"), Then(Leave, <<>>)))
InSwapped == Then(EnterMode(TRUE), Then(Forward(None), Then(Leave, Then(Leave, <<>>))))
ShiftRest == Then(SwapModel, InSwapped)

(* What may be left when every scope is closed and a computation is over. *)
After == {<<>>, ExecRest} \union (IF hasShift THEN {LoadRest, ShiftRest} ELSE {})

(* What the scopes restore. *)
OfDefault == [kind |-> "mode", mode |-> None, tp |-> "TP"]
OfBase    == [kind |-> "mode", mode |-> FALSE, tp |-> "TP"]
OfSwap    == [kind |-> "swap", model |-> "base"]

(* The operation under way has step s to take, and then the steps rest. *)
Left(todo, s, rest) == todo # <<>> /\ Head(todo) = s /\ Tail(todo) = rest

AtTop ==
    /\ scopes = <<>> /\ mode = None /\ model = "base"
    /\ \/ steps = <<>>
       \/ \E x \in After :
            \/ Left(steps, Compute("base"), x)
            \/ Left(steps, Forward(None), x)
            \/ Left(steps, EnterMode(FALSE), Then(Compute("base"), Then(Leave, x)))
       \/ Left(steps, EnterMode(FALSE), Then(Forward("base"), Then(Leave, ExecRest)))
       \/ hasShift /\ Left(steps, EnterMode(TRUE), Then(Forward("shift"), Then(Leave, ExecRest)))
       \/ hasShift /\ Left(steps, EnterMode(TRUE), Then(Compute("shift"), Then(Leave, <<>>)))
       \/ hasShift /\ Left(steps, SwapModel, InSwapped)

InBaseMode ==
    /\ scopes = <<OfDefault>> /\ mode = FALSE /\ model = "base"
    /\ \/ \E x \in After : \/ Left(steps, Compute("base"), Then(Leave, x))
                          \/ Left(steps, Leave, x)
       \/ Left(steps, Forward("base"), Then(Leave, ExecRest))
       \/ Left(steps, EnterMode(FALSE),
                 Then(Compute("base"), Then(Leave, Then(Leave, ExecRest))))

InShiftMode ==
    /\ scopes = <<OfDefault>> /\ mode = TRUE /\ model = "base" /\ hasShift
    /\ \/ \E x \in After : \/ Left(steps, Compute("shift"), Then(Leave, x))
                          \/ Left(steps, Leave, x)
       \/ Left(steps, Forward("shift"), Then(Leave, ExecRest))

InBaseForward ==
    /\ scopes = <<OfDefault, OfBase>> /\ mode = FALSE /\ model = "base"
    /\ \E x \in {<<>>, ExecRest} :
         \/ Left(steps, Compute("base"), Then(Leave, Then(Leave, x)))
         \/ Left(steps, Leave, Then(Leave, x))

InSwap ==
    /\ scopes = <<OfSwap>> /\ mode = None /\ model = "shift" /\ hasShift
    /\ \/ Left(steps, EnterMode(TRUE), Then(Forward(None), Then(Leave, Then(Leave, <<>>))))
       \/ Left(steps, Leave, <<>>)

InShiftForward ==
    /\ scopes = <<OfSwap, OfDefault>> /\ mode = TRUE /\ model = "shift" /\ hasShift
    /\ \/ Left(steps, Forward(None), Then(Leave, Then(Leave, <<>>)))
       \/ Left(steps, Compute("shift"), Then(Leave, Then(Leave, <<>>)))
       \/ Left(steps, Leave, Then(Leave, <<>>))

Nested == AtTop \/ InBaseMode \/ InShiftMode \/ InBaseForward \/ InSwap \/ InShiftForward

CacheBound ==
    stage \in {"cached", "captured", "ready"} =>
        /\ cache["base"] = [l \in Layers |-> "base"]
        /\ hasShift => cache["shift"] = [l \in Layers |-> "base"]

ModesInv == TypeOK /\ GroupMatchesMode /\ ModelsSeeTheirGroup /\ Nested /\ CacheBound

-----------------------------------------------------------------------------
(***************************************************************************)
(* The sequences of steps, taken apart.                                    *)
(***************************************************************************)
LEMMA StepTypes ==
    /\ EnterMode(TRUE) \in Steps /\ EnterMode(FALSE) \in Steps
    /\ Compute("base") \in Steps /\ Compute("shift") \in Steps
    /\ Forward("base") \in Steps /\ Forward("shift") \in Steps /\ Forward(None) \in Steps
    /\ SwapModel \in Steps /\ Leave \in Steps
  BY DEF Steps, Modes, Models

LEMMA ThenIs ==
    ASSUME NEW a \in Steps, NEW s \in Seq(Steps)
    PROVE  /\ Then(a, s) \in Seq(Steps) /\ Then(a, s) # <<>>
           /\ Head(Then(a, s)) = a /\ Tail(Then(a, s)) = s
  BY DEF Then

LEMMA TakenApart ==
    ASSUME NEW s \in Seq(Steps), s # <<>>
    PROVE  s = Then(Head(s), Tail(s))
<1> DEFINE t == Then(Head(s), Tail(s))
<1>1. /\ Head(s) \in Steps /\ Tail(s) \in Seq(Steps) /\ Len(Tail(s)) = Len(s) - 1
      /\ \A i \in 1 .. Len(Tail(s)) : Tail(s)[i] = s[i + 1]
  BY HeadTailProperties
<1>2. /\ <<Head(s)>> \in Seq(Steps) /\ Len(<<Head(s)>>) = 1 /\ <<Head(s)>>[1] = Head(s)
      /\ Head(s) = s[1] /\ Len(s) \in Nat
  BY <1>1, LenProperties
<1>3. /\ t \in Seq(Steps) /\ Len(t) = Len(s)
      /\ \A i \in 1 .. Len(s) : t[i] = IF i <= 1 THEN <<Head(s)>>[i] ELSE Tail(s)[i - 1]
  <2>1. /\ t \in Seq(Steps) /\ Len(t) = 1 + Len(Tail(s))
        /\ \A i \in 1 .. 1 + Len(Tail(s)) :
             t[i] = IF i <= 1 THEN <<Head(s)>>[i] ELSE Tail(s)[i - 1]
    BY <1>1, <1>2, ConcatProperties DEF Then
  <2> HIDE DEF t
  <2> QED
    BY <1>1, <1>2, <2>1
<1>4. \A i \in 1 .. Len(s) : s[i] = t[i]
  <2> SUFFICES ASSUME NEW i \in 1 .. Len(s) PROVE s[i] = t[i]
    OBVIOUS
  <2> HIDE DEF t
  <2>1. CASE i = 1
    BY <1>2, <1>3, <2>1
  <2>2. CASE i # 1
    <3>1. i - 1 \in 1 .. Len(Tail(s)) /\ (i - 1) + 1 = i
      BY <1>1, <1>2, <2>2
    <3>2. Tail(s)[i - 1] = s[i]
      BY <1>1, <3>1
    <3> QED
      BY <1>2, <1>3, <2>2, <3>2
  <2> QED
    BY <2>1, <2>2
<1> QED
  BY <1>3, <1>4, SeqEqual

LEMMA ThenConcat ==
    ASSUME NEW a \in Steps, NEW s \in Seq(Steps), NEW t \in Seq(Steps)
    PROVE  Then(a, s) \o t = Then(a, s \o t)
  BY ConcatAssociative DEF Then

LEMMA One ==
    ASSUME NEW a \in Steps PROVE <<a>> = Then(a, <<>>)
<1>1. <<a>> \in Seq(Steps) /\ <<a>> # <<>> /\ Head(<<a>>) = a /\ Tail(<<a>>) = <<>>
  OBVIOUS
<1> QED
  BY <1>1, TakenApart

LEMMA Two ==
    ASSUME NEW a \in Steps, NEW b \in Steps PROVE <<a, b>> = Then(a, Then(b, <<>>))
<1>1. <<a, b>> \in Seq(Steps) /\ <<a, b>> # <<>>
      /\ Head(<<a, b>>) = a /\ Tail(<<a, b>>) = <<b>>
  OBVIOUS
<1> QED
  BY <1>1, TakenApart, One

LEMMA Three ==
    ASSUME NEW a \in Steps, NEW b \in Steps, NEW c \in Steps
    PROVE  <<a, b, c>> = Then(a, Then(b, Then(c, <<>>)))
<1>1. <<a, b, c>> \in Seq(Steps) /\ <<a, b, c>> # <<>>
      /\ Head(<<a, b, c>>) = a /\ Tail(<<a, b, c>>) = <<b, c>>
  OBVIOUS
<1> QED
  BY <1>1, TakenApart, Two

LEMMA Five ==
    ASSUME NEW a \in Steps, NEW b \in Steps, NEW c \in Steps, NEW d \in Steps, NEW e \in Steps
    PROVE  <<a, b, c, d, e>> = Then(a, Then(b, Then(c, Then(d, Then(e, <<>>)))))
<1>1. <<a, b, c, d, e>> \in Seq(Steps) /\ <<a, b, c, d, e>> # <<>>
      /\ Head(<<a, b, c, d, e>>) = a /\ Tail(<<a, b, c, d, e>>) = <<b, c, d, e>>
  OBVIOUS
<1>2. <<b, c, d, e>> \in Seq(Steps) /\ <<b, c, d, e>> # <<>>
      /\ Head(<<b, c, d, e>>) = b /\ Tail(<<b, c, d, e>>) = <<c, d, e>>
  OBVIOUS
<1> QED
  BY <1>1, <1>2, TakenApart, Three

LEMMA Six ==
    ASSUME NEW a \in Steps, NEW b \in Steps, NEW c \in Steps, NEW d \in Steps, NEW e \in Steps,
           NEW f \in Steps
    PROVE  <<a, b, c, d, e, f>> = Then(a, Then(b, Then(c, Then(d, Then(e, Then(f, <<>>))))))
<1>1. <<a, b, c, d, e, f>> \in Seq(Steps) /\ <<a, b, c, d, e, f>> # <<>>
      /\ Head(<<a, b, c, d, e, f>>) = a /\ Tail(<<a, b, c, d, e, f>>) = <<b, c, d, e, f>>
  OBVIOUS
<1>2. <<b, c, d, e, f>> = Then(b, Then(c, Then(d, Then(e, Then(f, <<>>)))))
  BY Five
<1> QED
  BY <1>1, <1>2, TakenApart

LEMMA Last ==
    ASSUME NEW a \in Steps
    PROVE  /\ Then(a, <<>>) \in Seq(Steps) /\ Then(a, <<>>) # <<>>
           /\ Head(Then(a, <<>>)) = a /\ Tail(Then(a, <<>>)) = <<>>
           /\ \A t \in Seq(Steps) : Then(a, <<>>) \o t = Then(a, t)
<1>1. <<>> \in Seq(Steps) /\ \A t \in Seq(Steps) : <<>> \o t = t
  BY ConcatEmptySeq
<1> DEFINE e == <<>>
<1>2. e \in Seq(Steps) /\ \A t \in Seq(Steps) : e \o t = t
  BY <1>1
<1> HIDE DEF e
<1>3. /\ Then(a, e) \in Seq(Steps) /\ Then(a, e) # <<>>
      /\ Head(Then(a, e)) = a /\ Tail(Then(a, e)) = e
  BY <1>2, ThenIs
<1>4. ASSUME NEW t \in Seq(Steps) PROVE Then(a, e) \o t = Then(a, t)
  <2>1. Then(a, e) \o t = Then(a, e \o t)
    BY <1>2, ThenConcat
  <2>2. e \o t = t
    BY <1>2
  <2> QED
    BY <2>1, <2>2
<1> QED
  BY <1>3, <1>4 DEF e

LEMMA RestTypes ==
    /\ ExecRest \in Seq(Steps) /\ LoadRest \in Seq(Steps)
    /\ InSwapped \in Seq(Steps) /\ ShiftRest \in Seq(Steps) /\ <<>> \in Seq(Steps)
    /\ \A x \in After : x \in Seq(Steps)
<1> USE StepTypes, ThenIs, Last
<1>1. <<>> \in Seq(Steps)
  OBVIOUS
<1>2. Then(Leave, <<>>) \in Seq(Steps)
  OBVIOUS
<1>3. /\ Then(Compute("base"), Then(Leave, <<>>)) \in Seq(Steps)
      /\ Then(Compute("shift"), Then(Leave, <<>>)) \in Seq(Steps)
  BY <1>2
<1>4. ExecRest \in Seq(Steps) /\ LoadRest \in Seq(Steps)
  BY <1>3 DEF ExecRest, LoadRest
<1>5. Then(Leave, Then(Leave, <<>>)) \in Seq(Steps)
  BY <1>2
<1>6. Then(Forward(None), Then(Leave, Then(Leave, <<>>))) \in Seq(Steps)
  BY <1>5
<1>7. InSwapped \in Seq(Steps)
  BY <1>6 DEF InSwapped
<1>8. ShiftRest \in Seq(Steps)
  BY <1>7 DEF ShiftRest
<1> QED
  BY <1>1, <1>4, <1>7, <1>8 DEF After

(* The operations, in these terms. *)
LEMMA Programs ==
    /\ LoadModel = Then(Compute("base"), IF hasShift THEN LoadRest ELSE <<>>)
    /\ ProfileRun = Then(Forward(None), IF hasShift THEN ShiftRest ELSE <<>>)
    /\ \A b, s \in BOOLEAN : CaptureGraphs(b, s) =
         LET x == IF hasShift /\ s THEN ShiftRest ELSE <<>>
         IN  IF b THEN Then(Forward(None), x) ELSE x
    /\ ExecuteModel(FALSE) =
         Then(EnterMode(FALSE), Then(Forward("base"), Then(Leave, ExecRest)))
    /\ ExecuteModel(TRUE) =
         Then(EnterMode(TRUE), Then(Forward("shift"), Then(Leave, ExecRest)))
<1> DEFINE on == EnterMode(TRUE)
           off == EnterMode(FALSE)
           swap == SwapModel
           leave == Leave
           pass == Forward(None)
           callB == Forward("base")
           callS == Forward("shift")
           base == Compute("base")
           shift == Compute("shift")
<1>0. /\ on \in Steps /\ off \in Steps /\ swap \in Steps /\ leave \in Steps /\ pass \in Steps
      /\ callB \in Steps /\ callS \in Steps /\ base \in Steps /\ shift \in Steps
  BY StepTypes
<1>a. /\ LoadRest = Then(on, Then(shift, Then(leave, <<>>)))
      /\ ExecRest = Then(off, Then(base, Then(leave, <<>>)))
      /\ ShiftRest = Then(swap, Then(on, Then(pass, Then(leave, Then(leave, <<>>)))))
  BY DEF LoadRest, ExecRest, ShiftRest, InSwapped
<1>b. /\ ExecuteModel(FALSE) = <<off, callB, leave, off, base, leave>>
      /\ ExecuteModel(TRUE) = <<on, callS, leave, off, base, leave>>
  BY DEF ExecuteModel
<1> HIDE DEF on, off, swap, leave, pass, callB, callS, base, shift
<1>1. <<on, shift, leave>> = LoadRest
  <2>1. <<on, shift, leave>> = Then(on, Then(shift, Then(leave, <<>>)))
    BY <1>0, Three
  <2> QED
    BY <2>1, <1>a
<1>2. <<swap, on, pass, leave, leave>> = ShiftRest
  <2>1. <<swap, on, pass, leave, leave>>
          = Then(swap, Then(on, Then(pass, Then(leave, Then(leave, <<>>)))))
    BY SMTT(30), <1>0, Five
  <2> QED
    BY <2>1, <1>a
<1>3. \A x \in Seq(Steps) : <<>> \o x = x
  BY ConcatEmptySeq
<1>4. LoadModel = Then(base, IF hasShift THEN LoadRest ELSE <<>>)
  BY <1>1 DEF LoadModel, Then, on, shift, leave, base
<1>5. ProfileRun = Then(pass, IF hasShift THEN ShiftRest ELSE <<>>)
  BY <1>2 DEF ProfileRun, Then, swap, on, pass, leave
<1>6. ASSUME NEW b \in BOOLEAN, NEW s \in BOOLEAN
      PROVE  CaptureGraphs(b, s) =
               LET x == IF hasShift /\ s THEN ShiftRest ELSE <<>>
               IN  IF b THEN Then(pass, x) ELSE x
  BY <1>2, <1>3, RestTypes DEF CaptureGraphs, Then, swap, on, pass, leave
<1>7. ExecuteModel(FALSE) = Then(off, Then(callB, Then(leave, ExecRest)))
  <2>1. <<off, callB, leave, off, base, leave>>
          = Then(off, Then(callB, Then(leave, Then(off, Then(base, Then(leave, <<>>))))))
    <3>1. off \in Steps /\ callB \in Steps /\ leave \in Steps /\ off \in Steps /\ base \in Steps
      BY <1>0
    <3> QED
      BY <3>1, Six
  <2> QED
    BY <2>1, <1>a, <1>b
<1>8. ExecuteModel(TRUE) = Then(on, Then(callS, Then(leave, ExecRest)))
  <2>1. <<on, callS, leave, off, base, leave>>
          = Then(on, Then(callS, Then(leave, Then(off, Then(base, Then(leave, <<>>))))))
    <3>1. on \in Steps /\ callS \in Steps /\ leave \in Steps /\ off \in Steps /\ base \in Steps
      BY <1>0
    <3> QED
      BY <3>1, Six
  <2> QED
    BY <2>1, <1>a, <1>b
<1> QED
  BY <1>4, <1>5, <1>6, <1>7, <1>8 DEF on, off, leave, pass, callB, callS, base

LEMMA ForwardPrograms ==
    ASSUME NEW s \in Seq(Steps)
    PROVE  /\ ForwardSteps("base") \o s =
                Then(EnterMode(FALSE), Then(Compute("base"), Then(Leave, s)))
           /\ ForwardSteps("shift") \o s = Then(Compute("shift"), s)
<1> DEFINE off == EnterMode(FALSE)
           base == Compute("base")
           leave == Leave
           l == Then(leave, <<>>)
<1>1. off \in Steps /\ base \in Steps /\ leave \in Steps
  BY StepTypes
<1>2. ForwardSteps("base") = <<off, base, leave>>
  BY DEF ForwardSteps
<1> HIDE DEF off, base, leave
<1>3. l \in Seq(Steps) /\ l \o s = Then(leave, s)
  BY <1>1, Last
<1>4. <<off, base, leave>> = Then(off, Then(base, l))
  BY <1>1, Three
<1> HIDE DEF l
<1> DEFINE m == Then(base, l)
<1>5. m \in Seq(Steps)
  BY <1>1, <1>3, ThenIs
<1>6. m \o s = Then(base, Then(leave, s))
  <2>1. m \o s = Then(base, l \o s)
    BY <1>1, <1>3, ThenConcat
  <2> QED
    BY <2>1, <1>3
<1>7. ForwardSteps("base") = Then(off, m)
  BY <1>2, <1>4
<1> HIDE DEF m
<1>8. Then(off, m) \o s = Then(off, m \o s)
  BY <1>1, <1>5, ThenConcat
<1>9. ForwardSteps("base") \o s = Then(off, Then(base, Then(leave, s)))
  BY <1>6, <1>7, <1>8
<1>10. ForwardSteps("shift") \o s = Then(Compute("shift"), s)
  BY DEF ForwardSteps, Then
<1> QED
  BY <1>9, <1>10 DEF off, base, leave

-----------------------------------------------------------------------------
(***************************************************************************)
(* What is left after each step, taken apart in turn.                      *)
(***************************************************************************)
LEMMA LeftThen ==
    ASSUME NEW a \in Steps, NEW s \in Seq(Steps) PROVE Left(Then(a, s), a, s)
  BY ThenIs DEF Left

LEMMA AfterMembers ==
    /\ <<>> \in After /\ ExecRest \in After
    /\ hasShift => LoadRest \in After /\ ShiftRest \in After
  BY DEF After

(* In a scope, or in two. *)
LEMMA LeftInScopes ==
    ASSUME NEW x \in After
    PROVE  /\ Then(Leave, x) \in Seq(Steps) /\ Then(Leave, Then(Leave, x)) \in Seq(Steps)
           /\ Left(Then(Leave, x), Leave, x)
           /\ Left(Then(Leave, Then(Leave, x)), Leave, Then(Leave, x))
           /\ \A a \in Steps : /\ Left(Then(a, x), a, x)
                              /\ Left(Then(a, Then(Leave, x)), a, Then(Leave, x))
                              /\ Left(Then(a, Then(Leave, Then(Leave, x))), a,
                                      Then(Leave, Then(Leave, x)))
<1> DEFINE y == Then(Leave, x)
           z == Then(Leave, y)
           leave == Leave
<1>1. x \in Seq(Steps) /\ leave \in Steps
  BY RestTypes, StepTypes
<1>2. y = Then(leave, x) /\ z = Then(leave, y)
  OBVIOUS
<1> HIDE DEF y, z, leave
<1>3. y \in Seq(Steps) /\ Left(y, leave, x)
  BY <1>1, <1>2, ThenIs, LeftThen
<1>4. z \in Seq(Steps) /\ Left(z, leave, y)
  BY <1>1, <1>2, <1>3, ThenIs, LeftThen
<1>5. ASSUME NEW a \in Steps
      PROVE  Left(Then(a, x), a, x) /\ Left(Then(a, y), a, y) /\ Left(Then(a, z), a, z)
  BY <1>1, <1>3, <1>4, LeftThen
<1> QED
  BY <1>3, <1>4, <1>5 DEF y, z, leave

(* A call of the base model, before its own scope is opened. *)
LEMMA LeftOfForward ==
    ASSUME NEW x \in After
    PROVE  /\ Left(Then(EnterMode(FALSE), Then(Compute("base"), Then(Leave, x))),
                  EnterMode(FALSE), Then(Compute("base"), Then(Leave, x)))
           /\ Left(Then(EnterMode(FALSE), Then(Compute("base"), Then(Leave, Then(Leave, x)))),
                  EnterMode(FALSE), Then(Compute("base"), Then(Leave, Then(Leave, x))))
<1> DEFINE y == Then(Leave, x)
           z == Then(Leave, y)
           off == EnterMode(FALSE)
           base == Compute("base")
<1>1. /\ off \in Steps /\ base \in Steps
      /\ y \in Seq(Steps) /\ z \in Seq(Steps)
  BY StepTypes, LeftInScopes
<1> HIDE DEF y, z, off, base
<1>2. Then(base, y) \in Seq(Steps) /\ Then(base, z) \in Seq(Steps)
  BY <1>1, ThenIs
<1>3. Left(Then(off, Then(base, y)), off, Then(base, y))
  BY <1>1, <1>2, LeftThen
<1>4. Left(Then(off, Then(base, z)), off, Then(base, z))
  BY <1>1, <1>2, LeftThen
<1> QED
  BY <1>3, <1>4 DEF y, z, off, base

(* The steps of one batch, from the first. *)
LEMMA LeftOfExecute ==
    /\ Left(Then(EnterMode(FALSE), Then(Forward("base"), Then(Leave, ExecRest))),
            EnterMode(FALSE), Then(Forward("base"), Then(Leave, ExecRest)))
    /\ Left(Then(EnterMode(TRUE), Then(Forward("shift"), Then(Leave, ExecRest))),
            EnterMode(TRUE), Then(Forward("shift"), Then(Leave, ExecRest)))
    /\ Then(EnterMode(FALSE), Then(Forward("base"), Then(Leave, ExecRest))) \in Seq(Steps)
    /\ Then(EnterMode(TRUE), Then(Forward("shift"), Then(Leave, ExecRest))) \in Seq(Steps)
<1> DEFINE y == Then(Leave, ExecRest)
           off == EnterMode(FALSE)
           on == EnterMode(TRUE)
           base == Forward("base")
           shift == Forward("shift")
<1>1. /\ off \in Steps /\ on \in Steps /\ base \in Steps /\ shift \in Steps
      /\ y \in Seq(Steps)
  BY StepTypes, LeftInScopes, AfterMembers
<1> HIDE DEF y, off, on, base, shift
<1>2. Then(base, y) \in Seq(Steps) /\ Then(shift, y) \in Seq(Steps)
  BY <1>1, ThenIs
<1>3. Left(Then(off, Then(base, y)), off, Then(base, y))
  BY <1>1, <1>2, LeftThen
<1>4. Left(Then(on, Then(shift, y)), on, Then(shift, y))
  BY <1>1, <1>2, LeftThen
<1>5. Then(off, Then(base, y)) \in Seq(Steps) /\ Then(on, Then(shift, y)) \in Seq(Steps)
  BY <1>1, <1>2, ThenIs
<1> QED
  BY <1>3, <1>4, <1>5 DEF y, off, on, base, shift

(* What follows a computation outside scopes. *)
LEMMA LeftOfRest ==
    /\ Left(ExecRest, EnterMode(FALSE), Then(Compute("base"), Then(Leave, <<>>)))
    /\ Left(LoadRest, EnterMode(TRUE), Then(Compute("shift"), Then(Leave, <<>>)))
    /\ Left(ShiftRest, SwapModel, InSwapped)
    /\ Left(InSwapped, EnterMode(TRUE), Then(Forward(None), Then(Leave, Then(Leave, <<>>))))
<1> DEFINE e == <<>>
           y == Then(Leave, e)
           z == Then(Leave, y)
           off == EnterMode(FALSE)
           on == EnterMode(TRUE)
           base == Compute("base")
           shift == Compute("shift")
           pass == Forward(None)
           swap == SwapModel
<1>1. /\ off \in Steps /\ on \in Steps /\ base \in Steps /\ shift \in Steps
      /\ pass \in Steps /\ swap \in Steps
  BY StepTypes
<1>2. e \in After
  BY AfterMembers
<1>3. y \in Seq(Steps) /\ z \in Seq(Steps)
  <2> HIDE DEF e
  <2> QED
    BY <1>2, LeftInScopes
<1>4. /\ ExecRest = Then(off, Then(base, y)) /\ LoadRest = Then(on, Then(shift, y))
      /\ InSwapped = Then(on, Then(pass, z)) /\ ShiftRest = Then(swap, InSwapped)
  BY DEF ExecRest, LoadRest, InSwapped, ShiftRest
<1> HIDE DEF e, y, z, off, on, base, shift, pass, swap
<1>5. Then(base, y) \in Seq(Steps) /\ Then(shift, y) \in Seq(Steps)
  BY <1>1, <1>3, ThenIs
<1>6. Then(pass, z) \in Seq(Steps)
  BY <1>1, <1>3, ThenIs
<1>7. Left(ExecRest, off, Then(base, y)) /\ Left(LoadRest, on, Then(shift, y))
  BY <1>1, <1>4, <1>5, LeftThen
<1>8. Left(InSwapped, on, Then(pass, z))
  BY <1>1, <1>4, <1>6, LeftThen
<1>9. Left(ShiftRest, swap, InSwapped)
  BY <1>1, <1>4, RestTypes, LeftThen
<1> QED
  BY <1>7, <1>8, <1>9 DEF e, y, z, off, on, base, shift, pass, swap

(* Nothing is open and what is left is another part of the operation. *)
LEMMA OverAtTop ==
    ASSUME steps' \in After, hasShift' = hasShift, hasShift \in BOOLEAN,
           scopes' = <<>>, mode' = None, model' = "base"
    PROVE  AtTop'
<1>1. After' = After
  BY DEF After
<1>2. CASE steps' = <<>>
  BY <1>2 DEF AtTop
<1>3. CASE steps' = ExecRest
  <2>1. Left(steps', EnterMode(FALSE), Then(Compute("base"), Then(Leave, <<>>)))
    BY <1>3, LeftOfRest
  <2> QED
    BY <1>1, <2>1, AfterMembers DEF AtTop
<1>4. CASE hasShift /\ steps' = LoadRest
  BY <1>4, LeftOfRest DEF AtTop
<1>5. CASE hasShift /\ steps' = ShiftRest
  BY <1>5, LeftOfRest DEF AtTop
<1> QED
  BY <1>2, <1>3, <1>4, <1>5 DEF After

-----------------------------------------------------------------------------
(***************************************************************************)
(* Where the runner can be when it takes each kind of step.                *)
(***************************************************************************)
LEMMA Kinds ==
    /\ \A m : EnterMode(m).do = "mode" /\ EnterMode(m).arg = m
    /\ \A m : Forward(m).do = "forward" /\ Forward(m).arg = m
    /\ \A m : Compute(m).do = "compute" /\ Compute(m).arg = m
    /\ SwapModel.do = "swap" /\ Leave.do = "leave"
  BY DEF EnterMode, Forward, Compute, SwapModel, Leave

LEMMA AtMode ==
    ASSUME Nested, steps # <<>>, Head(steps).do = "mode"
    PROVE  \/ /\ scopes = <<>> /\ mode = None /\ model = "base"
              /\ Head(steps) = EnterMode(FALSE)
              /\ \/ \E x \in After : Tail(steps) = Then(Compute("base"), Then(Leave, x))
                 \/ Tail(steps) = Then(Forward("base"), Then(Leave, ExecRest))
           \/ /\ scopes = <<>> /\ mode = None /\ model = "base" /\ hasShift
              /\ Head(steps) = EnterMode(TRUE)
              /\ \/ Tail(steps) = Then(Compute("shift"), Then(Leave, <<>>))
                 \/ Tail(steps) = Then(Forward("shift"), Then(Leave, ExecRest))
           \/ /\ scopes = <<OfDefault>> /\ mode = FALSE /\ model = "base"
              /\ Head(steps) = EnterMode(FALSE)
              /\ Tail(steps) = Then(Compute("base"), Then(Leave, Then(Leave, ExecRest)))
           \/ /\ scopes = <<OfSwap>> /\ mode = None /\ model = "shift" /\ hasShift
              /\ Head(steps) = EnterMode(TRUE)
              /\ Tail(steps) = Then(Forward(None), Then(Leave, Then(Leave, <<>>)))
  BY Kinds DEF Nested, AtTop, InBaseMode, InShiftMode, InBaseForward, InSwap, InShiftForward, Left

LEMMA AtSwap ==
    ASSUME Nested, steps # <<>>, Head(steps).do = "swap"
    PROVE  /\ scopes = <<>> /\ mode = None /\ model = "base" /\ hasShift
           /\ Tail(steps) = InSwapped
  BY Kinds DEF Nested, AtTop, InBaseMode, InShiftMode, InBaseForward, InSwap, InShiftForward, Left

LEMMA AtLeave ==
    ASSUME Nested, steps # <<>>, Head(steps).do = "leave"
    PROVE  \/ scopes = <<OfDefault>> /\ model = "base" /\ Tail(steps) \in After
           \/ /\ scopes = <<OfDefault, OfBase>> /\ model = "base"
              /\ \E x \in {<<>>, ExecRest} : Tail(steps) = Then(Leave, x)
           \/ scopes = <<OfSwap>> /\ mode = None /\ hasShift /\ Tail(steps) = <<>>
           \/ /\ scopes = <<OfSwap, OfDefault>> /\ model = "shift" /\ hasShift
              /\ Tail(steps) = Then(Leave, <<>>)
  BY Kinds DEF Nested, AtTop, InBaseMode, InShiftMode, InBaseForward, InSwap, InShiftForward, Left

LEMMA AtForward ==
    ASSUME Nested, steps # <<>>, Head(steps).do = "forward"
    PROVE  \/ /\ scopes = <<>> /\ mode = None /\ model = "base"
              /\ Head(steps).arg = None /\ Tail(steps) \in After
           \/ /\ scopes = <<OfDefault>> /\ mode = FALSE /\ model = "base"
              /\ Head(steps).arg = "base" /\ Tail(steps) = Then(Leave, ExecRest)
           \/ /\ scopes = <<OfDefault>> /\ mode = TRUE /\ model = "base" /\ hasShift
              /\ Head(steps).arg = "shift" /\ Tail(steps) = Then(Leave, ExecRest)
           \/ /\ scopes = <<OfSwap, OfDefault>> /\ mode = TRUE /\ model = "shift" /\ hasShift
              /\ Head(steps).arg = None /\ Tail(steps) = Then(Leave, Then(Leave, <<>>))
  BY Kinds DEF Nested, AtTop, InBaseMode, InShiftMode, InBaseForward, InSwap, InShiftForward, Left

LEMMA AtCompute ==
    ASSUME Nested, steps # <<>>, Head(steps).do = "compute"
    PROVE  \/ /\ scopes = <<>> /\ mode = None /\ model = "base"
              /\ Head(steps).arg = "base" /\ Tail(steps) \in After
           \/ /\ scopes = <<OfDefault>> /\ mode = FALSE /\ model = "base"
              /\ Head(steps).arg = "base" /\ \E x \in After : Tail(steps) = Then(Leave, x)
           \/ /\ scopes = <<OfDefault>> /\ mode = TRUE /\ model = "base" /\ hasShift
              /\ Head(steps).arg = "shift" /\ \E x \in After : Tail(steps) = Then(Leave, x)
           \/ /\ scopes = <<OfDefault, OfBase>> /\ mode = FALSE /\ model = "base"
              /\ Head(steps).arg = "base"
              /\ \E x \in {<<>>, ExecRest} : Tail(steps) = Then(Leave, Then(Leave, x))
           \/ /\ scopes = <<OfSwap, OfDefault>> /\ mode = TRUE /\ model = "shift" /\ hasShift
              /\ Head(steps).arg = "shift" /\ Tail(steps) = Then(Leave, Then(Leave, <<>>))
  BY ZenonT(30), Kinds DEF Nested, AtTop, InBaseMode, InShiftMode, InBaseForward, InSwap, InShiftForward, Left

-----------------------------------------------------------------------------
(***************************************************************************)
(* Each action keeps the invariant.                                        *)
(***************************************************************************)
LEMMA TailTypes ==
    TypeOK /\ steps # <<>> => Head(steps) \in Steps /\ Tail(steps) \in Seq(Steps)
  BY HeadTailProperties DEF TypeOK

LEMMA NoneIsOther ==
    None # TRUE /\ None # FALSE /\ None # "TP" /\ None # "SP_TP" /\ None # "base" /\ None # "shift"
  BY ShiftParallelAssumption

LEMMA ScopeTypes == OfDefault \in Scopes /\ OfBase \in Scopes /\ OfSwap \in Scopes
  BY DEF Scopes, OfDefault, OfBase, OfSwap, Modes, Groups, Models

LEMMA Appended ==
    ASSUME NEW S, NEW a \in S, NEW b \in S PROVE Append(<<a>>, b) = <<a, b>>
<1> DEFINE one == <<a>>
           two == <<a, b>>
           app == Append(one, b)
<1>1. /\ one \in Seq(S) /\ Len(one) = 1 /\ one[1] = a
      /\ two \in Seq(S) /\ Len(two) = 2 /\ two[1] = a /\ two[2] = b
  OBVIOUS
<1> HIDE DEF one, two
<1>2. /\ app \in Seq(S) /\ Len(app) = 2 /\ app[1] = a /\ app[2] = b
  <2>1. \A s \in Seq(S) : /\ Append(s, b) \in Seq(S) /\ Len(Append(s, b)) = Len(s) + 1
                         /\ Append(s, b)[Len(s) + 1] = b
                         /\ \A i \in 1 .. Len(s) : Append(s, b)[i] = s[i]
    BY AppendProperties
  <2>2. app \in Seq(S) /\ Len(app) = Len(one) + 1 /\ app[Len(one) + 1] = b
    BY <1>1, <2>1
  <2>3. Len(one) + 1 = 2
    BY <1>1
  <2>4. 1 \in 1 .. Len(one)
    BY <1>1
  <2>5. app[1] = one[1]
    BY <1>1, <2>1, <2>4
  <2> QED
    BY <1>1, <2>2, <2>3, <2>5
<1> HIDE DEF app
<1>3. \A i \in 1 .. Len(app) : app[i] = two[i]
  <2> SUFFICES ASSUME NEW i \in 1 .. 2 PROVE app[i] = two[i]
    BY <1>2
  <2>1. i = 1 \/ i = 2
    OBVIOUS
  <2> QED
    BY <1>1, <1>2, <2>1
<1>4. app = two
  BY <1>1, <1>2, <1>3, SeqEqual
<1> QED
  BY <1>4 DEF app, one, two

(* What has been computed, and which buffers are bound, is not touched by  *)
(* a step that only moves the runner between scopes.                       *)
LEMMA MovesKeep ==
    ModesInv /\ UNCHANGED <<hasShift, stage, computed, cache>>
        => /\ hasShift' \in BOOLEAN /\ stage' = stage
           /\ ModelsSeeTheirGroup' /\ CacheBound'
  BY DEF ModesInv, TypeOK, ModelsSeeTheirGroup, CacheBound

LEMMA EnterKeeps == ModesInv /\ DoEnterMode => ModesInv'
<1> SUFFICES ASSUME ModesInv, DoEnterMode PROVE ModesInv'
  OBVIOUS
<1> USE DEF ModesInv
<1>1. /\ hasShift' = hasShift /\ stage' = stage /\ model' = model /\ computed' = computed
      /\ cache' = cache /\ steps' = Tail(steps)
      /\ steps # <<>> /\ Head(steps).do = "mode"
  BY DEF DoEnterMode
<1>2. Head(steps) \in {EnterMode(TRUE), EnterMode(FALSE)} /\ mode # TRUE
  BY <1>1, AtMode, NoneIsOther
<1>3. /\ tp = "TP" /\ tp' = (IF mode' = TRUE THEN "SP_TP" ELSE "TP") /\ origTp' = "TP"
      /\ mode' \in BOOLEAN /\ mode' = Head(steps).arg
      /\ scopes' = Append(scopes, [kind |-> "mode", mode |-> mode, tp |-> "TP"])
  <2>1. Head(steps).arg \in BOOLEAN
    <3>1. EnterMode(TRUE).arg \in BOOLEAN /\ EnterMode(FALSE).arg \in BOOLEAN
      BY DEF EnterMode
    <3> QED
      BY <1>2, <3>1
  <2>2. tp = "TP"
    BY <1>2 DEF GroupMatchesMode
  <2>3. /\ origTp' = tp /\ mode' = Head(steps).arg
        /\ tp' = IF Head(steps).arg THEN "SP_TP" ELSE tp
    BY <1>2, <2>1, NoneIsOther DEF DoEnterMode, SavedTp
  <2>4. scopes' = Append(scopes, [kind |-> "mode", mode |-> mode, tp |-> tp])
    BY DEF DoEnterMode, Push
  <2> QED
    BY <2>1, <2>2, <2>3, <2>4
<1>4. After' = After
  BY <1>1 DEF After
<1>5. EnterMode(TRUE).arg = TRUE /\ EnterMode(FALSE).arg = FALSE
  BY DEF EnterMode
<1>6. Nested'
  <2>1. CASE /\ scopes = <<>> /\ mode = None /\ model = "base"
             /\ Head(steps) = EnterMode(FALSE)
             /\ \/ \E x \in After : Tail(steps) = Then(Compute("base"), Then(Leave, x))
                \/ Tail(steps) = Then(Forward("base"), Then(Leave, ExecRest))
    <3>a. mode' = FALSE
      BY <1>3, <1>5, <2>1
    <3>b. scopes' = Append(scopes, OfDefault)
      BY <1>3, <2>1 DEF OfDefault
    <3>1. scopes' = <<OfDefault>> /\ mode' = FALSE
      BY <3>a, <3>b, <2>1
    <3>2. InBaseMode'
      BY <1>1, <1>4, <2>1, <3>1, LeftInScopes, StepTypes, AfterMembers DEF InBaseMode
    <3> QED
      BY <3>2 DEF Nested
  <2>2. CASE /\ scopes = <<>> /\ mode = None /\ model = "base" /\ hasShift
             /\ Head(steps) = EnterMode(TRUE)
             /\ \/ Tail(steps) = Then(Compute("shift"), Then(Leave, <<>>))
                \/ Tail(steps) = Then(Forward("shift"), Then(Leave, ExecRest))
    <3>a. mode' = TRUE
      BY <1>3, <1>5, <2>2
    <3>b. scopes' = Append(scopes, OfDefault)
      BY <1>3, <2>2 DEF OfDefault
    <3>1. scopes' = <<OfDefault>> /\ mode' = TRUE
      BY <3>a, <3>b, <2>2
    <3>2. InShiftMode'
      BY <1>1, <1>4, <2>2, <3>1, LeftInScopes, StepTypes, AfterMembers DEF InShiftMode
    <3> QED
      BY <3>2 DEF Nested
  <2>3. CASE /\ scopes = <<OfDefault>> /\ mode = FALSE /\ model = "base"
             /\ Head(steps) = EnterMode(FALSE)
             /\ Tail(steps) = Then(Compute("base"), Then(Leave, Then(Leave, ExecRest)))
    <3>a. mode' = FALSE
      BY <1>3, <1>5, <2>3
    <3>b. scopes' = Append(scopes, OfBase)
      BY <1>3, <2>3 DEF OfBase
    <3>1. scopes' = <<OfDefault, OfBase>> /\ mode' = FALSE
      BY <3>a, <3>b, <2>3, Appended, ScopeTypes
    <3>2. InBaseForward'
      BY <1>1, <2>3, <3>1, LeftInScopes, StepTypes, AfterMembers DEF InBaseForward
    <3> QED
      BY <3>2 DEF Nested
  <2>4. CASE /\ scopes = <<OfSwap>> /\ mode = None /\ model = "shift" /\ hasShift
             /\ Head(steps) = EnterMode(TRUE)
             /\ Tail(steps) = Then(Forward(None), Then(Leave, Then(Leave, <<>>)))
    <3>a. mode' = TRUE
      BY <1>3, <1>5, <2>4
    <3>b. scopes' = Append(scopes, OfDefault)
      BY <1>3, <2>4 DEF OfDefault
    <3>1. scopes' = <<OfSwap, OfDefault>> /\ mode' = TRUE
      BY <3>a, <3>b, <2>4, Appended, ScopeTypes
    <3>2. InShiftForward'
      BY <1>1, <2>4, <3>1, LeftInScopes, StepTypes, AfterMembers DEF InShiftForward
    <3> QED
      BY <3>2 DEF Nested
  <2> QED
    BY <1>1, <2>1, <2>2, <2>3, <2>4, AtMode
<1>7. TypeOK'
  <2>1. steps' \in Seq(Steps)
    BY <1>1, TailTypes
  <2>2. scopes' \in Seq(Scopes)
    <3>1. [kind |-> "mode", mode |-> mode, tp |-> "TP"] \in Scopes
      BY DEF TypeOK, Scopes, Groups
    <3> QED
      BY <1>3, <3>1, AppendProperties DEF TypeOK
  <2> QED
    BY <1>1, <1>3, <2>1, <2>2 DEF TypeOK, Modes, Groups
<1> QED
  BY <1>1, <1>3, <1>6, <1>7, MovesKeep DEF GroupMatchesMode

LEMMA SwapKeeps == ModesInv /\ DoSwapModel => ModesInv'
<1> SUFFICES ASSUME ModesInv, DoSwapModel PROVE ModesInv'
  OBVIOUS
<1> USE DEF ModesInv
<1>1. /\ hasShift' = hasShift /\ stage' = stage /\ mode' = mode /\ tp' = tp
      /\ origTp' = origTp /\ computed' = computed /\ cache' = cache
      /\ model' = "shift" /\ steps' = Tail(steps) /\ steps # <<>> /\ Head(steps) = SwapModel
      /\ scopes' = Append(scopes, [kind |-> "swap", model |-> model])
  BY DEF DoSwapModel, Push
<1>2. /\ scopes = <<>> /\ mode = None /\ model = "base" /\ hasShift
      /\ Tail(steps) = InSwapped
  BY <1>1, AtSwap, Kinds
<1>3. scopes' = <<OfSwap>>
  BY <1>1, <1>2 DEF OfSwap
<1>4. InSwap'
  BY <1>1, <1>2, <1>3, LeftOfRest DEF InSwap
<1>5. TypeOK'
  <2>1. steps' \in Seq(Steps)
    BY <1>1, TailTypes
  <2>2. scopes' \in Seq(Scopes)
    BY <1>3, ScopeTypes
  <2> QED
    BY <1>1, <2>1, <2>2 DEF TypeOK, Models
<1> QED
  BY <1>1, <1>4, <1>5, MovesKeep DEF GroupMatchesMode, Nested

LEMMA Popped ==
    ASSUME NEW S, NEW a \in S, NEW b \in S
    PROVE  SubSeq(<<a>>, 1, 0) = <<>> /\ SubSeq(<<a, b>>, 1, 1) = <<a>>
<1> DEFINE one == <<a>>
           two == <<a, b>>
           sub == SubSeq(two, 1, 1)
<1>1. /\ one \in Seq(S) /\ Len(one) = 1 /\ one[1] = a
      /\ two \in Seq(S) /\ Len(two) = 2 /\ two[1] = a
  OBVIOUS
<1>2. SubSeq(<<a>>, 1, 0) = <<>>
  OBVIOUS
<1> HIDE DEF one, two
<1>3. /\ sub \in Seq(S) /\ Len(sub) = 1 /\ sub[1] = a
  BY <1>1, SubSeqProperties
<1> HIDE DEF sub
<1>4. sub = one
  <2>1. \A i \in 1 .. Len(sub) : sub[i] = one[i]
    BY <1>1, <1>3
  <2> QED
    BY <1>1, <1>3, <2>1, SeqEqual
<1> QED
  BY <1>2, <1>4 DEF sub, one, two

LEMMA LeaveKeeps == ModesInv /\ DoLeave => ModesInv'
<1> SUFFICES ASSUME ModesInv, DoLeave PROVE ModesInv'
  OBVIOUS
<1> USE DEF ModesInv
<1> DEFINE top == scopes[Len(scopes)]
<1>1. /\ hasShift' = hasShift /\ stage' = stage /\ origTp' = origTp
      /\ computed' = computed /\ cache' = cache /\ steps' = Tail(steps)
      /\ steps # <<>> /\ Head(steps) = Leave
  BY DEF DoLeave
<1>2. /\ scopes' = SubSeq(scopes, 1, Len(scopes) - 1)
      /\ top.kind = "mode" => mode' = top.mode /\ tp' = top.tp /\ model' = model
      /\ top.kind # "mode" => model' = top.model /\ mode' = mode /\ tp' = tp
  BY DEF DoLeave, Restore
<1> HIDE DEF top
<1>3. Head(steps).do = "leave"
  BY <1>1, Kinds
<1>4. /\ OfDefault.kind = "mode" /\ OfDefault.mode = None /\ OfDefault.tp = "TP"
      /\ OfBase.kind = "mode" /\ OfBase.mode = FALSE /\ OfBase.tp = "TP"
      /\ OfSwap.kind = "swap" /\ OfSwap.model = "base"
  BY DEF OfDefault, OfBase, OfSwap
<1>5. After' = After /\ <<>> \in After
  BY <1>1 DEF After
<1>6. /\ Nested' /\ mode' \in Modes /\ model' \in Models
      /\ tp' = (IF mode' = TRUE THEN "SP_TP" ELSE "TP") /\ scopes' \in Seq(Scopes)
  <2>1. CASE scopes = <<OfDefault>> /\ model = "base" /\ Tail(steps) \in After
    <3>1. top = OfDefault /\ scopes' = <<>>
      BY <1>2, <2>1, Popped, ScopeTypes DEF top
    <3>2. mode' = None /\ tp' = "TP" /\ model' = "base"
      BY <1>2, <1>4, <2>1, <3>1
    <3>3. AtTop'
      BY <1>1, <2>1, <3>1, <3>2, OverAtTop DEF TypeOK
    <3>4. Nested'
      BY <3>3 DEF Nested
    <3>5. scopes' \in Seq(Scopes)
      BY <3>1, ScopeTypes
    <3>6. mode' \in Modes /\ model' \in Models
      BY <3>2 DEF Modes, Models
    <3>7. tp' = (IF mode' = TRUE THEN "SP_TP" ELSE "TP")
      BY <3>2, NoneIsOther
    <3> QED
      BY <3>4, <3>5, <3>6, <3>7
  <2>2. CASE /\ scopes = <<OfDefault, OfBase>> /\ model = "base"
             /\ \E x \in {<<>>, ExecRest} : Tail(steps) = Then(Leave, x)
    <3>1. top = OfBase /\ scopes' = <<OfDefault>>
      BY <1>2, <2>2, Popped, ScopeTypes DEF top
    <3>2. mode' = FALSE /\ tp' = "TP" /\ model' = "base"
      BY <1>2, <1>4, <2>2, <3>1
    <3>3. InBaseMode'
      BY <1>1, <1>5, <2>2, <3>1, <3>2, LeftInScopes, AfterMembers DEF InBaseMode
    <3>4. Nested'
      BY <3>3 DEF Nested
    <3>5. scopes' \in Seq(Scopes)
      BY <3>1, ScopeTypes
    <3>6. mode' \in Modes /\ model' \in Models
      BY <3>2 DEF Modes, Models
    <3>7. tp' = (IF mode' = TRUE THEN "SP_TP" ELSE "TP")
      BY <3>2, NoneIsOther
    <3> QED
      BY <3>4, <3>5, <3>6, <3>7
  <2>3. CASE scopes = <<OfSwap>> /\ mode = None /\ hasShift /\ Tail(steps) = <<>>
    <3>1. top = OfSwap /\ scopes' = <<>>
      BY <1>2, <2>3, Popped, ScopeTypes DEF top
    <3>2. mode' = None /\ tp' = "TP" /\ model' = "base"
      BY <1>2, <1>4, <2>3, <3>1, NoneIsOther DEF GroupMatchesMode
    <3>3. AtTop'
      BY <1>1, <1>5, <2>3, <3>1, <3>2, OverAtTop DEF TypeOK
    <3>4. Nested'
      BY <3>3 DEF Nested
    <3>5. scopes' \in Seq(Scopes)
      BY <3>1, ScopeTypes
    <3>6. mode' \in Modes /\ model' \in Models
      BY <3>2 DEF Modes, Models
    <3>7. tp' = (IF mode' = TRUE THEN "SP_TP" ELSE "TP")
      BY <3>2, NoneIsOther
    <3> QED
      BY <3>4, <3>5, <3>6, <3>7
  <2>4. CASE /\ scopes = <<OfSwap, OfDefault>> /\ model = "shift" /\ hasShift
             /\ Tail(steps) = Then(Leave, <<>>)
    <3>1. top = OfDefault /\ scopes' = <<OfSwap>>
      BY <1>2, <2>4, Popped, ScopeTypes DEF top
    <3>2. mode' = None /\ tp' = "TP" /\ model' = "shift"
      BY <1>2, <1>4, <2>4, <3>1
    <3>3. InSwap'
      BY <1>1, <1>5, <2>4, <3>1, <3>2, LeftInScopes DEF InSwap
    <3>4. Nested'
      BY <3>3 DEF Nested
    <3>5. scopes' \in Seq(Scopes)
      BY <3>1, ScopeTypes
    <3>6. mode' \in Modes /\ model' \in Models
      BY <3>2 DEF Modes, Models
    <3>7. tp' = (IF mode' = TRUE THEN "SP_TP" ELSE "TP")
      BY <3>2, NoneIsOther
    <3> QED
      BY <3>4, <3>5, <3>6, <3>7
  <2> QED
    BY <1>1, <1>3, <2>1, <2>2, <2>3, <2>4, AtLeave
<1>7. TypeOK'
  <2>1. steps' \in Seq(Steps)
    BY <1>1, TailTypes
  <2> QED
    BY <1>1, <1>6, <2>1 DEF TypeOK, Groups
<1> QED
  BY <1>1, <1>6, <1>7, MovesKeep DEF GroupMatchesMode

LEMMA ForwardTypes ==
    ASSUME NEW s \in Seq(Steps), NEW m \in Models PROVE ForwardSteps(m) \o s \in Seq(Steps)
<1> DEFINE off == EnterMode(FALSE)
           base == Compute("base")
           leave == Leave
           shift == Compute("shift")
<1>1. off \in Steps /\ base \in Steps /\ leave \in Steps /\ shift \in Steps
  BY StepTypes
<1>2. ForwardSteps(m) = <<off, base, leave>> \/ ForwardSteps(m) = <<shift>>
  BY DEF ForwardSteps, Models
<1> HIDE DEF off, base, leave, shift
<1>3. <<off, base, leave>> \in Seq(Steps) /\ <<shift>> \in Seq(Steps)
  BY <1>1
<1>4. ForwardSteps(m) \in Seq(Steps)
  BY <1>2, <1>3
<1> QED
  BY <1>4, ConcatProperties

LEMMA ForwardKeeps == ModesInv /\ DoForward => ModesInv'
<1> SUFFICES ASSUME ModesInv, DoForward PROVE ModesInv'
  OBVIOUS
<1> USE DEF ModesInv
<1> DEFINE m == IF Head(steps).arg = None THEN model ELSE Head(steps).arg
<1>1. /\ hasShift' = hasShift /\ stage' = stage /\ origTp' = origTp /\ mode' = mode
      /\ tp' = tp /\ model' = model /\ scopes' = scopes
      /\ computed' = computed /\ cache' = cache /\ steps # <<>>
      /\ Head(steps).do = "forward" /\ steps' = ForwardSteps(m) \o Tail(steps)
  BY DEF DoForward
<1>2. Tail(steps) \in Seq(Steps)
  BY <1>1, TailTypes
<1>3. After' = After /\ <<>> \in After /\ ExecRest \in After
  BY <1>1 DEF After
<1>4. Nested' /\ m \in Models
  <2>1. CASE /\ scopes = <<>> /\ mode = None /\ model = "base"
             /\ Head(steps).arg = None /\ Tail(steps) \in After
    <3>1. m = "base"
      BY <2>1
    <3>2. steps' = Then(EnterMode(FALSE), Then(Compute("base"), Then(Leave, Tail(steps))))
      BY <1>1, <1>2, <3>1, ForwardPrograms
    <3>3. AtTop'
      BY <1>1, <1>3, <2>1, <3>2, LeftOfForward DEF AtTop
    <3> QED
      BY <3>1, <3>3 DEF Nested, Models
  <2>2. CASE /\ scopes = <<OfDefault>> /\ mode = FALSE /\ model = "base"
             /\ Head(steps).arg = "base" /\ Tail(steps) = Then(Leave, ExecRest)
    <3>1. m = "base"
      BY <2>2
    <3>2. steps' = Then(EnterMode(FALSE),
                        Then(Compute("base"), Then(Leave, Then(Leave, ExecRest))))
      BY <1>1, <1>2, <2>2, <3>1, ForwardPrograms
    <3>3. InBaseMode'
      BY <1>1, <1>3, <2>2, <3>2, LeftOfForward DEF InBaseMode
    <3> QED
      BY <3>1, <3>3 DEF Nested, Models
  <2>3. CASE /\ scopes = <<OfDefault>> /\ mode = TRUE /\ model = "base" /\ hasShift
             /\ Head(steps).arg = "shift" /\ Tail(steps) = Then(Leave, ExecRest)
    <3>1. m = "shift"
      BY <2>3, NoneIsOther
    <3>2. steps' = Then(Compute("shift"), Then(Leave, ExecRest))
      BY <1>1, <1>2, <2>3, <3>1, ForwardPrograms
    <3>3. InShiftMode'
      BY <1>1, <1>3, <2>3, <3>2, LeftInScopes, StepTypes DEF InShiftMode
    <3> QED
      BY <3>1, <3>3 DEF Nested, Models
  <2>4. CASE /\ scopes = <<OfSwap, OfDefault>> /\ mode = TRUE /\ model = "shift" /\ hasShift
             /\ Head(steps).arg = None /\ Tail(steps) = Then(Leave, Then(Leave, <<>>))
    <3>1. m = "shift"
      BY <2>4
    <3>2. steps' = Then(Compute("shift"), Then(Leave, Then(Leave, <<>>)))
      BY <1>1, <1>2, <2>4, <3>1, ForwardPrograms
    <3>3. InShiftForward'
      BY <1>1, <1>3, <2>4, <3>2, LeftInScopes, StepTypes DEF InShiftForward
    <3> QED
      BY <3>1, <3>3 DEF Nested, Models
  <2> HIDE DEF m
  <2> QED
    BY <1>1, <2>1, <2>2, <2>3, <2>4, AtForward
<1> HIDE DEF m
<1>5. TypeOK'
  <2>1. steps' \in Seq(Steps)
    BY <1>1, <1>2, <1>4, ForwardTypes
  <2> QED
    BY <1>1, <2>1 DEF TypeOK
<1> QED
  BY <1>1, <1>4, <1>5, MovesKeep DEF GroupMatchesMode

(* The group a model computes with is the one its weights are split over.  *)
LEMMA ComputeInItsGroup ==
    ASSUME ModesInv, steps # <<>>, Head(steps).do = "compute"
    PROVE  /\ Head(steps).arg \in Models
           /\ tp = (IF Head(steps).arg = "shift" THEN "SP_TP" ELSE "TP")
           /\ Head(steps).arg = "shift" => hasShift
<1>1. \/ Head(steps).arg = "base" /\ (mode = None \/ mode = FALSE)
      \/ Head(steps).arg = "shift" /\ mode = TRUE /\ hasShift
  BY AtCompute DEF ModesInv
<1>2. tp = IF mode = TRUE THEN "SP_TP" ELSE "TP"
  BY DEF ModesInv, GroupMatchesMode
<1>3. CASE Head(steps).arg = "base" /\ (mode = None \/ mode = FALSE)
  BY <1>2, <1>3, NoneIsOther DEF Models
<1>4. CASE Head(steps).arg = "shift" /\ mode = TRUE /\ hasShift
  BY <1>2, <1>4 DEF Models
<1> QED
  BY <1>1, <1>3, <1>4

LEMMA ComputeKeeps == ModesInv /\ DoCompute => ModesInv'
<1> SUFFICES ASSUME ModesInv, DoCompute PROVE ModesInv'
  OBVIOUS
<1> USE DEF ModesInv
<1> DEFINE m == Head(steps).arg
<1>1. /\ hasShift' = hasShift /\ stage' = stage /\ origTp' = origTp /\ mode' = mode
      /\ tp' = tp /\ model' = model /\ scopes' = scopes /\ cache' = cache
      /\ steps # <<>> /\ Head(steps).do = "compute" /\ steps' = Tail(steps)
      /\ computed' = [model |-> m, mode |-> mode, tp |-> tp, cache |-> cache[m]]
  BY DEF DoCompute
<1>2. m \in Models /\ tp = (IF m = "shift" THEN "SP_TP" ELSE "TP")
  BY <1>1, ComputeInItsGroup
<1>3. After' = After /\ <<>> \in After /\ ExecRest \in After
  BY <1>1 DEF After
<1>4. Nested'
  <2>1. CASE scopes = <<>> /\ mode = None /\ model = "base" /\ Tail(steps) \in After
    <3>1. AtTop'
      BY <1>1, <2>1, OverAtTop DEF TypeOK
    <3> QED
      BY <3>1 DEF Nested
  <2>2. CASE /\ scopes = <<OfDefault>> /\ mode = FALSE /\ model = "base"
             /\ \E x \in After : Tail(steps) = Then(Leave, x)
    <3>1. InBaseMode'
      BY <1>1, <1>3, <2>2, LeftInScopes DEF InBaseMode
    <3> QED
      BY <3>1 DEF Nested
  <2>3. CASE /\ scopes = <<OfDefault>> /\ mode = TRUE /\ model = "base" /\ hasShift
             /\ \E x \in After : Tail(steps) = Then(Leave, x)
    <3>1. InShiftMode'
      BY <1>1, <1>3, <2>3, LeftInScopes DEF InShiftMode
    <3> QED
      BY <3>1 DEF Nested
  <2>4. CASE /\ scopes = <<OfDefault, OfBase>> /\ mode = FALSE /\ model = "base"
             /\ \E x \in {<<>>, ExecRest} : Tail(steps) = Then(Leave, Then(Leave, x))
    <3>1. InBaseForward'
      BY <1>1, <1>3, <2>4, LeftInScopes DEF InBaseForward
    <3> QED
      BY <3>1 DEF Nested
  <2>5. CASE /\ scopes = <<OfSwap, OfDefault>> /\ mode = TRUE /\ model = "shift" /\ hasShift
             /\ Tail(steps) = Then(Leave, Then(Leave, <<>>))
    <3>1. InShiftForward'
      BY <1>1, <1>3, <2>5, LeftInScopes DEF InShiftForward
    <3> QED
      BY <3>1 DEF Nested
  <2> HIDE DEF m
  <2> QED
    BY <1>1, <2>1, <2>2, <2>3, <2>4, <2>5, AtCompute
<1> HIDE DEF m
<1>5. TypeOK'
  <2>1. steps' \in Seq(Steps)
    BY <1>1, TailTypes
  <2>2. cache[m] \in [Layers -> {"base", None}]
    BY <1>2 DEF TypeOK
  <2>3. computed' \in [model : Models, mode : Modes, tp : Groups,
                       cache : [Layers -> {"base", None}]]
    BY <1>1, <1>2, <2>2 DEF TypeOK
  <2> QED
    BY <1>1, <2>1, <2>3 DEF TypeOK
<1>6. ModelsSeeTheirGroup'
  BY <1>1, <1>2 DEF ModelsSeeTheirGroup
<1>7. GroupMatchesMode' /\ CacheBound'
  BY <1>1 DEF GroupMatchesMode, CacheBound
<1> QED
  BY <1>4, <1>5, <1>6, <1>7

LEMMA RaiseKeeps == ModesInv /\ Raise => ModesInv'
<1> SUFFICES ASSUME ModesInv, Raise PROVE ModesInv'
  OBVIOUS
<1> USE DEF ModesInv
<1> DEFINE leave == Leave
           e == <<>>
<1>1. /\ hasShift' = hasShift /\ origTp' = origTp /\ mode' = mode /\ tp' = tp
      /\ model' = model /\ scopes' = scopes /\ computed' = computed /\ cache' = cache
      /\ steps # <<>> /\ Head(steps).do = "compute"
      /\ steps' = [i \in 1 .. Len(scopes) |-> leave]
      /\ stage' \in {"ready", "failed"} /\ (stage' = "ready" => stage = "ready")
  BY DEF Raise
<1>2. After' = After /\ e \in After /\ leave \in Steps
  BY <1>1, StepTypes DEF After
<1>3. /\ Left(Then(leave, e), leave, e) /\ Left(Then(leave, Then(leave, e)), leave, Then(leave, e))
      /\ e \in Seq(Steps) /\ Then(leave, e) \in Seq(Steps)
      /\ Then(leave, Then(leave, e)) \in Seq(Steps)
  <2> HIDE DEF e
  <2> QED
    BY <1>2, LeftInScopes, RestTypes DEF leave
<1> HIDE DEF leave
<1>4. /\ Len(scopes) = 0 => steps' = e
      /\ Len(scopes) = 1 => steps' = Then(leave, e)
      /\ Len(scopes) = 2 => steps' = Then(leave, Then(leave, e))
  <2>1. CASE Len(scopes) = 0
    BY <1>1, <2>1
  <2>2. CASE Len(scopes) = 1
    <3>1. steps' = <<leave>>
      BY <1>1, <2>2
    <3> QED
      BY <1>2, <2>2, <3>1, One
  <2>3. CASE Len(scopes) = 2
    <3>1. steps' = <<leave, leave>>
      BY <1>1, <2>3
    <3> QED
      BY <1>2, <2>3, <3>1, Two
  <2> QED
    BY <2>1, <2>2, <2>3
<1>5. Nested' /\ steps' \in Seq(Steps)
  <2>1. CASE scopes = <<>> /\ mode = None /\ model = "base"
    <3>1. steps' = e
      BY <1>4, <2>1
    <3>2. AtTop'
      BY <1>1, <1>2, <2>1, <3>1, OverAtTop DEF TypeOK
    <3> QED
      BY <1>3, <3>1, <3>2 DEF Nested
  <2>2. CASE scopes = <<OfDefault>> /\ mode = FALSE /\ model = "base"
    <3>1. steps' = Then(leave, e)
      BY <1>4, <2>2
    <3>2. InBaseMode'
      BY <1>1, <1>2, <1>3, <2>2, <3>1 DEF InBaseMode, leave
    <3> QED
      BY <1>3, <3>1, <3>2 DEF Nested
  <2>3. CASE scopes = <<OfDefault>> /\ mode = TRUE /\ model = "base" /\ hasShift
    <3>1. steps' = Then(leave, e)
      BY <1>4, <2>3
    <3>2. InShiftMode'
      BY <1>1, <1>2, <1>3, <2>3, <3>1 DEF InShiftMode, leave
    <3> QED
      BY <1>3, <3>1, <3>2 DEF Nested
  <2>4. CASE scopes = <<OfDefault, OfBase>> /\ mode = FALSE /\ model = "base"
    <3>1. steps' = Then(leave, Then(leave, e))
      BY <1>4, <2>4
    <3>2. InBaseForward'
      BY <1>1, <1>2, <1>3, <2>4, <3>1 DEF InBaseForward, leave
    <3> QED
      BY <1>3, <3>1, <3>2 DEF Nested
  <2>5. CASE scopes = <<OfSwap, OfDefault>> /\ mode = TRUE /\ model = "shift" /\ hasShift
    <3>1. steps' = Then(leave, Then(leave, e))
      BY <1>4, <2>5
    <3>2. InShiftForward'
      BY <1>1, <1>2, <1>3, <2>5, <3>1 DEF InShiftForward, leave
    <3> QED
      BY <1>3, <3>1, <3>2 DEF Nested
  <2> HIDE DEF e
  <2> QED
    BY <1>1, <2>1, <2>2, <2>3, <2>4, <2>5, AtCompute
<1>6. TypeOK'
  BY <1>1, <1>5 DEF TypeOK
<1>7. GroupMatchesMode' /\ ModelsSeeTheirGroup' /\ CacheBound'
  BY <1>1 DEF GroupMatchesMode, ModelsSeeTheirGroup, CacheBound
<1> QED
  BY <1>5, <1>6, <1>7

(* An operation begins where no scope is open.                             *)
LEMMA BeginKeeps ==
    ASSUME ModesInv, NEW before, NEW todo \in Seq(Steps),
           NEW after \in {"loaded", "profiled", "captured", "ready"},
           Begin(before, after, todo),
           after \in {"captured", "ready"} => before \in {"cached", "captured", "ready"}
    PROVE  /\ scopes' = <<>> /\ mode' = None /\ model' = "base" /\ hasShift' = hasShift
           /\ steps' = todo /\ After' = After
           /\ AtTop' => ModesInv'
<1> USE DEF ModesInv
<1>1. /\ hasShift' = hasShift /\ mode' = mode /\ tp' = tp /\ origTp' = origTp
      /\ model' = model /\ scopes' = scopes /\ computed' = computed /\ cache' = cache
      /\ steps' = todo /\ stage' = after /\ scopes = <<>> /\ stage = before
  BY DEF Begin
<1>2. scopes = <<>> /\ mode = None /\ model = "base"
  BY <1>1 DEF Nested, AtTop, InBaseMode, InShiftMode, InBaseForward, InSwap, InShiftForward
<1>3. TypeOK'
  BY <1>1 DEF TypeOK
<1>4. GroupMatchesMode' /\ ModelsSeeTheirGroup' /\ CacheBound'
  BY <1>1 DEF GroupMatchesMode, ModelsSeeTheirGroup, CacheBound
<1>5. After' = After
  BY <1>1 DEF After
<1>6. AtTop' => ModesInv'
  BY <1>3, <1>4 DEF Nested
<1> QED
  BY <1>1, <1>2, <1>5, <1>6

LEMMA LoadKeeps == ModesInv /\ Load => ModesInv'
<1> SUFFICES ASSUME ModesInv, Load PROVE ModesInv'
  OBVIOUS
<1> DEFINE x == IF hasShift THEN LoadRest ELSE <<>>
           base == Compute("base")
<1>1. x \in After /\ base \in Steps
  BY AfterMembers, StepTypes
<1>2. LoadModel = Then(base, x)
  BY Programs
<1> HIDE DEF x, base
<1>3. Then(base, x) \in Seq(Steps) /\ Left(Then(base, x), base, x)
  BY <1>1, RestTypes, ThenIs, LeftThen
<1>4. Begin("new", "loaded", LoadModel)
  BY DEF Load
<1>5. /\ scopes' = <<>> /\ mode' = None /\ model' = "base" /\ hasShift' = hasShift
      /\ steps' = LoadModel /\ After' = After /\ (AtTop' => ModesInv')
  BY <1>2, <1>3, <1>4, BeginKeeps
<1>6. AtTop'
  BY <1>1, <1>2, <1>3, <1>5 DEF AtTop, base
<1> QED
  BY <1>5, <1>6

LEMMA ProfileKeeps == ModesInv /\ Profile => ModesInv'
<1> SUFFICES ASSUME ModesInv, Profile PROVE ModesInv'
  OBVIOUS
<1> DEFINE x == IF hasShift THEN ShiftRest ELSE <<>>
           pass == Forward(None)
<1>1. x \in After /\ pass \in Steps
  BY AfterMembers, StepTypes
<1>2. ProfileRun = Then(pass, x)
  BY Programs
<1> HIDE DEF x, pass
<1>3. Then(pass, x) \in Seq(Steps) /\ Left(Then(pass, x), pass, x)
  BY <1>1, RestTypes, ThenIs, LeftThen
<1>4. Begin("loaded", "profiled", ProfileRun)
  BY DEF Profile
<1>5. /\ scopes' = <<>> /\ mode' = None /\ model' = "base" /\ hasShift' = hasShift
      /\ steps' = ProfileRun /\ After' = After /\ (AtTop' => ModesInv')
  BY <1>2, <1>3, <1>4, BeginKeeps
<1>6. AtTop'
  BY <1>1, <1>2, <1>3, <1>5 DEF AtTop, pass
<1> QED
  BY <1>5, <1>6

LEMMA CaptureKeeps == ModesInv /\ CaptureAll => ModesInv'
<1> SUFFICES ASSUME ModesInv, NEW b \in BOOLEAN, NEW s \in BOOLEAN,
                    Begin("cached", "captured", CaptureGraphs(b, s))
             PROVE  ModesInv'
  BY DEF CaptureAll
<1> DEFINE x == IF hasShift /\ s THEN ShiftRest ELSE <<>>
           pass == Forward(None)
           todo == CaptureGraphs(b, s)
<1>1. x \in After /\ pass \in Steps
  BY AfterMembers, StepTypes
<1>2. todo = IF b THEN Then(pass, x) ELSE x
  BY Programs
<1>3. Begin("cached", "captured", todo)
  OBVIOUS
<1> HIDE DEF x, pass, todo
<1>4. Then(pass, x) \in Seq(Steps) /\ Left(Then(pass, x), pass, x) /\ x \in Seq(Steps)
  BY <1>1, RestTypes, ThenIs, LeftThen
<1>5. todo \in Seq(Steps)
  BY <1>2, <1>4
<1>6. /\ scopes' = <<>> /\ mode' = None /\ model' = "base" /\ hasShift' = hasShift
      /\ steps' = todo /\ After' = After /\ (AtTop' => ModesInv')
  BY <1>3, <1>5, BeginKeeps
<1>7. AtTop'
  <2>1. CASE b
    BY <1>1, <1>2, <1>4, <1>6, <2>1 DEF AtTop, pass
  <2>2. CASE ~b
    BY <1>1, <1>2, <1>6, <2>2, OverAtTop DEF ModesInv, TypeOK
  <2> QED
    BY <2>1, <2>2
<1> QED
  BY <1>6, <1>7

LEMMA ExecuteKeeps == ModesInv /\ Execute => ModesInv'
<1> SUFFICES ASSUME ModesInv, NEW useShift \in {FALSE, hasShift}, NEW before \in {"captured", "ready"},
                    Begin(before, "ready", ExecuteModel(useShift))
             PROVE  ModesInv'
  BY DEF Execute
<1>1. CASE useShift = FALSE
  <2> DEFINE todo == Then(EnterMode(FALSE), Then(Forward("base"), Then(Leave, ExecRest)))
  <2>1. ExecuteModel(useShift) = ExecuteModel(FALSE)
    BY <1>1
  <2>2. Begin(before, "ready", todo)
    BY <2>1, Programs
  <2>3. todo \in Seq(Steps)
    BY LeftOfExecute
  <2>4. Left(todo, EnterMode(FALSE), Then(Forward("base"), Then(Leave, ExecRest)))
    BY LeftOfExecute
  <2> HIDE DEF todo
  <2>5. /\ scopes' = <<>> /\ mode' = None /\ model' = "base" /\ hasShift' = hasShift
        /\ steps' = todo /\ (AtTop' => ModesInv')
    BY <2>2, <2>3, BeginKeeps
  <2>6. AtTop'
    BY <2>4, <2>5 DEF AtTop
  <2> QED
    BY <2>5, <2>6
<1>2. CASE useShift = TRUE /\ hasShift
  <2> DEFINE todo == Then(EnterMode(TRUE), Then(Forward("shift"), Then(Leave, ExecRest)))
  <2>1. ExecuteModel(useShift) = ExecuteModel(TRUE)
    BY <1>2
  <2>2. Begin(before, "ready", todo)
    BY <2>1, Programs
  <2>3. todo \in Seq(Steps)
    BY LeftOfExecute
  <2>4. Left(todo, EnterMode(TRUE), Then(Forward("shift"), Then(Leave, ExecRest)))
    BY LeftOfExecute
  <2> HIDE DEF todo
  <2>5. /\ scopes' = <<>> /\ mode' = None /\ model' = "base" /\ hasShift' = hasShift
        /\ steps' = todo /\ (AtTop' => ModesInv')
    BY <2>2, <2>3, BeginKeeps
  <2>6. AtTop'
    BY <1>2, <2>4, <2>5 DEF AtTop
  <2> QED
    BY <2>5, <2>6
<1> QED
  BY <1>1, <1>2 DEF ModesInv, TypeOK

(* Both models are given the buffers of the base model, if there are two.  *)
LEMMA InitializeKeeps == ModesInv /\ InitializeKvCache => ModesInv'
<1> SUFFICES ASSUME ModesInv, InitializeKvCache PROVE ModesInv'
  OBVIOUS
<1> USE DEF ModesInv
<1>1. /\ hasShift' = hasShift /\ mode' = mode /\ tp' = tp /\ origTp' = origTp
      /\ model' = model /\ scopes' = scopes /\ computed' = computed /\ steps' = steps
      /\ stage' = "cached"
  BY DEF InitializeKvCache
<1>2. /\ cache' \in [Models -> [Layers -> {"base", None}]]
      /\ cache'["base"] = [l \in Layers |-> "base"]
      /\ hasShift => cache'["shift"] = [l \in Layers |-> "base"]
  BY DEF InitializeKvCache, TypeOK, Models
<1>3. After' = After
  BY <1>1 DEF After
<1>4. Nested'
  BY <1>1, <1>3 DEF Nested, AtTop, InBaseMode, InShiftMode, InBaseForward, InSwap, InShiftForward
<1>5. TypeOK' /\ CacheBound'
  BY <1>1, <1>2 DEF TypeOK, CacheBound
<1> QED
  BY <1>1, <1>4, <1>5 DEF GroupMatchesMode, ModelsSeeTheirGroup

LEMMA InitHolds == Init => ModesInv
<1> SUFFICES ASSUME Init PROVE ModesInv
  OBVIOUS
<1>1. TypeOK
  <2>1. scopes \in Seq(Scopes) /\ steps \in Seq(Steps)
    BY DEF Init
  <2>2. cache \in [Models -> [Layers -> {"base", None}]]
    BY DEF Init
  <2> QED
    BY <2>1, <2>2 DEF Init, TypeOK, Modes, Groups, Models
<1>2. AtTop
  BY DEF Init, AtTop
<1>3. GroupMatchesMode
  BY NoneIsOther DEF Init, GroupMatchesMode
<1>4. ModelsSeeTheirGroup /\ CacheBound
  BY DEF Init, ModelsSeeTheirGroup, CacheBound
<1> QED
  BY <1>1, <1>2, <1>3, <1>4 DEF ModesInv, Nested

LEMMA StepHolds == ModesInv /\ [Next]_vars => ModesInv'
<1> SUFFICES ASSUME ModesInv, [Next]_vars PROVE ModesInv'
  OBVIOUS
<1>1. CASE Load
  BY <1>1, LoadKeeps
<1>2. CASE Profile
  BY <1>2, ProfileKeeps
<1>3. CASE InitializeKvCache
  BY <1>3, InitializeKeeps
<1>4. CASE CaptureAll
  BY <1>4, CaptureKeeps
<1>5. CASE Execute
  BY <1>5, ExecuteKeeps
<1>6. CASE DoEnterMode
  BY <1>6, EnterKeeps
<1>7. CASE DoSwapModel
  BY <1>7, SwapKeeps
<1>8. CASE DoLeave
  BY <1>8, LeaveKeeps
<1>9. CASE DoForward
  BY <1>9, ForwardKeeps
<1>10. CASE DoCompute
  BY <1>10, ComputeKeeps
<1>11. CASE Raise
  BY <1>11, RaiseKeeps
<1>12. CASE UNCHANGED vars
  BY ZenonT(30), <1>12 DEF vars, ModesInv, TypeOK, GroupMatchesMode, ModelsSeeTheirGroup, CacheBound, Nested,
              AtTop, InBaseMode, InShiftMode, InBaseForward, InSwap, InShiftForward, After
<1> QED
  BY <1>1, <1>2, <1>3, <1>4, <1>5, <1>6, <1>7, <1>8, <1>9, <1>10, <1>11, <1>12 DEF Next

LEMMA RestoredHolds == ModesInv => RestoredOutsideScopes
<1> SUFFICES ASSUME ModesInv, scopes = <<>> PROVE mode = None /\ tp = "TP" /\ model = "base"
  BY DEF RestoredOutsideScopes
<1>1. mode = None /\ model = "base"
  BY DEF ModesInv, Nested, AtTop, InBaseMode, InShiftMode, InBaseForward, InSwap, InShiftForward
<1> QED
  BY <1>1, NoneIsOther DEF ModesInv, GroupMatchesMode

(* Only a computation changes what was computed last, and in a worker that *)
(* serves it reads the buffers of the base model.                          *)
ShareStep ==
    stage = "ready" /\ computed' # computed =>
        \A l \in Layers : computed'.cache[l] # None /\ computed'.cache[l] = cache["base"][l]

LEMMA ShareHolds == ModesInv /\ [Next]_vars => ShareStep
<1> SUFFICES ASSUME ModesInv, [Next]_vars, stage = "ready", computed' # computed, NEW l \in Layers
             PROVE  computed'.cache[l] # None /\ computed'.cache[l] = cache["base"][l]
  BY DEF ShareStep
<1>1. DoCompute
  BY DEF Next, vars, Load, Profile, CaptureAll, Execute, Begin, InitializeKvCache, DoEnterMode,
         DoSwapModel, DoLeave, DoForward, Raise
<1> DEFINE m == Head(steps).arg
<1>2. computed'.cache = cache[m] /\ steps # <<>> /\ Head(steps).do = "compute"
  BY <1>1 DEF DoCompute
<1>3. m \in Models /\ (m = "shift" => hasShift)
  BY <1>2, ComputeInItsGroup
<1> HIDE DEF m
<1>4. cache["base"][l] = "base" /\ cache[m][l] = "base"
  BY <1>3 DEF ModesInv, CacheBound, Models
<1> QED
  BY <1>2, <1>4, NoneIsOther

(* set_shift_parallel_mode and its uses: however scopes are nested, and    *)
(* whichever of them an exception leaves, the group in force is the one of *)
(* the mode, each model computes with the group its weights are split      *)
(* over, everything is restored once no scope is open, and both models     *)
(* read and write the same buffers while the worker serves.                *)
THEOREM ModesAreSound == Spec => ModesSound
<1>1. Spec => []ModesInv
  BY InitHolds, StepHolds, PTL DEF Spec
<1>2. ModesInv => TypeOK /\ GroupMatchesMode /\ RestoredOutsideScopes /\ ModelsSeeTheirGroup
  BY RestoredHolds DEF ModesInv
<1>3. ModesInv /\ [Next]_vars => [ShareStep]_vars
  BY ShareHolds
<1>4. Spec => [](TypeOK /\ GroupMatchesMode /\ RestoredOutsideScopes /\ ModelsSeeTheirGroup)
  BY <1>1, <1>2, PTL
<1>5. Spec => [][ShareStep]_vars
  BY <1>1, <1>3, PTL DEF Spec
<1> QED
  BY <1>4, <1>5 DEF ModesSound, ModelsShareCache, ShareStep

-----------------------------------------------------------------------------
(* Patching.  A process is described by what its interpreter has gone      *)
(* through: nothing, the plugin, or the plugin and a worker's constructor. *)

PluginEntries == UNION {Patching!Entries(q) : q \in Patching!GeneralPatches}
RunnerEntries == Patching!Entries(Patching!ModelRunner)
AllEntries == PluginEntries \cup RunnerEntries

Interpreter ==
  [up : BOOLEAN, role : {"main", "core", "worker"}, loaded : BOOLEAN,
   registry : {{}, PluginEntries, AllEntries}, cuda : BOOLEAN,
   workers : 0 .. MaxWorkers, failed : BOOLEAN, patchedEntry : BOOLEAN]

Accepted == installed.version /\ installed.platform

\* What the plugin has made of interpreter i, given that it is on or off.
Kept(i) ==
  /\ ~i.loaded => i.registry = {} /\ ~i.failed /\ i.workers = 0
  /\ i.loaded /\ ~installed.enabled => i.registry = {} /\ ~i.failed
  /\ i.loaded /\ installed.enabled /\ Accepted => i.registry # {}
  /\ installed.enabled /\ ~Accepted => i.registry = {} /\ i.workers = 0
  /\ i.loaded /\ installed.enabled /\ ~Accepted => i.failed
  /\ i.failed /\ Accepted => i.workers > 0
  /\ i.registry = AllEntries <=> installed.enabled /\ i.workers > 0
  /\ i.workers > 0 => i.cuda
  /\ i.role = "core" =>
       /\ (i.patchedEntry <=> installed.enabled)
       /\ installed.enabled => Accepted

PatchingInv ==
  /\ installed \in [enabled : BOOLEAN, version : BOOLEAN, platform : BOOLEAN]
  /\ proc \in [Procs -> Interpreter]
  /\ \A p \in Procs : Kept(proc[p])

\* The patches are of different targets, and none is empty.
LEMMA PatchesAreDistinct ==
  /\ \A q \in Patching!GeneralPatches : Patching!Entries(q) # {}
  /\ \A q, r \in Patching!GeneralPatches : q # r => Patching!Entries(q) \cap Patching!Entries(r) = {}
  /\ RunnerEntries # {} /\ RunnerEntries \cap PluginEntries = {}
  /\ PluginEntries # {} /\ AllEntries # PluginEntries /\ AllEntries # {}
  /\ Patching!EngineCore \in Patching!GeneralPatches
  /\ Patching!WorkerBase \in Patching!GeneralPatches
<1> USE DEF Patching!GeneralPatches, Patching!EngineCore, Patching!WorkerBase,
            Patching!Configuration, Patching!ModelRunner, Patching!Patch
<1>1. \A q \in Patching!GeneralPatches : Patching!Entries(q) # {}
  <2>1. \A q \in Patching!GeneralPatches : q.names # {}
    OBVIOUS
  <2> QED
    BY <2>1 DEF Patching!Entries
<1>2. \A q, r \in Patching!GeneralPatches : q # r => q.target # r.target
  OBVIOUS
<1>3. \A q \in Patching!GeneralPatches : q.target # "GPUModelRunner"
  OBVIOUS
<1>4. \A q : \A e \in Patching!Entries(q) : e[1] = q.target
  BY DEF Patching!Entries
<1>5. \A q, r \in Patching!GeneralPatches : q # r => Patching!Entries(q) \cap Patching!Entries(r) = {}
  BY <1>2, <1>4
<1>6. RunnerEntries # {}
  BY DEF RunnerEntries, Patching!Entries
<1>7. RunnerEntries \cap PluginEntries = {}
  BY <1>3, <1>4 DEF RunnerEntries, PluginEntries
<1>8. Patching!EngineCore \in Patching!GeneralPatches /\ Patching!WorkerBase \in Patching!GeneralPatches
  OBVIOUS
<1>9. PluginEntries # {}
  BY <1>1, <1>8 DEF PluginEntries
<1>10. AllEntries # PluginEntries /\ AllEntries # {}
  BY <1>6, <1>7, <1>9 DEF AllEntries
<1> QED
  BY <1>1, <1>5, <1>6, <1>7, <1>8, <1>9, <1>10

\* Of a registry that is as it may be, what the plugin's code asks.
LEMMA RegistryLooksUp ==
  ASSUME NEW i \in Interpreter
  PROVE  /\ \A q \in Patching!GeneralPatches :
              /\ Patching!Entries(q) \subseteq i.registry <=> i.registry # {}
              /\ Patching!Conflicts(i.registry, q) <=> i.registry # {}
         /\ Patching!Conflicts(i.registry, Patching!ModelRunner) <=> i.registry = AllEntries
<1>0. i.registry \in {{}, PluginEntries, AllEntries}
  BY DEF Interpreter
<1>1. \A q \in Patching!GeneralPatches : Patching!Entries(q) \subseteq PluginEntries
  BY DEF PluginEntries
<1>2. PluginEntries \subseteq AllEntries /\ RunnerEntries \subseteq AllEntries
  BY DEF AllEntries
<1> QED
  BY <1>0, <1>1, <1>2, PatchesAreDistinct DEF Patching!Conflicts, RunnerEntries

\* Loading the plugins, in a process that has not failed.
LEMMA LoadingKeeps ==
  ASSUME installed \in [enabled : BOOLEAN, version : BOOLEAN, platform : BOOLEAN],
         NEW i \in Interpreter, Kept(i)
  PROVE  /\ Patching!Loaded(i) \in Interpreter
         /\ Kept(Patching!Loaded(i))
<1>1. CASE i.loaded
  BY <1>1 DEF Patching!Loaded
<1>2. CASE ~i.loaded
  <2> DEFINE j == [i EXCEPT !.loaded = TRUE]
  <2>1. j \in Interpreter /\ j.registry = {} /\ j.loaded /\ ~j.failed /\ j.workers = 0
    BY <1>2 DEF Interpreter, Kept
  <2>2. j.role = i.role /\ (j.patchedEntry <=> i.patchedEntry)
    BY DEF Interpreter
  <2>3. Patching!Loaded(i) = Patching!Plugin(j)
    BY <1>2 DEF Patching!Loaded
  <2> DEFINE k == Patching!Loaded(i)
  <2> HIDE DEF j
  <2>4. /\ k \in Interpreter
        /\ k.role = i.role /\ (k.patchedEntry <=> i.patchedEntry)
        /\ k.loaded /\ k.workers = 0
        /\ k.registry = IF installed.enabled /\ Accepted THEN PluginEntries ELSE {}
        /\ (k.failed <=> installed.enabled /\ ~Accepted)
    <3>1. CASE ~installed.enabled
      <4>1. Patching!Plugin(j) = j
        BY <3>1 DEF Patching!Plugin
      <4> QED
        BY <2>1, <2>2, <2>3, <3>1, <4>1 DEF Interpreter
    <3>2. CASE installed.enabled /\ ~Accepted
      <4>1. Patching!Plugin(j) = [j EXCEPT !.failed = TRUE]
        BY <3>2 DEF Patching!Plugin, Accepted
      <4> QED
        BY <2>1, <2>2, <2>3, <3>2, <4>1 DEF Interpreter
    <3>3. CASE installed.enabled /\ Accepted
      <4>1. Patching!Plugin(j) = Patching!Patched(j)
        BY <3>3 DEF Patching!Plugin, Accepted
      <4>2. ~ \E q \in Patching!GeneralPatches :
                \/ Patching!Conflicts(j.registry, q)
                \/ \E r \in Patching!GeneralPatches \ {q} : Patching!Conflicts(Patching!Entries(r), q)
        BY <2>1, PatchesAreDistinct DEF Patching!Conflicts
      <4>3. Patching!Patched(j) = [j EXCEPT !.registry = PluginEntries, !.failed = FALSE]
        BY <2>1, <4>2 DEF Patching!Patched, PluginEntries
      <4> DEFINE m == [j EXCEPT !.registry = PluginEntries]
      <4>4. /\ m \in Interpreter /\ m.registry = PluginEntries
            /\ m.role = j.role /\ (m.patchedEntry <=> j.patchedEntry)
            /\ m.loaded /\ m.workers = 0
        BY <2>1 DEF Interpreter
      <4>5. Patching!Loaded(i) = [m EXCEPT !.failed = FALSE]
        BY <2>3, <4>1, <4>3
      <4> HIDE DEF m
      <4> QED
        BY <2>2, <3>3, <4>4, <4>5 DEF Interpreter
    <3> QED
      BY <3>1, <3>2, <3>3
  <2> HIDE DEF k
  <2>5. Kept(k)
    BY <2>4, PatchesAreDistinct DEF Kept
  <2> QED
    BY <2>4, <2>5 DEF k
<1> QED
  BY <1>1, <1>2

\* A child, forked or spawned, of a process that has loaded the plugins.
LEMMA ChildrenKeep ==
  ASSUME PatchingInv, MaxWorkers \in Nat, NEW p \in Procs, NEW how \in {"fork", "spawn"},
         Patching!Runs(p, "main") \/ Patching!Runs(p, "core"),
         proc[p].loaded, how = "fork" => ~proc[p].cuda
  PROVE  /\ Patching!Child(p, how) \in Interpreter
         /\ Kept(Patching!Child(p, how))
<1> DEFINE from == IF how = "fork" THEN proc[p] ELSE Patching!Fresh
           role == IF proc[p].role = "main" THEN "core" ELSE "worker"
           c == Patching!Child(p, how)
<1>1. proc[p] \in Interpreter /\ Kept(proc[p]) /\ ~proc[p].failed
  BY DEF PatchingInv, Patching!Runs
<1>2. from \in Interpreter
  BY <1>1 DEF Interpreter, Patching!Fresh
<1>3. /\ installed.enabled => Accepted
      /\ Patching!Applied(p, Patching!EngineCore) <=> installed.enabled
  BY <1>1, RegistryLooksUp, PatchesAreDistinct DEF Patching!Applied, Kept
<1>4. /\ ~from.loaded => from.registry = {}
      /\ from.loaded /\ ~installed.enabled => from.registry = {}
      /\ from.loaded /\ installed.enabled => from.registry # {}
      /\ ~from.failed /\ from.registry # AllEntries
  <2>1. CASE how = "fork"
    BY <1>1, <1>3, <2>1 DEF Kept, Interpreter
  <2>2. CASE how = "spawn"
    BY <2>2, PatchesAreDistinct DEF Patching!Fresh
  <2> QED
    BY <2>1, <2>2
<1>5. c = [from EXCEPT !.role = role, !.workers = 0,
                       !.patchedEntry = Patching!Applied(p, Patching!EngineCore)]
  BY DEF Patching!Child
<1>6. role \in {"main", "core", "worker"}
  OBVIOUS
<1> HIDE DEF from, role
<1> DEFINE a == [from EXCEPT !.role = role]
           b == [a EXCEPT !.workers = 0]
<1>7. /\ a \in Interpreter /\ a.role = role /\ a.registry = from.registry
      /\ (a.loaded <=> from.loaded) /\ ~a.failed
  BY <1>2, <1>4, <1>6 DEF Interpreter
<1> HIDE DEF a
<1>8. /\ b \in Interpreter /\ b.workers = 0 /\ b.registry = from.registry
      /\ (b.loaded <=> from.loaded) /\ ~b.failed
  BY <1>7 DEF Interpreter
<1>9. c = [b EXCEPT !.patchedEntry = Patching!Applied(p, Patching!EngineCore)]
  BY <1>5 DEF a
<1>10. Patching!Applied(p, Patching!EngineCore) \in BOOLEAN
  BY DEF Patching!Applied
<1> HIDE DEF b, c
<1>11. /\ c \in Interpreter /\ c.workers = 0 /\ c.registry = from.registry
       /\ (c.loaded <=> from.loaded) /\ ~c.failed
       /\ (c.patchedEntry <=> installed.enabled)
  BY <1>3, <1>8, <1>9, <1>10 DEF Interpreter
<1>12. Kept(c)
  BY <1>3, <1>4, <1>11 DEF Kept
<1> QED
  BY <1>11, <1>12 DEF c

\* The constructor of a worker, in a process that has loaded the plugins.
LEMMA ConstructingKeeps ==
  ASSUME MaxWorkers \in Nat, NEW i \in Interpreter, Kept(i),
         ~i.failed, i.loaded, i.workers < MaxWorkers
  PROVE  /\ Patching!Constructed(i) \in Interpreter
         /\ Kept(Patching!Constructed(i))
<1> DEFINE k == Patching!Constructed(i)
<1>1. Patching!Entries(Patching!WorkerBase) \subseteq i.registry <=> installed.enabled
  BY RegistryLooksUp, PatchesAreDistinct DEF Kept
<1>2. Patching!Conflicts(i.registry, Patching!ModelRunner) <=> i.registry = AllEntries
  BY RegistryLooksUp
<1>3. i.workers \in 0 .. MaxWorkers /\ i.workers + 1 \in 0 .. MaxWorkers
  BY DEF Interpreter
<1>4. CASE ~installed.enabled
  <2>1. k = [i EXCEPT !.cuda = TRUE, !.workers = i.workers + 1]
    BY <1>1, <1>4 DEF Patching!Constructed
  <2>2. /\ k \in Interpreter /\ k.cuda /\ k.workers = i.workers + 1
        /\ k.registry = i.registry /\ k.role = i.role /\ (k.loaded <=> i.loaded)
        /\ (k.failed <=> i.failed) /\ (k.patchedEntry <=> i.patchedEntry)
    BY <1>3, <2>1 DEF Interpreter
  <2> HIDE DEF k
  <2>3. Kept(k)
    BY <1>3, <1>4, <2>2, PatchesAreDistinct DEF Kept
  <2> QED
    BY <2>2, <2>3 DEF k
<1>5. CASE installed.enabled /\ i.registry = AllEntries
  <2>1. k = [i EXCEPT !.failed = TRUE]
    BY <1>1, <1>2, <1>5 DEF Patching!Constructed
  <2>2. /\ k \in Interpreter /\ k.failed /\ k.workers = i.workers
        /\ k.registry = i.registry /\ k.role = i.role /\ (k.loaded <=> i.loaded)
        /\ (k.cuda <=> i.cuda) /\ (k.patchedEntry <=> i.patchedEntry)
    BY <2>1 DEF Interpreter
  <2> HIDE DEF k
  <2>3. Kept(k)
    BY <1>3, <1>5, <2>2 DEF Kept
  <2> QED
    BY <2>2, <2>3 DEF k
<1>6. CASE installed.enabled /\ i.registry # AllEntries
  <2>1. k = [i EXCEPT !.registry = i.registry \cup RunnerEntries, !.cuda = TRUE,
                      !.workers = i.workers + 1]
    BY <1>1, <1>2, <1>6 DEF Patching!Constructed, RunnerEntries
  <2>2. i.registry \cup RunnerEntries = AllEntries
    BY <1>6 DEF Kept, Interpreter, AllEntries
  <2> DEFINE a == [i EXCEPT !.registry = AllEntries]
  <2>3. /\ a \in Interpreter /\ a.workers = i.workers /\ a.registry = AllEntries
        /\ a.role = i.role /\ (a.loaded <=> i.loaded)
        /\ (a.failed <=> i.failed) /\ (a.patchedEntry <=> i.patchedEntry)
    BY DEF Interpreter
  <2>4. k = [a EXCEPT !.cuda = TRUE, !.workers = i.workers + 1]
    BY <2>1, <2>2
  <2> HIDE DEF a, k
  <2>5. /\ k \in Interpreter /\ k.cuda /\ k.workers = i.workers + 1
        /\ k.registry = AllEntries /\ k.role = i.role /\ (k.loaded <=> i.loaded)
        /\ (k.failed <=> i.failed) /\ (k.patchedEntry <=> i.patchedEntry)
    BY <1>3, <2>3, <2>4 DEF Interpreter
  <2>6. Kept(k)
    BY <1>3, <1>6, <2>5, PatchesAreDistinct DEF Kept
  <2> QED
    BY <2>5, <2>6 DEF k
<1> QED
  BY <1>4, <1>5, <1>6

LEMMA PatchingStarts ==
  ASSUME Patching!PatchingAssumption, Patching!Init
  PROVE  PatchingInv
<1>1. Patching!Fresh \in Interpreter /\ Kept(Patching!Fresh)
  BY PatchesAreDistinct DEF Patching!Fresh, Patching!PatchingAssumption, Interpreter, Kept
<1>2. Patching!Off \in Interpreter /\ Kept(Patching!Off)
  BY <1>1, PatchesAreDistinct
     DEF Patching!Fresh, Patching!Off, Patching!PatchingAssumption, Interpreter, Kept
<1> QED
  BY <1>1, <1>2 DEF Patching!Init, PatchingInv

\* A step gives one process a new interpreter and leaves the others alone.
LEMMA OneProcessMoves ==
  ASSUME PatchingInv, UNCHANGED installed, NEW p, NEW i \in Interpreter, Kept(i),
         proc' = [proc EXCEPT ![p] = i]
  PROVE  PatchingInv'
<1>1. proc' \in [Procs -> Interpreter]
  BY DEF PatchingInv, Interpreter
<1>2. \A q \in Procs : proc'[q] = i \/ proc'[q] = proc[q]
  BY DEF PatchingInv
<1>3. \A q \in Procs : Kept(proc[q])'
  BY <1>2 DEF PatchingInv, Kept, Accepted
<1>4. Interpreter' = Interpreter
  BY DEF Interpreter
<1> QED
  BY <1>1, <1>3, <1>4 DEF PatchingInv

LEMMA PatchingStep ==
  ASSUME Patching!PatchingAssumption, PatchingInv, Patching!Next
  PROVE  PatchingInv'
<1>0. Main \in Procs /\ MaxWorkers \in Nat
  BY DEF Patching!PatchingAssumption
<1>1. \A p \in Procs : proc[p] \in Interpreter /\ Kept(proc[p])
  BY DEF PatchingInv
<1>2. installed \in [enabled : BOOLEAN, version : BOOLEAN, platform : BOOLEAN]
  BY DEF PatchingInv
<1>3. \A p \in Procs : Patching!Loaded(proc[p]) \in Interpreter /\ Kept(Patching!Loaded(proc[p]))
  BY <1>1, <1>2, LoadingKeeps
<1>4. CASE Patching!LoadInMain
  BY <1>0, <1>3, <1>4, OneProcessMoves DEF Patching!LoadInMain
<1>5. ASSUME NEW p \in Procs, Patching!RunEngineCore(p) PROVE PatchingInv'
  <2> DEFINE i == proc[p]
             j == [i EXCEPT !.loaded = TRUE]
  <2>1. i.role = "core" /\ ~i.failed /\ i.workers = 0
    BY <1>5 DEF Patching!RunEngineCore, Patching!Runs
  <2>2. CASE i.patchedEntry
    <3>1. proc' = [proc EXCEPT ![p] = Patching!Loaded(i)] /\ UNCHANGED installed
      BY <1>5, <2>2 DEF Patching!RunEngineCore
    <3> QED
      BY <1>3, <3>1, OneProcessMoves
  <2>3. CASE ~i.patchedEntry
    <3>1. proc' = [proc EXCEPT ![p] = j] /\ UNCHANGED installed
      BY <1>5, <2>3 DEF Patching!RunEngineCore
    <3>2. i \in Interpreter /\ Kept(i)
      BY <1>1
    <3> HIDE DEF i
    <3>3. /\ j \in Interpreter /\ j.loaded /\ j.workers = 0 /\ j.registry = i.registry
          /\ (j.failed <=> i.failed) /\ j.role = i.role /\ (j.patchedEntry <=> i.patchedEntry)
      BY <2>1, <3>2 DEF Interpreter
    <3> HIDE DEF j
    <3>4. Kept(j)
      BY <2>1, <2>3, <3>2, <3>3 DEF Kept
    <3> QED
      BY <3>1, <3>3, <3>4, OneProcessMoves
  <2> QED
    BY <2>2, <2>3
<1>6. ASSUME NEW p \in Procs, Patching!RunWorkerProc(p) PROVE PatchingInv'
  BY <1>3, <1>6, OneProcessMoves DEF Patching!RunWorkerProc
<1>7. ASSUME NEW p \in Procs, Patching!ConstructWorker(p) PROVE PatchingInv'
  <2>1. ~proc[p].failed /\ proc[p].loaded /\ proc[p].workers < MaxWorkers
    BY <1>7 DEF Patching!ConstructWorker
  <2>2. /\ Patching!Constructed(proc[p]) \in Interpreter
        /\ Kept(Patching!Constructed(proc[p]))
    BY <1>0, <1>1, <2>1, ConstructingKeeps
  <2> QED
    BY <1>7, <2>2, OneProcessMoves DEF Patching!ConstructWorker
<1>8. ASSUME NEW p \in Procs, NEW q \in Procs, NEW how \in {"fork", "spawn"},
             Patching!Start(p, q, how)
      PROVE  PatchingInv'
  <2>1. Patching!Child(p, how) \in Interpreter /\ Kept(Patching!Child(p, how))
    BY <1>0, <1>8, ChildrenKeep DEF Patching!Start
  <2> QED
    BY <1>8, <2>1, OneProcessMoves DEF Patching!Start
<1> QED
  BY <1>4, <1>5, <1>6, <1>7, <1>8 DEF Patching!Next

LEMMA PatchingSafe ==
  ASSUME PatchingInv
  PROVE  /\ Patching!TypeOK /\ Patching!WorkersArePatched
         /\ Patching!OnlyASecondWorkerFails /\ Patching!RefusedInstallationsDoNotRun
<1>1. \A p \in Procs : proc[p] \in Interpreter /\ Kept(proc[p])
  BY DEF PatchingInv
<1>2. \A e \in AllEntries : \E q \in Patching!GeneralPatches \cup {Patching!ModelRunner} :
        e \in Patching!Entries(q)
  BY DEF AllEntries, PluginEntries, RunnerEntries
<1>3. Patching!TypeOK
  BY <1>1, <1>2 DEF Patching!TypeOK, PatchingInv, Interpreter, AllEntries
<1>4. Patching!WorkersArePatched
  BY <1>1 DEF Patching!WorkersArePatched, Patching!Applied, Kept, AllEntries, PluginEntries,
              RunnerEntries
<1>5. Patching!OnlyASecondWorkerFails
  BY <1>1 DEF Patching!OnlyASecondWorkerFails, Kept, Accepted, Interpreter
<1>6. Patching!RefusedInstallationsDoNotRun
  BY <1>1 DEF Patching!RefusedInstallationsDoNotRun, Kept, Accepted, Interpreter
<1> QED
  BY <1>3, <1>4, <1>5, <1>6

(* The patches, for any number of processes, forked or spawned, and of     *)
(* workers constructed in each.                                            *)
THEOREM EveryWorkerIsPatched ==
  ASSUME Patching!PatchingAssumption
  PROVE  Patching!Spec =>
           [](/\ Patching!TypeOK /\ Patching!WorkersArePatched
              /\ Patching!OnlyASecondWorkerFails /\ Patching!RefusedInstallationsDoNotRun)
<1>1. PatchingInv /\ UNCHANGED patchingVars => PatchingInv'
  BY DEF patchingVars, PatchingInv, Kept, Accepted, Interpreter
<1>2. PatchingInv /\ [Patching!Next]_patchingVars => PatchingInv'
  BY <1>1, PatchingStep
<1>3. Patching!Init => PatchingInv
  BY PatchingStarts
<1> QED
  BY <1>2, <1>3, PatchingSafe, PTL DEF Patching!Spec, Patching!vars, patchingVars

(* PatchedOnce, of the engine's composition.                               *)
THEOREM EnginePatchesOnce == MCSpec => []PatchedOnce
<1> DEFINE On == part = "patching"
           Safe == /\ Patching!TypeOK /\ Patching!WorkersArePatched
                   /\ Patching!OnlyASecondWorkerFails /\ Patching!RefusedInstallationsDoNotRun
<1>1. On /\ [MCNext]_MCvars => On'
  BY DEF MCNext, Rest, MCvars
<1>2. ~On /\ [MCNext]_MCvars => ~On'
  BY DEF MCNext, Rest, MCvars
<1>3. On /\ MCInit => Patching!Init
  BY DEF MCInit
<1>4. On /\ [MCNext]_MCvars => [Patching!Next]_(Patching!vars)
  BY DEF MCNext, MCvars, patchingVars, Patching!vars
<1>5. Patching!Spec => []Safe
  BY PatchesAssumption, EveryWorkerIsPatched
<1>6. (On => Safe) => PatchedOnce
  BY DEF PatchedOnce
<1> HIDE DEF On, Safe
<1> QED
  BY <1>1, <1>2, <1>3, <1>4, <1>5, <1>6, PTL DEF MCSpec, Patching!Spec

-----------------------------------------------------------------------------
(* BatchRouting.  A batch's tokens are added up by a fold, in an order the  *)
(* library leaves open.                                                    *)

LEMMA Least ==
  ASSUME NEW T, T \subseteq Nat, T # {}
  PROVE  \E x \in T : \A y \in T : x <= y
<1>1. PICK R : /\ IsWellFoundedOn(R, Nat)
               /\ \A x, y \in Nat : <<y, x>> \in R <=> y < x
  <2> DEFINE R == OpToRel(<, Nat)
  <2>1. IsWellFoundedOn(R, Nat)
    BY NatLessThanWellFounded
  <2>2. \A x, y \in Nat : <<y, x>> \in R <=> y < x
    BY DEF OpToRel
  <2> QED
    BY <2>1, <2>2
<1>2. PICK x \in T : \A y \in T : ~(<<y, x>> \in R)
  BY <1>1, WFMin
<1>3. ASSUME NEW y \in T PROVE x <= y
  <2>1. ~(y < x) /\ x \in Nat /\ y \in Nat
    BY <1>1, <1>2
  <2> QED
    BY <2>1
<1> QED
  BY <1>3

\* h is what a fold computes on the way to the sum of f: a sum for each set in D.
Pick(s) == CHOOSE x \in s : TRUE
SumsOver(D, f, h) == h = [s \in D |-> IF s = {} THEN 0 ELSE f[Pick(s)] + h[s \ {Pick(s)}]]

Smaller(S, m) == {s \in SUBSET S : Cardinality(s) <= m}

LEMMA PickSmaller ==
  ASSUME NEW S, IsFiniteSet(S), NEW s \in SUBSET S, s # {}
  PROVE  /\ Pick(s) \in s /\ s \ {Pick(s)} \in SUBSET S
         /\ IsFiniteSet(s) /\ Cardinality(s) \in Nat /\ Cardinality(s \ {Pick(s)}) = Cardinality(s) - 1
<1>1. Pick(s) \in s
  BY DEF Pick
<1>2. IsFiniteSet(s)
  BY FS_Subset
<1>3. Cardinality(s) \in Nat
  BY <1>2, FS_CardinalityType
<1>4. Cardinality(s \ {Pick(s)}) = Cardinality(s) - 1
  BY <1>1, <1>2, FS_RemoveElement
<1> QED
  BY <1>1, <1>2, <1>3, <1>4

LEMMA SmallestSet ==
  ASSUME NEW S, IsFiniteSet(S), NEW T, T \subseteq SUBSET S, T # {}
  PROVE  \E s \in T : /\ \A t \in T : Cardinality(s) <= Cardinality(t)
                      /\ s # {} => s \ {Pick(s)} \notin T
<1> DEFINE Counts == {Cardinality(t) : t \in T}
<1>1. \A t \in T : Cardinality(t) \in Nat
  BY FS_Subset, FS_CardinalityType
<1>2. Counts \subseteq Nat /\ Counts # {}
  BY <1>1
<1>3. PICK n \in Counts : \A k \in Counts : n <= k
  BY <1>2, Least
<1>4. PICK s \in T : \A t \in T : Cardinality(s) <= Cardinality(t)
  BY <1>3
<1>5. s # {} => s \ {Pick(s)} \notin T
  BY <1>1, <1>4, PickSmaller
<1> QED
  BY <1>4, <1>5

LEMMA SumsExist ==
  ASSUME NEW S, IsFiniteSet(S), NEW f
  PROVE  \E h : SumsOver(SUBSET S, f, h)
<1> DEFINE D(m) == Smaller(S, m)
           Bad == {m \in Nat : ~ \E h : SumsOver(D(m), f, h)}
<1>0. \A s \in SUBSET S : IsFiniteSet(s) /\ Cardinality(s) \in Nat /\ Cardinality(s) <= Cardinality(S)
  BY FS_Subset, FS_CardinalityType
<1>1. \E h : SumsOver(D(0), f, h)
  <2>1. D(0) = {{}}
    <3>1. \A s \in SUBSET S : Cardinality(s) <= 0 <=> s = {}
      BY <1>0, FS_EmptySet
    <3> QED
      BY <3>1 DEF Smaller
  <2> DEFINE h == [s \in {{}} |-> 0]
  <2>2. SumsOver(D(0), f, h)
    BY <2>1 DEF SumsOver
  <2> QED
    BY <2>2
<1>2. ASSUME NEW m \in Nat, NEW h, SumsOver(D(m), f, h)
      PROVE  \E g : SumsOver(D(m + 1), f, g)
  <2> DEFINE g == [s \in D(m + 1) |-> IF s = {} THEN 0 ELSE f[Pick(s)] + h[s \ {Pick(s)}]]
  <2>1. D(m) \subseteq D(m + 1)
    BY <1>0 DEF Smaller
  <2>2. \A s \in D(m) : g[s] = h[s]
    BY <1>2, <2>1 DEF SumsOver
  <2>3. \A s \in D(m + 1) : s # {} => s \ {Pick(s)} \in D(m)
    BY PickSmaller DEF Smaller
  <2>4. \A s \in D(m + 1) : (IF s = {} THEN 0 ELSE f[Pick(s)] + h[s \ {Pick(s)}])
                          = (IF s = {} THEN 0 ELSE f[Pick(s)] + g[s \ {Pick(s)}])
    BY <2>2, <2>3
  <2>5. SumsOver(D(m + 1), f, g)
    BY <2>4 DEF SumsOver
  <2> QED
    BY <2>5
<1>3. Bad = {}
  <2> SUFFICES ASSUME Bad # {} PROVE FALSE
    OBVIOUS
  <2>1. PICK m \in Bad : \A n \in Bad : m <= n
    BY Least
  <2>2. m \in Nat /\ m # 0
    BY <1>1
  <2>3. m - 1 \in Nat /\ (m - 1) + 1 = m /\ m - 1 \notin Bad
    BY <2>1, <2>2
  <2>4. PICK h : SumsOver(D(m - 1), f, h)
    BY <2>3
  <2>5. \E g : SumsOver(D((m - 1) + 1), f, g)
    BY <1>2, <2>3, <2>4
  <2> QED
    BY <2>1, <2>3, <2>5
<1>4. Cardinality(S) \in Nat /\ D(Cardinality(S)) = SUBSET S
  BY <1>0, FS_CardinalityType DEF Smaller
<1>5. Cardinality(S) \notin Bad
  BY <1>3
<1> QED
  BY <1>4, <1>5

\* g adds up f in whatever order.
AddsUp(S, f, g) ==
  /\ g \in [SUBSET S -> Nat] /\ g[{}] = 0
  /\ \A s \in SUBSET S : \A x \in s : g[s] = f[x] + g[s \ {x}]

\* The order of the fold does not matter.
LEMMA SumsAgree ==
  ASSUME NEW S, IsFiniteSet(S), NEW f, NEW h, SumsOver(SUBSET S, f, h),
         NEW g, AddsUp(S, f, g)
  PROVE  \A s \in SUBSET S : h[s] = g[s]
<1> DEFINE Bad == {s \in SUBSET S : h[s] # g[s]}
<1> SUFFICES ASSUME Bad # {} PROVE FALSE
  OBVIOUS
<1>1. Bad \subseteq SUBSET S
  OBVIOUS
<1>a. \E s \in Bad : s # {} => s \ {Pick(s)} \notin Bad
  <2> HIDE DEF Bad
  <2> QED
    BY <1>1, SmallestSet
<1>2. PICK s \in Bad : s # {} => s \ {Pick(s)} \notin Bad
  BY <1>a
<1>3. h[{}] = 0
  BY DEF SumsOver
<1>4. s # {} /\ s \in SUBSET S
  BY <1>3 DEF AddsUp
<1>5. Pick(s) \in s /\ s \ {Pick(s)} \in SUBSET S
  BY <1>4, PickSmaller
<1>6. s \ {Pick(s)} \notin Bad
  BY <1>2, <1>4
<1>7. h[s] = f[Pick(s)] + h[s \ {Pick(s)}]
  BY <1>4 DEF SumsOver
<1>8. g[s] = f[Pick(s)] + g[s \ {Pick(s)}]
  BY <1>4, <1>5 DEF AddsUp
<1> QED
  BY <1>2, <1>4, <1>5, <1>6, <1>7, <1>8

LEMMA SumsAreNat ==
  ASSUME NEW S, IsFiniteSet(S), NEW f \in [S -> Nat], NEW h, SumsOver(SUBSET S, f, h)
  PROVE  \A s \in SUBSET S : h[s] \in Nat
<1> DEFINE Bad == {s \in SUBSET S : h[s] \notin Nat}
<1> SUFFICES ASSUME Bad # {} PROVE FALSE
  OBVIOUS
<1>1. Bad \subseteq SUBSET S
  OBVIOUS
<1>a. \E s \in Bad : s # {} => s \ {Pick(s)} \notin Bad
  <2> HIDE DEF Bad
  <2> QED
    BY <1>1, SmallestSet
<1>2. PICK s \in Bad : s # {} => s \ {Pick(s)} \notin Bad
  BY <1>a
<1>3. h[{}] = 0
  BY DEF SumsOver
<1>4. s # {} /\ s \in SUBSET S
  BY <1>3
<1>5. Pick(s) \in s /\ s \ {Pick(s)} \in SUBSET S
  BY <1>4, PickSmaller
<1>6. s \ {Pick(s)} \notin Bad
  BY <1>2, <1>4
<1>7. h[s] = f[Pick(s)] + h[s \ {Pick(s)}]
  BY <1>4 DEF SumsOver
<1> QED
  BY <1>2, <1>4, <1>5, <1>6, <1>7

LEMMA TotalIsASum ==
  ASSUME NEW S, IsFiniteSet(S), NEW f \in [S -> Nat]
  PROVE  \E h : SumsOver(SUBSET S, f, h) /\ Routing!Total(f) = h[S]
<1> DEFINE h == CHOOSE h : SumsOver(SUBSET S, f, h)
<1>1. SumsOver(SUBSET S, f, h)
  BY SumsExist
<1>2. DOMAIN f = S
  OBVIOUS
<1>3. Routing!Total(f) = h[S]
  BY <1>2, Zenon DEF Routing!Total, Routing!FoldFunction, Routing!FoldFunctionOnSet, Routing!MapThenFoldSet, SumsOver, Pick
<1> HIDE DEF h
<1> QED
  BY <1>1, <1>3
LEMMA MaxExists ==
  ASSUME NEW S, S \subseteq Nat, S # {}, IsFiniteSet(S)
  PROVE  \E m \in S : \A x \in S : x <= m
<1> DEFINE Topped(t) == \E m \in t : \A x \in t : x <= m
           Bad == {t \in SUBSET S : t # {} /\ ~Topped(t)}
<1> SUFFICES ASSUME Bad # {} PROVE FALSE
  OBVIOUS
<1>1. Bad \subseteq SUBSET S
  OBVIOUS
<1>a. \E t \in Bad : t # {} => t \ {Pick(t)} \notin Bad
  <2> HIDE DEF Bad
  <2> QED
    BY <1>1, SmallestSet
<1>2. PICK t \in Bad : t # {} => t \ {Pick(t)} \notin Bad
  BY <1>a
<1>3. /\ t # {} /\ t \subseteq Nat /\ ~Topped(t)
      /\ Pick(t) \in t /\ Pick(t) \in Nat /\ t \ {Pick(t)} \in SUBSET S
  BY PickSmaller
<1>4. CASE t \ {Pick(t)} = {}
  BY <1>3, <1>4
<1>5. CASE t \ {Pick(t)} # {}
  <2>1. Topped(t \ {Pick(t)})
    BY <1>2, <1>3, <1>5
  <2>2. PICK m \in t \ {Pick(t)} : \A x \in t \ {Pick(t)} : x <= m
    BY <2>1
  <2>3. CASE Pick(t) <= m
    <3>1. \A x \in t : x <= m
      BY <2>2, <2>3
    <3> QED
      BY <1>3, <3>1
  <2>4. CASE ~(Pick(t) <= m)
    <3>1. m \in Nat /\ \A x \in t : x \in Nat
      BY <1>3
    <3>2. \A x \in t : x <= Pick(t)
      BY <1>3, <2>2, <2>4, <3>1
    <3> QED
      BY <1>3, <3>2
  <2> QED
    BY <2>3, <2>4
<1> QED
  BY <1>4, <1>5

LEMMA MaxOf ==
  ASSUME NEW S, S \subseteq Nat, S # {}, IsFiniteSet(S)
  PROVE  Routing!Max(S) \in S /\ \A x \in S : x <= Routing!Max(S)
<1>1. PICK m \in S : \A x \in S : x <= m
  BY MaxExists
<1>2. \E y \in S : \A x \in S : y >= x
  BY <1>1
<1> QED
  BY <1>2 DEF Routing!Max

LEMMA MinOf ==
  ASSUME NEW S, S \subseteq Nat, S # {}
  PROVE  Routing!Min(S) \in S /\ \A x \in S : Routing!Min(S) <= x
<1>1. \E y \in S : \A x \in S : y =< x
  BY Least
<1> QED
  BY <1>1 DEF Routing!Min

LEMMA MinOfTwo ==
  ASSUME NEW a \in Nat, NEW b \in Nat
  PROVE  Routing!Min({a, b}) = IF a <= b THEN a ELSE b
<1>1. Routing!Min({a, b}) \in {a, b} /\ \A x \in {a, b} : Routing!Min({a, b}) <= x
  BY MinOf
<1> QED
  BY <1>1

LEMMA SumOfOnes ==
  ASSUME NEW S, IsFiniteSet(S), NEW f, \A x \in S : f[x] = 1, NEW h, SumsOver(SUBSET S, f, h)
  PROVE  h[S] = Cardinality(S)
<1> DEFINE g == [s \in SUBSET S |-> Cardinality(s)]
<1>1. \A s \in SUBSET S : IsFiniteSet(s) /\ Cardinality(s) \in Nat
  BY FS_Subset, FS_CardinalityType
<1>2. g \in [SUBSET S -> Nat] /\ g[{}] = 0
  BY <1>1, FS_EmptySet
<1>3. ASSUME NEW s \in SUBSET S, NEW x \in s PROVE g[s] = f[x] + g[s \ {x}]
  <2>1. Cardinality(s \ {x}) = Cardinality(s) - 1
    BY <1>1, FS_RemoveElement
  <2> QED
    BY <1>1, <2>1
<1>4. AddsUp(S, f, g)
  BY <1>2, <1>3 DEF AddsUp
<1>5. g[S] = Cardinality(S)
  OBVIOUS
<1> HIDE DEF g
<1>6. \A s \in SUBSET S : h[s] = g[s]
  BY <1>4, SumsAgree
<1> QED
  BY <1>5, <1>6

\* What a batch adds up to.
LEMMA TotalOf ==
  ASSUME NEW k \in Nat, NEW b \in [1 .. k -> Nat]
  PROVE  /\ Routing!Total(b) \in Nat
         /\ \A i \in 1 .. k : b[i] <= Routing!Total(b)
         /\ (\A i \in 1 .. k : b[i] = 1) => Routing!Total(b) = k
<1> DEFINE S == 1 .. k
<1>1. IsFiniteSet(S) /\ Cardinality(S) = k
  BY FS_Interval
<1>2. PICK h : SumsOver(SUBSET S, b, h) /\ Routing!Total(b) = h[S]
  BY <1>1, TotalIsASum
<1>3. \A s \in SUBSET S : h[s] \in Nat
  BY <1>1, <1>2, SumsAreNat
<1>4. ASSUME \A i \in 1 .. k : b[i] = 1 PROVE Routing!Total(b) = k
  <2>1. IsFiniteSet(S) /\ \A i \in S : b[i] = 1
    BY <1>1, <1>4
  <2>2. SumsOver(SUBSET S, b, h)
    BY <1>2
  <2>3. h[S] = Cardinality(S)
    <3> HIDE DEF S
    <3> QED
      BY <2>1, <2>2, SumOfOnes
  <2> QED
    BY <1>1, <1>2, <2>3
<1>5. ASSUME NEW i \in 1 .. k PROVE b[i] <= Routing!Total(b)
  <2> DEFINE Bad == {s \in SUBSET S : i \in s /\ ~(b[i] <= h[s])}
  <2> SUFFICES ASSUME Bad # {} PROVE FALSE
    BY <1>2
  <2>1. Bad \subseteq SUBSET S
    OBVIOUS
  <2>a. \E s \in Bad : s # {} => s \ {Pick(s)} \notin Bad
    <3> HIDE DEF Bad, S
    <3> QED
      BY <1>1, <2>1, SmallestSet
  <2>2. PICK s \in Bad : s # {} => s \ {Pick(s)} \notin Bad
    BY <2>a
  <2>3. /\ i \in s /\ s # {} /\ s \in SUBSET S
        /\ Pick(s) \in s /\ s \ {Pick(s)} \in SUBSET S
    BY <1>1, PickSmaller
  <2>4. s \ {Pick(s)} \notin Bad
    BY <2>2, <2>3
  <2>5. h[s] = b[Pick(s)] + h[s \ {Pick(s)}]
    BY <1>2, <2>3 DEF SumsOver
  <2>6. /\ b[i] \in Nat /\ b[Pick(s)] \in Nat /\ h[s] \in Nat
        /\ h[s \ {Pick(s)}] \in Nat
    BY <1>3, <2>3
  <2> QED
    BY <2>2, <2>3, <2>4, <2>5, <2>6
<1> QED
  BY <1>2, <1>3, <1>4, <1>5

-----------------------------------------------------------------------------
(* The configurations of which every graph that may be asked for is there. *)

Sound == Routing!BatchRoutingAssumption /\ Routing!WellSized

LEMMA Parameters ==
  ASSUME Sound
  PROVE  /\ Sizes \subseteq Nat /\ 0 \notin Sizes /\ Sizes # {} /\ IsFiniteSet(Sizes)
         /\ SP \in Nat /\ SP > 1 /\ MaxTokens \in Nat /\ MaxTokens > 0 /\ MaxTokens % SP = 0
         /\ MaxSeqs \in Nat /\ MaxSeqs > 0 /\ Threshold \in Nat /\ Adaptive \in BOOLEAN
         /\ \A s \in Sizes : s \in Nat /\ s > 0 /\ s * SP <= MaxTokens /\ s < s * SP
<1>1. /\ Sizes \subseteq Nat /\ 0 \notin Sizes /\ Sizes # {} /\ IsFiniteSet(Sizes)
      /\ SP \in Nat /\ SP > 1 /\ MaxTokens \in Nat /\ MaxTokens > 0 /\ MaxTokens % SP = 0
      /\ MaxSeqs \in Nat /\ MaxSeqs > 0 /\ Threshold \in Nat /\ Adaptive \in BOOLEAN
      /\ \A s \in Sizes : s * SP <= MaxTokens
  <2>1. IsFiniteSet(Sizes)
    BY DEF Sound, Routing!BatchRoutingAssumption, Routing!IsFiniteSet, IsFiniteSet
  <2> QED
    BY <2>1 DEF Sound, Routing!BatchRoutingAssumption, Routing!WellSized
<1>2. \A s, k \in Nat : s > 0 /\ k > 1 => s < s * k
  OBVIOUS
<1> QED
  BY <1>1, <1>2

\* The largest size, and the size that a number of tokens is padded to.
LEMMA PaddedSize ==
  ASSUME Sound, NEW n \in Nat, n <= Routing!LargestSize
  PROVE  /\ Routing!PadForCudagraph(n) \in Sizes /\ n <= Routing!PadForCudagraph(n)
         /\ \A s \in Sizes : n <= s => Routing!PadForCudagraph(n) <= s
<1> DEFINE S == {s \in Sizes : s >= n}
<1>1. Routing!LargestSize \in Sizes
  BY Parameters, MaxOf DEF Routing!LargestSize
<1>2. S \subseteq Nat /\ S # {}
  BY <1>1, Parameters
<1>3. Routing!Min(S) \in S /\ \A x \in S : Routing!Min(S) <= x
  <2> HIDE DEF S
  <2> QED
    BY <1>2, MinOf
<1>4. Routing!PadForCudagraph(n) = Routing!Min(S)
  BY DEF Routing!PadForCudagraph
<1>5. \A s \in Sizes : s >= n <=> n <= s
  BY Parameters
<1> QED
  BY <1>3, <1>4, <1>5

LEMMA Largest ==
  ASSUME Sound
  PROVE  /\ Routing!LargestSize \in Sizes /\ Routing!LargestSize \in Nat
         /\ \A s \in Sizes : s <= Routing!LargestSize
<1>1. Routing!LargestSize \in Sizes /\ \A s \in Sizes : s <= Routing!LargestSize
  BY Parameters, MaxOf DEF Routing!LargestSize
<1> QED
  BY <1>1, Parameters

\* Rounding up to a multiple.
LEMMA RoundingUp ==
  ASSUME NEW n \in Nat, NEW k \in Nat, k > 0
  PROVE  \E p \in Nat : /\ Routing!RoundUp(n, k) = p * k /\ Routing!RoundUp(n, k) \div k = p
                       /\ n <= p * k
                       /\ \A q \in Nat : n <= q * k => p <= q
<1> DEFINE p == (n + k - 1) \div k
<1>1. p \in Nat /\ p * k <= n + k - 1 /\ n + k - 1 < p * k + k
  OBVIOUS
<1>2. (p * k) \div k = p
  <2> HIDE DEF p
  <2> QED
    BY <1>1
<1>3. Routing!RoundUp(n, k) = p * k
  BY DEF Routing!RoundUp
<1> HIDE DEF p
<1>4. n <= p * k
  <2>1. p * k \in Nat
    BY <1>1
  <2> QED
    BY <1>1, <2>1
<1>5. ASSUME NEW q \in Nat, n <= q * k PROVE p <= q
  <2>1. SUFFICES ASSUME q + 1 <= p PROVE FALSE
    BY <1>1
  <2>2. (q + 1) * k <= p * k
    BY <1>1, <2>1
  <2>3. (q + 1) * k = q * k + k /\ q * k \in Nat /\ p * k \in Nat
    BY <1>1
  <2> QED
    BY <1>1, <1>5, <2>2, <2>3
<1> QED
  BY <1>1, <1>2, <1>3, <1>4, <1>5

\* What is known of a batch.
LEMMA BatchFacts ==
  ASSUME Sound, NEW b \in Routing!Batches
  PROVE  /\ Routing!Total(b) \in 1 .. MaxTokens
         /\ Routing!UniformDecode(b) => Routing!Total(b) <= MaxSeqs
<1>1. PICK k \in 1 .. MaxSeqs : b \in [1 .. k -> 1 .. MaxTokens]
  BY DEF Routing!Batches
<1>2. Routing!Total(b) <= MaxTokens
  BY DEF Routing!Batches
<1>3. /\ k \in Nat /\ k >= 1 /\ k <= MaxSeqs
      /\ b \in [1 .. k -> Nat] /\ \A i \in 1 .. k : b[i] \in Nat /\ b[i] >= 1
  BY <1>1, Parameters
<1>4. /\ Routing!Total(b) \in Nat
      /\ \A i \in 1 .. k : b[i] <= Routing!Total(b)
      /\ (\A i \in 1 .. k : b[i] = 1) => Routing!Total(b) = k
  BY <1>3, TotalOf
<1>5. Routing!Total(b) >= 1
  <2>1. 1 \in 1 .. k
    BY <1>3
  <2> QED
    BY <1>3, <1>4, <2>1
<1>6. ASSUME Routing!UniformDecode(b) PROVE Routing!Total(b) <= MaxSeqs
  <2> DEFINE S == {b[i] : i \in 1 .. k}
  <2>1. S \subseteq Nat /\ S # {}
    BY <1>3
  <2>2. IsFiniteSet(S)
    <3>1. IsFiniteSet(1 .. MaxTokens)
      BY FS_Interval, Parameters
    <3>2. S \subseteq 1 .. MaxTokens
      BY <1>1
    <3> HIDE DEF S
    <3> QED
      BY <3>1, <3>2, FS_Subset
  <2>3. S = Routing!Range(b)
    BY <1>3 DEF Routing!Range
  <2>4. Routing!Max(S) = 1
    BY <1>6, <2>3 DEF Routing!UniformDecode, Routing!MaxPerReq
  <2>5. \A x \in S : x <= 1
    <3> HIDE DEF S
    <3> QED
      BY <2>1, <2>2, <2>4, MaxOf
  <2>6. \A i \in 1 .. k : b[i] = 1
    <3>1. \A i \in 1 .. k : b[i] \in S
      OBVIOUS
    <3> HIDE DEF S
    <3> QED
      BY <1>3, <2>5, <3>1
  <2> QED
    BY <1>3, <1>4, <2>6
<1> QED
  BY <1>2, <1>4, <1>5, <1>6, Parameters

-----------------------------------------------------------------------------
(* Keys and graphs, and the size each batch runs at.                       *)

AllKeys == Routing!OrigKeys \cup Routing!SpMixedKeys \cup Routing!SpDecodeKeys
AllGraphs ==
  (IF Routing!MixedMode # "NONE" THEN Routing!GraphsOf(Sizes, Routing!MixedMode, FALSE) ELSE {})
    \cup (IF Routing!FullDecode THEN Routing!GraphsOf(Routing!DecodeSizes, "FULL", TRUE) ELSE {})

\* The sizes a key may have: those of the shift model, and of all base ranks together.
KeySizes == Sizes \cup {s * SP : s \in Sizes}

LEMMA GraphModesAre ==
  /\ Sound => Routing!MixedMode \in {"NONE", "PIECEWISE", "FULL"}
  /\ Routing!MixedMode = "NONE" <=> GraphMode \in {"NONE", "FULL_DECODE_ONLY"}
  /\ Routing!FullDecode => GraphMode # "NONE" /\ Routing!MixedMode # "FULL"
<1>1. CASE GraphMode = "FULL_DECODE_ONLY"
  <2>1. Routing!MixedMode = "NONE"
    BY <1>1 DEF Routing!MixedMode
  <2> QED
    BY <1>1, <2>1
<1>2. CASE GraphMode = "FULL_AND_PIECEWISE"
  <2>1. Routing!MixedMode = "PIECEWISE"
    BY <1>2 DEF Routing!MixedMode
  <2> QED
    BY <1>2, <2>1
<1>3. CASE GraphMode \notin {"FULL_DECODE_ONLY", "FULL_AND_PIECEWISE"}
  <2>1. Routing!MixedMode = GraphMode
    BY <1>3 DEF Routing!MixedMode
  <2>2. Sound => GraphMode \in {"NONE", "PIECEWISE", "FULL"}
    BY <1>3 DEF Sound, Routing!BatchRoutingAssumption, Routing!GraphModes
  <2>3. ~Routing!FullDecode
    BY <1>3 DEF Routing!FullDecode, Routing!SeparateRoutine
  <2> QED
    BY <1>3, <2>1, <2>2, <2>3
<1> QED
  BY <1>1, <1>2, <1>3

LEMMA KeysAre ==
  ASSUME Sound, NEW kind, NEW n, NEW uniform,
         Routing!Desc(kind, n, uniform) \in AllKeys
  PROVE  /\ uniform \in BOOLEAN
         /\ ~uniform => kind = Routing!MixedMode /\ kind # "NONE" /\ n \in KeySizes
         /\ uniform => kind = "FULL" /\ Routing!FullDecode
                         /\ n \in Routing!DecodeSizes \cup {s * SP : s \in Routing!DecodeSizes}
BY DEF AllKeys, Routing!OrigKeys, Routing!SpMixedKeys, Routing!SpDecodeKeys, Routing!Desc, KeySizes

LEMMA MixedKeysAre ==
  ASSUME NEW n \in KeySizes, Routing!MixedMode # "NONE"
  PROVE  Routing!Desc(Routing!MixedMode, n, FALSE) \in AllKeys
BY DEF AllKeys, Routing!OrigKeys, Routing!SpMixedKeys, KeySizes

LEMMA DecodeKeysAre ==
  ASSUME NEW n \in Routing!DecodeSizes \cup {s * SP : s \in Routing!DecodeSizes}, Routing!FullDecode
  PROVE  Routing!Desc("FULL", n, TRUE) \in AllKeys
BY DEF AllKeys, Routing!OrigKeys, Routing!SpDecodeKeys

\* The dispatcher gives the batch's own full graph, one that takes any batch, or none.
LEMMA Dispatched ==
  ASSUME NEW n, NEW uniform \in BOOLEAN
  PROVE  LET d == Routing!Dispatch(n, uniform)
             full == Routing!Desc("FULL", n, uniform)
             any == Routing!Desc("FULL", n, FALSE)
             piecewise == Routing!Desc("PIECEWISE", n, FALSE)
         IN  /\ full \in keys => d = full
             /\ full \notin keys /\ any \notin keys /\ piecewise \in keys => d = piecewise
             /\ d = Routing!NoGraph \/ (d \in keys /\ d \in {full, any, piecewise})
<1> DEFINE ranked == <<Routing!Desc("FULL", n, uniform), Routing!Desc("FULL", n, FALSE),
                       Routing!Desc("PIECEWISE", n, FALSE)>>
           found == {i \in 1 .. 3 : ranked[i] \in keys}
<1>1. Routing!Dispatch(n, uniform) =
        IF found = {} THEN Routing!NoGraph ELSE ranked[Routing!Min(found)]
  <2>1. DOMAIN ranked = 1 .. 3
    OBVIOUS
  <2> QED
    BY <2>1, Zenon DEF Routing!Dispatch
<1>2. ASSUME found # {}
      PROVE  Routing!Min(found) \in found /\ \A x \in found : Routing!Min(found) <= x
  <2>1. found \subseteq Nat
    OBVIOUS
  <2> HIDE DEF found
  <2> QED
    BY <1>2, <2>1, MinOf
<1>3. /\ ranked[1] = Routing!Desc("FULL", n, uniform)
      /\ ranked[2] = Routing!Desc("FULL", n, FALSE)
      /\ ranked[3] = Routing!Desc("PIECEWISE", n, FALSE)
  OBVIOUS
<1> HIDE DEF ranked
<1>a. /\ 1 \in found <=> Routing!Desc("FULL", n, uniform) \in keys
      /\ 2 \in found <=> Routing!Desc("FULL", n, FALSE) \in keys
      /\ 3 \in found <=> Routing!Desc("PIECEWISE", n, FALSE) \in keys
  <2>1. \A i \in 1 .. 3 : i \in found <=> ranked[i] \in keys
    OBVIOUS
  <2>2. 1 \in 1 .. 3 /\ 2 \in 1 .. 3 /\ 3 \in 1 .. 3
    OBVIOUS
  <2> HIDE DEF found
  <2> QED
    BY <1>3, <2>1, <2>2
<1>4. CASE found = {}
  <2> HIDE DEF found
  <2> QED
    BY <1>1, <1>4, <1>a
<1>5. CASE found # {}
  <2> DEFINE m == Routing!Min(found)
  <2>1. m \in 1 .. 3 /\ ranked[m] \in keys /\ (1 \in found => m = 1)
        /\ (1 \notin found /\ 2 \notin found => m = 3)
    <3>1. m \in found /\ \A x \in found : m <= x
      BY <1>2, <1>5
    <3>2. m \in 1 .. 3 /\ ranked[m] \in keys
      BY <3>1
    <3>3. 1 \in found => m <= 1
      BY <3>1
    <3>4. m = 1 \/ m = 2 \/ m = 3
      BY <3>2
    <3> HIDE DEF m, found
    <3> QED
      BY <3>1, <3>2, <3>3, <3>4
  <2>2. Routing!Dispatch(n, uniform) = ranked[m]
    BY <1>1, <1>5
  <2>3. m = 1 \/ m = 2 \/ m = 3
    BY <2>1
  <2> HIDE DEF m, found
  <2> QED
    BY <1>3, <1>a, <2>1, <2>2, <2>3
<1> QED
  BY <1>4, <1>5

LEMMA ShiftSize ==
  ASSUME Sound, NEW b \in Routing!Batches, Routing!Total(b) <= Threshold, GraphMode # "NONE"
  PROVE  LET n == Routing!NumInputTokens(b, TRUE)
         IN  /\ n \in Sizes /\ n <= Threshold
             /\ Routing!FullDecode /\ Routing!UniformDecode(b) => n <= MaxSeqs
<1> DEFINE total == Routing!Total(b)
           n == Routing!PadForCudagraph(total)
<1>1. total \in Nat /\ total >= 1 /\ (Routing!UniformDecode(b) => total <= MaxSeqs)
  BY BatchFacts, Parameters
<1>2. Threshold \in Nat /\ MaxSeqs \in Nat /\ Threshold \in Sizes
  BY <1>1, Parameters DEF Sound, Routing!WellSized
<1>3. total <= Routing!LargestSize
  BY <1>1, <1>2, Largest
<1>4. n \in Sizes /\ \A s \in Sizes : total <= s => n <= s
  BY <1>1, <1>3, PaddedSize
<1>5. n <= Threshold
  BY <1>2, <1>4
<1>6. Routing!NumInputTokens(b, TRUE) = n
  BY <1>3 DEF Routing!NumInputTokens
<1>7. ASSUME Routing!FullDecode, Routing!UniformDecode(b) PROVE n <= MaxSeqs
  <2>1. MaxSeqs \in Sizes \/ Threshold <= MaxSeqs
    BY <1>7 DEF Sound, Routing!WellSized
  <2>2. n \in Nat
    BY <1>4, Parameters
  <2> HIDE DEF n, total
  <2> QED
    BY <1>1, <1>2, <1>4, <1>5, <1>7, <2>1, <2>2
<1> QED
  BY <1>4, <1>5, <1>6, <1>7

LEMMA BaseSize ==
  ASSUME Sound, NEW b \in Routing!Batches, Routing!Total(b) > Threshold
  PROVE  LET n == Routing!NumInputTokens(b, FALSE)
         IN  \E p \in Nat :
               /\ n = p * SP /\ Routing!Total(b) <= n
               /\ p \in Sizes \/ n <= MaxTokens
               /\ GraphMode # "NONE" /\ p \notin Sizes => p > Routing!LargestSize
               /\ p \in Sizes /\ GraphMode # "NONE" /\ Routing!FullDecode /\ Routing!UniformDecode(b)
                    => p * SP <= MaxSeqs
<1> DEFINE total == Routing!Total(b)
           rounded == Routing!RoundUp(total, SP)
           n == Routing!NumInputTokens(b, FALSE)
<1>1. /\ total \in Nat /\ total >= 1 /\ total <= MaxTokens
      /\ Routing!UniformDecode(b) => total <= MaxSeqs
  BY BatchFacts, Parameters
<1>2. PICK p \in Nat : /\ rounded = p * SP /\ rounded \div SP = p /\ total <= p * SP
                       /\ \A q \in Nat : total <= q * SP => p <= q
  <2>1. total \in Nat /\ SP \in Nat /\ SP > 0
    BY <1>1, Parameters
  <2> HIDE DEF total
  <2> QED
    BY <2>1, RoundingUp
<1>3. p * SP <= MaxTokens
  <2>1. \A m, k \in Nat : k > 0 /\ m % k = 0 => m = (m \div k) * k /\ m \div k \in Nat
    OBVIOUS
  <2>2. MaxTokens = (MaxTokens \div SP) * SP /\ MaxTokens \div SP \in Nat
    BY <2>1, Parameters
  <2>3. p <= MaxTokens \div SP
    BY <1>1, <1>2, <2>2
  <2> DEFINE q == MaxTokens \div SP
  <2>4. q \in Nat /\ p <= q /\ MaxTokens = q * SP
    BY <2>2, <2>3
  <2> HIDE DEF q
  <2> QED
    BY <2>4, Parameters
<1>4. CASE GraphMode # "NONE" /\ p <= Routing!LargestSize
  <2> DEFINE s == Routing!PadForCudagraph(p)
  <2>1. s \in Sizes /\ p <= s /\ \A z \in Sizes : p <= z => s <= z
    BY <1>4, PaddedSize
  <2>2. n = s * SP
    BY <1>2, <1>4 DEF Routing!NumInputTokens
  <2>3. s \in Nat /\ SP \in Nat /\ MaxSeqs \in Nat
    BY <2>1, Parameters
  <2> HIDE DEF s, total
  <2>4. total <= s * SP
    <3>1. p * SP <= s * SP /\ p * SP \in Nat /\ s * SP \in Nat
      BY <2>1, <2>3
    <3> QED
      BY <1>1, <1>2, <3>1
  <2>5. ASSUME Routing!FullDecode, Routing!UniformDecode(b) PROVE s * SP <= MaxSeqs
    <3>1. CASE \A z \in Sizes : z * SP <= MaxSeqs
      BY <2>1, <3>1
    <3>2. ASSUME NEW z \in Sizes, z * SP = MaxSeqs PROVE s * SP <= MaxSeqs
      <4>1. z \in Nat /\ total <= z * SP
        BY <1>1, <2>5, <3>2, Parameters
      <4>2. s <= z
        BY <1>2, <2>1, <4>1
      <4> QED
        BY <2>3, <3>2, <4>1, <4>2
    <3> QED
      BY <2>5, <3>1, <3>2 DEF Sound, Routing!WellSized
  <2> QED
    BY <2>1, <2>2, <2>3, <2>4, <2>5 DEF total
<1>5. CASE ~(GraphMode # "NONE" /\ p <= Routing!LargestSize)
  <2>1. n = p * SP
    BY <1>2, <1>5 DEF Routing!NumInputTokens
  <2>2. GraphMode # "NONE" => p > Routing!LargestSize /\ p \notin Sizes
    BY <1>5, Largest
  <2>3. GraphMode # "NONE" \/ ~Routing!FullDecode
    BY GraphModesAre
  <2> HIDE DEF total
  <2> QED
    BY <1>2, <1>3, <2>1, <2>2, <2>3 DEF total
<1> QED
  BY <1>4, <1>5

Graph(who, kind, n, uniform) == [model |-> who, graph |-> Routing!Desc(kind, n, uniform)]

LEMMA MixedGraphs ==
  ASSUME Routing!MixedMode # "NONE", NEW n
  PROVE  /\ n \in Routing!BaseShapes(Sizes, Routing!MixedMode)
              => Graph("base", Routing!MixedMode, n, FALSE) \in AllGraphs
         /\ n \in Routing!ShiftShapes(Sizes, Routing!MixedMode)
              => Graph("shift", Routing!MixedMode, n, FALSE) \in AllGraphs
BY DEF AllGraphs, Routing!GraphsOf, Graph

LEMMA DecodeGraphs ==
  ASSUME Routing!FullDecode, NEW n
  PROVE  /\ n \in Routing!BaseShapes(Routing!DecodeSizes, "FULL")
              => Graph("base", "FULL", n, TRUE) \in AllGraphs
         /\ n \in Routing!ShiftShapes(Routing!DecodeSizes, "FULL")
              => Graph("shift", "FULL", n, TRUE) \in AllGraphs
BY DEF AllGraphs, Routing!GraphsOf, Graph

LEMMA BaseShape ==
  ASSUME Sound, NEW cases, cases \subseteq Sizes, NEW kind, NEW s \in cases
  PROVE  /\ Routing!Min({s * SP, MaxTokens}) = s * SP
         /\ s * SP > Threshold /\ (kind = "FULL" => s * SP <= MaxSeqs)
              => s * SP \in Routing!BaseShapes(cases, kind)
<1>1. s \in Nat /\ SP \in Nat /\ MaxTokens \in Nat /\ s * SP <= MaxTokens /\ s * SP \in Nat
  BY Parameters
<1>2. Routing!Min({s * SP, MaxTokens}) = s * SP
  <2> DEFINE a == s * SP
  <2>1. a \in Nat /\ a <= MaxTokens
    BY <1>1
  <2> HIDE DEF a
  <2>2. Routing!Min({a, MaxTokens}) = a
    BY <1>1, <2>1, MinOfTwo
  <2> QED
    BY <2>2 DEF a
<1> QED
  BY <1>2 DEF Routing!BaseShapes

\* The graphs of a captured set, and that every one of them has its key.
LEMMA GraphsAre ==
  ASSUME Sound, NEW c \in AllGraphs
  PROVE  \E n \in KeySizes :
           \/ /\ c.graph = Routing!Desc(Routing!MixedMode, n, FALSE) /\ Routing!MixedMode # "NONE"
              /\ Routing!MixedMode = "FULL" => n <= MaxSeqs
           \/ /\ c.graph = Routing!Desc("FULL", n, TRUE) /\ Routing!FullDecode /\ n <= MaxSeqs
              /\ n \in Routing!DecodeSizes \cup {s * SP : s \in Routing!DecodeSizes}
<1>1. ASSUME NEW cases, cases \subseteq Sizes, NEW kind, NEW uniform,
             c \in Routing!GraphsOf(cases, kind, uniform)
      PROVE  \E n \in cases \cup {s * SP : s \in cases} :
               c.graph = Routing!Desc(kind, n, uniform) /\ (kind = "FULL" => n <= MaxSeqs)
  <2>1. PICK n \in Routing!BaseShapes(cases, kind) \cup Routing!ShiftShapes(cases, kind) :
          c.graph = Routing!Desc(kind, n, uniform)
    BY <1>1 DEF Routing!GraphsOf
  <2>2. CASE n \in Routing!BaseShapes(cases, kind)
    <3>1. PICK s \in cases : n = Routing!Min({s * SP, MaxTokens})
      BY <2>2 DEF Routing!BaseShapes
    <3>2. n = s * SP
      BY <1>1, <3>1, BaseShape
    <3>3. kind = "FULL" => n <= MaxSeqs
      BY <2>2 DEF Routing!BaseShapes
    <3> QED
      BY <2>1, <3>2, <3>3
  <2>3. CASE n \in Routing!ShiftShapes(cases, kind)
    BY <2>1, <2>3 DEF Routing!ShiftShapes
  <2> QED
    BY <2>1, <2>2, <2>3
<1>2. Routing!DecodeSizes \subseteq Sizes
  BY DEF Routing!DecodeSizes
<1>3. CASE Routing!MixedMode # "NONE" /\ c \in Routing!GraphsOf(Sizes, Routing!MixedMode, FALSE)
  <2>1. PICK n \in Sizes \cup {s * SP : s \in Sizes} :
          /\ c.graph = Routing!Desc(Routing!MixedMode, n, FALSE)
          /\ Routing!MixedMode = "FULL" => n <= MaxSeqs
    BY <1>1, <1>3
  <2> QED
    BY <1>3, <2>1 DEF KeySizes
<1>4. CASE Routing!FullDecode /\ c \in Routing!GraphsOf(Routing!DecodeSizes, "FULL", TRUE)
  <2>1. PICK n \in Routing!DecodeSizes \cup {s * SP : s \in Routing!DecodeSizes} :
          c.graph = Routing!Desc("FULL", n, TRUE) /\ n <= MaxSeqs
    BY <1>1, <1>2, <1>4
  <2> QED
    BY <1>2, <1>4, <2>1 DEF KeySizes
<1> QED
  BY <1>3, <1>4 DEF AllGraphs

LEMMA GraphIsCaptured ==
  ASSUME Sound, keys = AllKeys, NEW b \in Routing!Batches,
         Routing!UseShiftModel(b) => Routing!Total(b) <= Threshold,
         Routing!Dispatch(Routing!NumInputTokens(b, Routing!UseShiftModel(b)),
                          Routing!UniformDecode(b)) # Routing!NoGraph
  PROVE  [model |-> IF Routing!UseShiftModel(b) THEN "shift" ELSE "base",
          graph |-> Routing!Dispatch(Routing!NumInputTokens(b, Routing!UseShiftModel(b)),
                                     Routing!UniformDecode(b))] \in AllGraphs
<1> DEFINE uniform == Routing!UniformDecode(b)
           shift == Routing!UseShiftModel(b)
           n == Routing!NumInputTokens(b, shift)
           g == Routing!Dispatch(n, uniform)
<1>0. uniform \in BOOLEAN /\ (shift <=> Routing!Total(b) <= Threshold) /\ shift \in BOOLEAN
  BY Parameters DEF Routing!UniformDecode, Routing!UseShiftModel
<1>1. PICK kind \in {"FULL", "PIECEWISE"}, u \in BOOLEAN :
        g = Routing!Desc(kind, n, u) /\ g \in AllKeys /\ (u => uniform)
  <2>1. g # Routing!NoGraph
    OBVIOUS
  <2> HIDE DEF n, uniform, shift
  <2>2. g \in keys /\ g \in {Routing!Desc("FULL", n, uniform), Routing!Desc("FULL", n, FALSE),
                             Routing!Desc("PIECEWISE", n, FALSE)}
    BY <1>0, <2>1, Dispatched
  <2> HIDE DEF g
  <2> QED
    BY <1>0, <2>2
<1>2. /\ ~u => kind = Routing!MixedMode /\ kind # "NONE" /\ n \in KeySizes
      /\ u => kind = "FULL" /\ Routing!FullDecode
               /\ n \in Routing!DecodeSizes \cup {s * SP : s \in Routing!DecodeSizes}
  BY <1>1, KeysAre
<1>3. GraphMode # "NONE"
  BY <1>1, <1>2, GraphModesAre
<1>4. n \in KeySizes
  BY <1>2 DEF KeySizes, Routing!DecodeSizes
<1>5. CASE shift
  <2>1. n \in Sizes /\ n <= Threshold /\ (Routing!FullDecode /\ uniform => n <= MaxSeqs)
    <3>1. n = Routing!NumInputTokens(b, TRUE)
      BY <1>0, <1>5
    <3> QED
      BY <1>0, <1>3, <1>5, <3>1, ShiftSize
  <2>2. n \in Nat /\ SP \in Nat /\ SP > 1 /\ n < n * SP /\ n * SP \in Nat /\ MaxSeqs \in Nat
    BY <2>1, Parameters
  <2> HIDE DEF n, g, shift, uniform
  <2>3. CASE ~u
    <3>1. kind = "FULL" => n <= MaxSeqs
      BY <1>2, <2>1, <2>2, <2>3 DEF Sound, Routing!WellSized
    <3>2. n \in Routing!ShiftShapes(Sizes, Routing!MixedMode)
      BY <1>2, <2>1, <2>3, <3>1 DEF Routing!ShiftShapes
    <3>3. Graph("shift", Routing!MixedMode, n, FALSE) \in AllGraphs
      BY <1>2, <2>3, <3>2, MixedGraphs
    <3> QED
      BY <1>1, <1>2, <1>5, <2>3, <3>3 DEF Graph, g, n, shift, uniform
  <2>4. CASE u
    <3>1. n \in Routing!DecodeSizes /\ n <= MaxSeqs
      BY <1>1, <1>2, <2>1, <2>4 DEF Routing!DecodeSizes
    <3>2. n \in Routing!ShiftShapes(Routing!DecodeSizes, "FULL")
      BY <2>1, <3>1 DEF Routing!ShiftShapes
    <3>3. Graph("shift", "FULL", n, TRUE) \in AllGraphs
      BY <1>2, <2>4, <3>2, DecodeGraphs
    <3> QED
      BY <1>1, <1>2, <1>5, <2>4, <3>3 DEF Graph, g, n, shift, uniform
  <2> QED
    BY <2>3, <2>4
<1>6. CASE ~shift
  <2>1. n = Routing!NumInputTokens(b, FALSE) /\ Routing!Total(b) > Threshold
    <3>1. shift = FALSE
      BY <1>0, <1>6
    <3>2. Routing!Total(b) \in Nat /\ Threshold \in Nat
      BY BatchFacts, Parameters
    <3>3. Routing!Total(b) > Threshold
      BY <1>0, <1>6, <3>2
    <3> HIDE DEF shift
    <3>4. n = Routing!NumInputTokens(b, FALSE)
      BY <3>1, Zenon
    <3> QED
      BY <3>3, <3>4
  <2>2. PICK p \in Nat :
          /\ n = p * SP /\ Routing!Total(b) <= n
          /\ p \notin Sizes => p > Routing!LargestSize
          /\ p \in Sizes /\ Routing!FullDecode /\ uniform => p * SP <= MaxSeqs
    BY <1>3, <2>1, BaseSize
  <2>3. p \in Sizes
    BY <1>4, <2>2, Largest, Parameters DEF KeySizes
  <2>4. /\ p \in Nat /\ SP \in Nat /\ SP > 1 /\ p < p * SP /\ p * SP \in Nat /\ MaxSeqs \in Nat
        /\ Threshold \in Nat /\ Routing!Total(b) \in Nat
    BY <2>3, Parameters, BatchFacts
  <2>5. p * SP > Threshold
    <3>1. Routing!Total(b) <= p * SP
      BY <2>2
    <3> HIDE DEF n
    <3> QED
      BY <2>1, <2>4, <3>1
  <2> HIDE DEF n, g, shift, uniform
  <2>6. CASE ~u
    <3>1. kind = "FULL" => p * SP <= MaxSeqs
      BY <1>2, <2>3, <2>6 DEF Sound, Routing!WellSized
    <3>2. n \in Routing!BaseShapes(Sizes, Routing!MixedMode)
      BY <1>2, <2>2, <2>3, <2>5, <2>6, <3>1, BaseShape
    <3>3. Graph("base", Routing!MixedMode, n, FALSE) \in AllGraphs
      BY <1>2, <2>6, <3>2, MixedGraphs
    <3> QED
      BY <1>1, <1>2, <1>6, <2>6, <3>3 DEF Graph, g, n, shift, uniform
  <2>7. CASE u
    <3>1. p * SP <= MaxSeqs
      BY <1>1, <1>2, <2>2, <2>3, <2>7
    <3>2. p \in Routing!DecodeSizes /\ Routing!DecodeSizes \subseteq Sizes
      BY <2>3, <2>4, <3>1 DEF Routing!DecodeSizes
    <3>3. n \in Routing!BaseShapes(Routing!DecodeSizes, "FULL")
      BY <2>2, <2>5, <3>1, <3>2, BaseShape
    <3>4. Graph("base", "FULL", n, TRUE) \in AllGraphs
      BY <1>2, <2>7, <3>3, DecodeGraphs
    <3> QED
      BY <1>1, <1>2, <1>6, <2>7, <3>4 DEF Graph, g, n, shift, uniform
  <2> QED
    BY <2>6, <2>7
<1> QED
  BY <1>0, <1>5, <1>6

\* Requests of q tokens each, and r more for one of them.
LEMMA SumOfShares ==
  ASSUME NEW S, IsFiniteSet(S), NEW last \in S, NEW q \in Nat, NEW r \in Nat, NEW f,
         \A x \in S : f[x] = IF x = last THEN q + r ELSE q,
         NEW h, SumsOver(SUBSET S, f, h)
  PROVE  h[S] = Cardinality(S) * q + r
<1> DEFINE g == [s \in SUBSET S |-> IF last \in s THEN Cardinality(s) * q + r ELSE Cardinality(s) * q]
<1>1. \A s \in SUBSET S : IsFiniteSet(s) /\ Cardinality(s) \in Nat /\ Cardinality(s) * q \in Nat
  <2>1. \A s \in SUBSET S : IsFiniteSet(s) /\ Cardinality(s) \in Nat
    BY FS_Subset, FS_CardinalityType
  <2>2. \A m \in Nat : m * q \in Nat
    OBVIOUS
  <2> QED
    BY <2>1, <2>2
<1>2. g \in [SUBSET S -> Nat] /\ g[{}] = 0
  BY <1>1, FS_EmptySet
<1>3. ASSUME NEW s \in SUBSET S, NEW x \in s PROVE g[s] = f[x] + g[s \ {x}]
  <2> DEFINE m == Cardinality(s \ {x})
  <2>1. Cardinality(s) = m + 1 /\ m \in Nat /\ s \ {x} \in SUBSET S
    <3>1. Cardinality(s \ {x}) = Cardinality(s) - 1
      BY <1>1, FS_RemoveElement
    <3> QED
      BY <1>1, <3>1
  <2>2. /\ g[s] = IF last \in s THEN Cardinality(s) * q + r ELSE Cardinality(s) * q
        /\ g[s \ {x}] = IF last \in s \ {x} THEN m * q + r ELSE m * q
    BY <2>1
  <2> HIDE DEF g, m
  <2>3. Cardinality(s) * q = m * q + q /\ m * q \in Nat
    BY <2>1
  <2>4. CASE x = last
    <3>1. f[x] = q + r /\ g[s] = Cardinality(s) * q + r /\ g[s \ {x}] = m * q
      BY <2>2, <2>4
    <3> QED
      BY <2>3, <3>1
  <2>5. CASE x # last /\ last \in s
    <3>1. f[x] = q /\ g[s] = Cardinality(s) * q + r /\ g[s \ {x}] = m * q + r
      BY <2>2, <2>5
    <3> QED
      BY <2>3, <3>1
  <2>6. CASE x # last /\ last \notin s
    <3>1. f[x] = q /\ g[s] = Cardinality(s) * q /\ g[s \ {x}] = m * q
      BY <2>2, <2>6
    <3> QED
      BY <2>3, <3>1
  <2> QED
    BY <2>4, <2>5, <2>6
<1>4. AddsUp(S, f, g)
  BY <1>2, <1>3 DEF AddsUp
<1>5. g[S] = Cardinality(S) * q + r
  OBVIOUS
<1> HIDE DEF g
<1>6. \A s \in SUBSET S : h[s] = g[s]
  BY <1>4, SumsAgree
<1> QED
  BY <1>5, <1>6

\* The dummy requests of a capture have the shape's tokens together.
LEMMA DummyBatch ==
  ASSUME Sound, NEW n \in Nat, n > 0, NEW uniform \in BOOLEAN
  PROVE  /\ Routing!Total(Routing!DummyRequests(n, uniform, FALSE)) = n
         /\ (uniform => n <= MaxSeqs) => Len(Routing!DummyRequests(n, uniform, FALSE)) <= MaxSeqs
<1> DEFINE reqs == IF uniform THEN n ELSE Routing!Min({n, MaxSeqs})
           q == n \div reqs
           r == n % reqs
           f == [i \in 1 .. reqs |-> q + (IF i = reqs THEN r ELSE 0)]
<1>1. reqs \in Nat /\ reqs > 0 /\ reqs <= n /\ ((uniform => n <= MaxSeqs) => reqs <= MaxSeqs)
  <2>1. MaxSeqs \in Nat /\ MaxSeqs > 0
    BY Parameters
  <2>2. Routing!Min({n, MaxSeqs}) = IF n <= MaxSeqs THEN n ELSE MaxSeqs
    BY <2>1, MinOfTwo
  <2> QED
    BY <2>1, <2>2
<1>2. Routing!DummyRequests(n, uniform, FALSE) = f
  BY DEF Routing!DummyRequests
<1>3. q \in Nat /\ r \in Nat /\ reqs * q + r = n
  <2> HIDE DEF reqs
  <2> QED
    BY <1>1
<1> HIDE DEF reqs, q, r
<1>4. f \in [1 .. reqs -> Nat] /\ Len(f) = reqs
  BY <1>1, <1>3
<1>5. reqs \in 1 .. reqs /\ \A i \in 1 .. reqs : f[i] = IF i = reqs THEN q + r ELSE q
  BY <1>1, <1>3
<1> HIDE DEF f
<1>6. IsFiniteSet(1 .. reqs) /\ Cardinality(1 .. reqs) = reqs
  BY <1>1, FS_Interval
<1>7. PICK h : SumsOver(SUBSET (1 .. reqs), f, h) /\ Routing!Total(f) = h[1 .. reqs]
  BY <1>4, <1>6, TotalIsASum
<1>8. h[1 .. reqs] = Cardinality(1 .. reqs) * q + r
  <2> DEFINE S == 1 .. reqs
  <2>1. IsFiniteSet(S) /\ reqs \in S /\ \A i \in S : f[i] = IF i = reqs THEN q + r ELSE q
    BY <1>5, <1>6
  <2>2. SumsOver(SUBSET S, f, h)
    BY <1>7
  <2>3. h[S] = Cardinality(S) * q + r
    <3> HIDE DEF S
    <3> QED
      BY <1>3, <2>1, <2>2, SumOfShares
  <2> QED
    BY <2>3
<1> QED
  BY <1>1, <1>2, <1>3, <1>4, <1>6, <1>7, <1>8

LEMMA SizesArePositive ==
  ASSUME Sound, NEW n \in KeySizes
  PROVE  n \in Nat /\ n > 0
<1>1. \A s \in Sizes : s \in Nat /\ s > 0 /\ s * SP \in Nat /\ s < s * SP
  BY Parameters
<1>2. CASE n \in Sizes
  BY <1>1, <1>2
<1>3. CASE n \in {s * SP : s \in Sizes}
  <2>1. PICK s \in Sizes : n = s * SP
    BY <1>3
  <2>2. s \in Nat /\ s > 0 /\ n \in Nat /\ s < n
    BY <1>1, <2>1
  <2> QED
    BY <2>2
<1> QED
  BY <1>2, <1>3 DEF KeySizes

LEMMA CaptureIsSound ==
  ASSUME Sound, keys = AllKeys, captured = AllGraphs
  PROVE  Routing!CaptureAssertsHold
<1> SUFFICES ASSUME NEW c \in AllGraphs
             PROVE  LET reqs == Routing!DummyRequests(c.graph.tokens, c.graph.uniform, FALSE)
                    IN  /\ Routing!Dispatch(c.graph.tokens, c.graph.uniform) = c.graph
                        /\ Routing!Total(reqs) = c.graph.tokens
                        /\ c.graph.mode = "FULL" => Len(reqs) <= MaxSeqs
  BY DEF Routing!CaptureAssertsHold
<1>1. PICK n \in KeySizes :
        \/ /\ c.graph = Routing!Desc(Routing!MixedMode, n, FALSE) /\ Routing!MixedMode # "NONE"
           /\ Routing!MixedMode = "FULL" => n <= MaxSeqs
        \/ /\ c.graph = Routing!Desc("FULL", n, TRUE) /\ Routing!FullDecode /\ n <= MaxSeqs
           /\ n \in Routing!DecodeSizes \cup {s * SP : s \in Routing!DecodeSizes}
  BY GraphsAre
<1>2. n \in Nat /\ n > 0
  BY SizesArePositive
<1>3. ASSUME NEW u \in BOOLEAN
      PROVE  /\ Routing!Total(Routing!DummyRequests(n, u, FALSE)) = n
             /\ (u => n <= MaxSeqs) => Len(Routing!DummyRequests(n, u, FALSE)) <= MaxSeqs
  BY <1>2, DummyBatch
<1>4. CASE /\ c.graph = Routing!Desc(Routing!MixedMode, n, FALSE) /\ Routing!MixedMode # "NONE"
           /\ Routing!MixedMode = "FULL" => n <= MaxSeqs
  <2>1. /\ c.graph.tokens = n /\ c.graph.uniform = FALSE /\ c.graph.mode = Routing!MixedMode
    BY <1>4 DEF Routing!Desc
  <2>2. Routing!Desc(Routing!MixedMode, n, FALSE) \in keys
    BY <1>4, MixedKeysAre
  <2>3. Routing!MixedMode # "FULL" => Routing!Desc("FULL", n, FALSE) \notin keys
    BY KeysAre
  <2>4. Routing!Dispatch(n, FALSE) = Routing!Desc(Routing!MixedMode, n, FALSE)
    <3>1. CASE Routing!MixedMode = "FULL"
      BY <2>2, <3>1, Dispatched
    <3>2. CASE Routing!MixedMode = "PIECEWISE"
      BY <2>2, <2>3, <3>2, Dispatched
    <3> QED
      BY <1>4, <3>1, <3>2, GraphModesAre
  <2> QED
    BY <1>3, <1>4, <2>1, <2>4
<1>5. CASE /\ c.graph = Routing!Desc("FULL", n, TRUE) /\ Routing!FullDecode /\ n <= MaxSeqs
           /\ n \in Routing!DecodeSizes \cup {s * SP : s \in Routing!DecodeSizes}
  <2>1. c.graph.tokens = n /\ c.graph.uniform = TRUE
    BY <1>5 DEF Routing!Desc
  <2>2. Routing!Desc("FULL", n, TRUE) \in keys
    BY <1>5, DecodeKeysAre
  <2>3. Routing!Dispatch(n, TRUE) = Routing!Desc("FULL", n, TRUE)
    BY <2>2, Dispatched
  <2> QED
    BY <1>3, <1>5, <2>1, <2>3
<1> QED
  BY <1>1, <1>4, <1>5

\* The slices of all ranks are the rows, in order.
LEMMA SlicesCover ==
  ASSUME Sound, NEW p \in Nat, NEW total \in Nat, total <= p * SP, total <= MaxTokens
  PROVE  /\ 0 .. total - 1 \subseteq UNION {Routing!SliceOf(p * SP, r) : r \in 0 .. SP - 1}
         /\ Routing!Rows(p * SP) = SP * Cardinality(Routing!SliceOf(p * SP, 0))
<1> DEFINE rows == Routing!Rows(p * SP)
           share == rows \div SP
<1>0. SP \in Nat /\ SP > 1 /\ MaxTokens \in Nat /\ MaxTokens % SP = 0
  BY Parameters
<1>1. rows \in Nat /\ total <= rows /\ share \in Nat /\ rows = share * SP
  <2> DEFINE a == p * SP
  <2>1. a \in Nat
    BY <1>0
  <2>2. a % SP = 0
    BY <1>0
  <2>3. total <= a
    OBVIOUS
  <2> HIDE DEF a
  <2>4. rows = IF a <= MaxTokens THEN a ELSE MaxTokens
    BY <1>0, <2>1, MinOfTwo DEF Routing!Rows, a
  <2> HIDE DEF rows
  <2>5. rows \in Nat /\ total <= rows /\ rows % SP = 0
    BY <1>0, <2>1, <2>2, <2>3, <2>4
  <2>6. \A m, k \in Nat : k > 0 /\ m % k = 0 => m = (m \div k) * k /\ m \div k \in Nat
    OBVIOUS
  <2> QED
    BY <1>0, <2>5, <2>6
<1>2. \A r : Routing!SliceOf(p * SP, r) = share * r .. share * (r + 1) - 1
  BY DEF Routing!SliceOf
<1> HIDE DEF rows, share
<1>3. ASSUME NEW x \in 0 .. total - 1
      PROVE  x \in UNION {Routing!SliceOf(p * SP, r) : r \in 0 .. SP - 1}
  <2> DEFINE r == x \div share
  <2>1. x \in Nat /\ x < share * SP /\ share > 0
    <3>1. x \in Nat /\ x < rows
      BY <1>1
    <3>2. share # 0
      BY <1>0, <1>1, <3>1
    <3> QED
      BY <1>1, <3>1, <3>2
  <2>2. r \in Nat /\ share * r <= x /\ x < share * r + share
    BY <1>1, <2>1
  <2> HIDE DEF r
  <2>3. share * (r + 1) = share * r + share /\ share * r \in Nat
    BY <1>1, <2>2
  <2>4. r < SP
    <3> SUFFICES ASSUME SP <= r PROVE FALSE
      BY <1>0, <2>2
    <3>1. share * SP <= share * r /\ share * SP \in Nat
      BY <1>0, <1>1, <2>2
    <3> QED
      BY <2>1, <2>2, <2>3, <3>1
  <2>5. x \in Routing!SliceOf(p * SP, r)
    <3> DEFINE lo == share * r
               hi == share * (r + 1)
    <3>1. Routing!SliceOf(p * SP, r) = lo .. hi - 1
      BY <1>2
    <3>2. lo \in Nat /\ hi = lo + share /\ lo <= x /\ x < lo + share
      BY <2>2, <2>3
    <3> HIDE DEF lo, hi
    <3> QED
      BY <1>1, <2>1, <3>1, <3>2
  <2>6. r \in 0 .. SP - 1
    BY <1>0, <2>2, <2>4
  <2> QED
    BY <2>5, <2>6
<1>4. rows = SP * Cardinality(Routing!SliceOf(p * SP, 0))
  <2>1. Routing!SliceOf(p * SP, 0) = 0 .. share - 1
    <3>1. share * 0 = 0 /\ share * (0 + 1) = share
      BY <1>1
    <3> QED
      BY <1>2, <3>1
  <2>2. Cardinality(0 .. share - 1) = share
    BY <1>1, FS_Interval
  <2> QED
    BY <1>0, <1>1, <2>1, <2>2
<1> QED
  BY <1>3, <1>4 DEF rows

-----------------------------------------------------------------------------
(* What start-up has made of the keys and the graphs in each phase, and    *)
(* that the last batch ran as execute_model says.                          *)

Outcome(b) ==
  [batch |-> b, model |-> IF Routing!UseShiftModel(b) THEN "shift" ELSE "base",
   tokens |-> Routing!NumInputTokens(b, Routing!UseShiftModel(b)),
   graph |-> Routing!Dispatch(Routing!NumInputTokens(b, Routing!UseShiftModel(b)),
                              Routing!UniformDecode(b))]

RoutingInv ==
  /\ phase \in {"loaded", "keyed", "captured", "failed"}
  /\ phase = "loaded" => keys = {}
  /\ phase = "failed" => keys = Routing!OrigKeys
  /\ phase \in {"keyed", "captured"} => keys = AllKeys
  /\ captured = IF phase = "captured" THEN AllGraphs ELSE {}
  /\ run = Routing!NoRun \/ (phase = "captured" /\ \E b \in Routing!Batches : run = Outcome(b))

LEMMA RoutingStarts == Routing!Init => RoutingInv
BY DEF Routing!Init, RoutingInv

LEMMA RoutingStep ==
  ASSUME RoutingInv, [Routing!Next]_(Routing!vars)
  PROVE  RoutingInv'
<1>1. CASE UNCHANGED Routing!vars
  <2>1. /\ phase' = phase /\ keys' = keys /\ captured' = captured /\ run' = run
    BY <1>1 DEF Routing!vars
  <2>2. ASSUME NEW b PROVE Outcome(b)' = Outcome(b)
    BY <2>1 DEF Outcome, Routing!Dispatch
  <2> QED
    BY <2>1, <2>2 DEF RoutingInv
<1>2. CASE Routing!InitializeKeys
  <2>1. /\ phase = "loaded" /\ captured' = captured /\ run' = run /\ captured = {} /\ run = Routing!NoRun
    BY <1>2 DEF Routing!InitializeKeys, RoutingInv
  <2>2. CASE Routing!SpSizeUnbound
    <3>1. phase' = "failed" /\ keys' = Routing!OrigKeys
      BY <1>2, <2>2 DEF Routing!InitializeKeys
    <3> QED
      BY <2>1, <3>1 DEF RoutingInv
  <2>3. CASE ~Routing!SpSizeUnbound
    <3>1. phase' = "keyed" /\ keys' = AllKeys
      BY <1>2, <2>3 DEF Routing!InitializeKeys, AllKeys
    <3> QED
      BY <2>1, <3>1 DEF RoutingInv
  <2> QED
    BY <2>2, <2>3
<1>3. CASE Routing!Capture
  <2>1. /\ phase = "keyed" /\ phase' = "captured" /\ keys' = keys /\ run' = run
        /\ keys = AllKeys /\ run = Routing!NoRun
    BY <1>3 DEF Routing!Capture, RoutingInv
  <2>2. captured' = AllGraphs
    BY <1>3 DEF Routing!Capture, AllGraphs
  <2> QED
    BY <2>1, <2>2 DEF RoutingInv
<1>4. ASSUME NEW b \in Routing!Batches, Routing!Execute(b) PROVE RoutingInv'
  <2>1. /\ phase = "captured" /\ phase' = phase /\ keys' = keys /\ captured' = captured
        /\ keys = AllKeys /\ captured = AllGraphs
    BY <1>4 DEF Routing!Execute, RoutingInv
  <2>2. run' = Outcome(b)
    BY <1>4 DEF Routing!Execute, Outcome
  <2>3. Outcome(b)' = Outcome(b)
    BY <2>1 DEF Outcome, Routing!Dispatch
  <2> QED
    BY <2>1, <2>2, <2>3 DEF RoutingInv
<1> QED
  BY <1>1, <1>2, <1>3, <1>4 DEF Routing!Next

LEMMA KeysAreDescs ==
  ASSUME Sound
  PROVE  /\ AllKeys \subseteq Routing!Descs /\ Routing!OrigKeys \subseteq Routing!Descs
         /\ AllGraphs \subseteq [model : {"base", "shift"}, graph : Routing!Descs]
<1>1. ASSUME NEW kind \in {"PIECEWISE", "FULL"}, NEW n \in KeySizes, NEW u \in BOOLEAN
      PROVE  Routing!Desc(kind, n, u) \in Routing!Descs
  BY SizesArePositive DEF Routing!Desc, Routing!Descs
<1>2. Routing!MixedMode # "NONE" => Routing!MixedMode \in {"PIECEWISE", "FULL"}
  BY GraphModesAre
<1>3. /\ \A s \in Sizes : s \in KeySizes /\ s * SP \in KeySizes
      /\ Routing!DecodeSizes \subseteq Sizes
  BY DEF KeySizes, Routing!DecodeSizes
<1>4. Routing!OrigKeys \subseteq Routing!Descs
  BY <1>1, <1>2, <1>3 DEF Routing!OrigKeys
<1>5. Routing!SpMixedKeys \subseteq Routing!Descs /\ Routing!SpDecodeKeys \subseteq Routing!Descs
  BY <1>1, <1>2, <1>3 DEF Routing!SpMixedKeys, Routing!SpDecodeKeys
<1>6. ASSUME NEW c \in AllGraphs
      PROVE  c \in [model : {"base", "shift"}, graph : Routing!Descs]
  <2>1. \E m \in {"base", "shift"} : \E g : c = [model |-> m, graph |-> g]
    BY DEF AllGraphs, Routing!GraphsOf
  <2>2. c.graph \in Routing!Descs
    BY <1>1, <1>2, GraphsAre
  <2> QED
    BY <2>1, <2>2
<1> QED
  BY <1>4, <1>5, <1>6 DEF AllKeys

\* FiniteSets as the instance sees it.
LEMMA CardinalityIsTheSame == \A S : Routing!Cardinality(S) = Cardinality(S)
BY DEF Routing!Cardinality, Cardinality, Routing!IsFiniteSet, IsFiniteSet

LEMMA NoRunIsSafe ==
  ASSUME Sound, run = Routing!NoRun
  PROVE  Routing!RequiredGraphsCaptured /\ Routing!SlicesCoverBatch
<1>1. /\ run.batch = <<>> /\ run.tokens = 0 /\ run.graph = Routing!NoGraph /\ run.model = "base"
  BY DEF Routing!NoRun
<1>2. Routing!Total(<<>>) = 0
  <2> DEFINE b == <<>>
  <2>1. b \in [1 .. 0 -> Nat] /\ \A i \in 1 .. 0 : b[i] = 1
    OBVIOUS
  <2>2. 0 \in Nat
    OBVIOUS
  <2> HIDE DEF b
  <2>3. Routing!Total(b) = 0
    BY <2>1, <2>2, TotalOf
  <2> QED
    BY <2>3 DEF b
<1>3. /\ 0 .. Routing!Total(<<>>) - 1 \subseteq UNION {Routing!SliceOf(0 * SP, r) : r \in 0 .. SP - 1}
      /\ Routing!Rows(0 * SP) = SP * Cardinality(Routing!SliceOf(0 * SP, 0))
  <2>1. 0 \in Nat /\ 0 <= 0 * SP /\ 0 <= MaxTokens
    BY Parameters
  <2> QED
    BY <1>2, <2>1, SlicesCover
<1>4. 0 * SP = 0
  BY Parameters
<1> QED
  BY <1>1, <1>3, <1>4, CardinalityIsTheSame DEF Routing!RequiredGraphsCaptured, Routing!SlicesCoverBatch

LEMMA OutcomeIsSafe ==
  ASSUME Sound, keys = AllKeys, captured = AllGraphs, NEW b \in Routing!Batches, run = Outcome(b)
  PROVE  /\ Routing!ThresholdGraphsCaptured /\ Routing!SlicesCoverBatch
         /\ ~Adaptive => Routing!RequiredGraphsCaptured
         /\ run.tokens \in 0 .. Routing!Max({MaxTokens, Routing!LargestSize * SP})
         /\ run.graph \in Routing!Descs \cup {Routing!NoGraph}
<1> DEFINE shift == Routing!UseShiftModel(b)
           n == Routing!NumInputTokens(b, shift)
           uniform == Routing!UniformDecode(b)
           total == Routing!Total(b)
<1>1. /\ run.batch = b /\ run.model = (IF shift THEN "shift" ELSE "base") /\ run.tokens = n
      /\ run.graph = Routing!Dispatch(n, uniform)
  BY DEF Outcome
<1>2. /\ total \in Nat /\ total <= MaxTokens /\ Threshold \in Nat /\ SP \in Nat /\ SP > 1
      /\ MaxTokens \in Nat /\ Routing!LargestSize \in Nat
  BY BatchFacts, Parameters, Largest
<1>3. ASSUME shift => total <= Threshold PROVE Routing!RequiredGraphsCaptured
  <2>1. ASSUME Routing!Dispatch(n, uniform) # Routing!NoGraph
        PROVE  [model |-> IF shift THEN "shift" ELSE "base", graph |-> Routing!Dispatch(n, uniform)]
                 \in AllGraphs
    BY <1>3, <2>1, GraphIsCaptured
  <2> HIDE DEF n, uniform, shift
  <2> QED
    BY <1>1, <2>1 DEF Routing!RequiredGraphsCaptured
<1>4. run.graph \in Routing!Descs \cup {Routing!NoGraph}
  <2>1. uniform \in BOOLEAN
    BY DEF Routing!UniformDecode
  <2> HIDE DEF n, uniform
  <2>2. Routing!Dispatch(n, uniform) \in keys \cup {Routing!NoGraph}
    BY <2>1, Dispatched
  <2> QED
    BY <1>1, <2>2, KeysAreDescs
<1>5. /\ (total <= Threshold => shift) /\ shift \in BOOLEAN
      /\ ~Adaptive => (shift => total <= Threshold)
  BY Parameters DEF Routing!UseShiftModel
<1>10. Routing!ThresholdGraphsCaptured
  <2>1. CASE shift /\ ~(total <= Threshold)
    <3>1. total > Threshold
      BY <1>2, <2>1
    <3> HIDE DEF n
    <3> QED
      BY <1>1, <2>1, <3>1 DEF Routing!ThresholdGraphsCaptured, Routing!RoutedAdaptively
  <2>2. CASE shift => total <= Threshold
    BY <1>3, <2>2 DEF Routing!ThresholdGraphsCaptured
  <2> QED
    BY <2>1, <2>2
<1>11. ~Adaptive => Routing!RequiredGraphsCaptured
  BY <1>3, <1>5
<1>6. ASSUME ~shift
      PROVE  \E p \in Nat : n = p * SP /\ total <= p * SP /\ (p \in Sizes \/ n <= MaxTokens)
  <2>1. total > Threshold
    BY <1>2, <1>5, <1>6
  <2>2. shift = FALSE
    BY <1>5, <1>6
  <2>3. n = Routing!NumInputTokens(b, FALSE)
    <3> HIDE DEF shift
    <3> QED
      BY <2>2, Zenon
  <2>4. PICK p \in Nat : /\ Routing!NumInputTokens(b, FALSE) = p * SP
                         /\ total <= Routing!NumInputTokens(b, FALSE)
                         /\ p \in Sizes \/ Routing!NumInputTokens(b, FALSE) <= MaxTokens
    BY <2>1, BaseSize
  <2> HIDE DEF n, total
  <2> QED
    BY <2>3, <2>4
<1>7. Routing!SlicesCoverBatch
  <2> SUFFICES ASSUME ~shift
               PROVE  /\ 0 .. total - 1 \subseteq UNION {Routing!SliceOf(n, r) : r \in 0 .. SP - 1}
                      /\ Routing!Rows(n) = SP * Cardinality(Routing!SliceOf(n, 0))
    <3> HIDE DEF n, shift
    <3> QED
      BY <1>1, CardinalityIsTheSame DEF Routing!SlicesCoverBatch
  <2>1. PICK p \in Nat : n = p * SP /\ total <= p * SP
    BY <1>6
  <2> HIDE DEF n, total
  <2>2. /\ 0 .. total - 1 \subseteq UNION {Routing!SliceOf(p * SP, r) : r \in 0 .. SP - 1}
        /\ Routing!Rows(p * SP) = SP * Cardinality(Routing!SliceOf(p * SP, 0))
    BY <1>2, <2>1, SlicesCover
  <2> QED
    BY <2>1, <2>2
<1>8. n \in Nat /\ (n <= MaxTokens \/ n <= Routing!LargestSize * SP)
  <2>1. CASE ~shift
    <3>1. PICK p \in Nat : n = p * SP /\ (p \in Sizes \/ n <= MaxTokens)
      BY <1>6, <2>1
    <3>2. n \in Nat
      <4> HIDE DEF n
      <4> QED
        BY <1>2, <3>1
    <3>3. p \in Sizes => p <= Routing!LargestSize
      BY Largest
    <3>4. p \in Sizes => p * SP <= Routing!LargestSize * SP
      BY <1>2, <3>3
    <3> HIDE DEF n
    <3> QED
      BY <3>1, <3>2, <3>4
  <2>2. CASE shift
    <3>1. n = Routing!NumInputTokens(b, TRUE)
      <4>1. shift = TRUE
        BY <1>5, <2>2
      <4> HIDE DEF shift
      <4> QED
        BY <4>1, Zenon
    <3>2. CASE GraphMode # "NONE" /\ total <= Routing!LargestSize
      <4>1. n = Routing!PadForCudagraph(total)
        BY <3>1, <3>2 DEF Routing!NumInputTokens
      <4>2. n \in Sizes
        BY <1>2, <3>2, <4>1, PaddedSize
      <4> HIDE DEF n
      <4>3. n \in Nat /\ n <= Routing!LargestSize /\ n <= n * SP
        BY <4>2, Largest, Parameters
      <4>4. n * SP <= Routing!LargestSize * SP /\ n * SP \in Nat /\ Routing!LargestSize * SP \in Nat
        BY <1>2, <4>3
      <4> QED
        BY <4>3, <4>4
    <3>3. CASE ~(GraphMode # "NONE" /\ total <= Routing!LargestSize)
      <4>1. n = total
        BY <3>1, <3>3 DEF Routing!NumInputTokens
      <4> QED
        BY <1>2, <4>1
    <3> QED
      BY <3>2, <3>3
  <2> QED
    BY <2>1, <2>2
<1>9. run.tokens \in 0 .. Routing!Max({MaxTokens, Routing!LargestSize * SP})
  <2> DEFINE top == Routing!LargestSize * SP
             m == Routing!Max({MaxTokens, top})
  <2>1. top \in Nat
    BY <1>2
  <2>2. n \in Nat /\ (n <= MaxTokens \/ n <= top)
    BY <1>8
  <2> HIDE DEF top
  <2>3. m \in {MaxTokens, top} /\ \A x \in {MaxTokens, top} : x <= m
    <3> DEFINE T == {MaxTokens, top}
    <3>1. T \subseteq Nat /\ T # {} /\ IsFiniteSet(T)
      <4>1. IsFiniteSet({MaxTokens} \cup {top})
        BY FS_Singleton, FS_AddElement
      <4>2. T = {MaxTokens} \cup {top}
        OBVIOUS
      <4> QED
        BY <1>2, <2>1, <4>1, <4>2
    <3>2. Routing!Max(T) \in T /\ \A x \in T : x <= Routing!Max(T)
      <4> HIDE DEF T
      <4> QED
        BY <3>1, MaxOf
    <3> QED
      BY <3>2
  <2> HIDE DEF m, n
  <2>4. n \in 0 .. m
    BY <1>2, <2>1, <2>2, <2>3
  <2> QED
    BY <1>1, <2>4 DEF m, top
<1> QED
  BY <1>4, <1>7, <1>9, <1>10, <1>11

LEMMA RoutingSafe ==
  ASSUME Sound, RoutingInv
  PROVE  /\ Routing!TypeOK /\ Routing!ThresholdGraphsCaptured /\ Routing!CaptureAssertsHold
         /\ Routing!SlicesCoverBatch
         /\ ~Adaptive => Routing!RequiredGraphsCaptured
<1>1. phase = "captured" => keys = AllKeys /\ captured = AllGraphs
  BY DEF RoutingInv
<1>2. Routing!CaptureAssertsHold
  <2>1. CASE phase = "captured"
    BY <1>1, <2>1, CaptureIsSound
  <2>2. CASE phase # "captured"
    BY <2>2 DEF RoutingInv, Routing!CaptureAssertsHold
  <2> QED
    BY <2>1, <2>2
<1>3. /\ Routing!ThresholdGraphsCaptured /\ Routing!SlicesCoverBatch
      /\ ~Adaptive => Routing!RequiredGraphsCaptured
      /\ run.batch \in Routing!Batches \cup {<<>>} /\ run.model \in {"base", "shift"}
      /\ run.tokens \in 0 .. Routing!Max({MaxTokens, Routing!LargestSize * SP})
      /\ run.graph \in Routing!Descs \cup {Routing!NoGraph}
  <2>1. CASE run = Routing!NoRun
    <3>1. /\ run.batch = <<>> /\ run.model = "base" /\ run.tokens = 0 /\ run.graph = Routing!NoGraph
      BY <2>1 DEF Routing!NoRun
    <3>2. 0 \in 0 .. Routing!Max({MaxTokens, Routing!LargestSize * SP})
      <4> DEFINE T == {MaxTokens, Routing!LargestSize * SP}
      <4>1. MaxTokens \in Nat /\ Routing!LargestSize \in Nat /\ SP \in Nat
        BY Parameters, Largest
      <4>2. T \subseteq Nat /\ T # {} /\ T = {MaxTokens} \cup {Routing!LargestSize * SP}
        BY <4>1
      <4>3. IsFiniteSet({MaxTokens} \cup {Routing!LargestSize * SP})
        BY FS_Singleton, FS_AddElement
      <4>4. IsFiniteSet(T)
        BY <4>2, <4>3
      <4>5. Routing!Max(T) \in T
        <5> HIDE DEF T
        <5> QED
          BY <4>2, <4>4, MaxOf
      <4>6. Routing!Max(T) \in Nat
        BY <4>2, <4>5
      <4> QED
        BY <4>6
    <3> QED
      BY <2>1, <3>1, <3>2, NoRunIsSafe DEF Routing!ThresholdGraphsCaptured
  <2>2. ASSUME NEW b \in Routing!Batches, phase = "captured", run = Outcome(b)
        PROVE  /\ Routing!ThresholdGraphsCaptured /\ Routing!SlicesCoverBatch
               /\ ~Adaptive => Routing!RequiredGraphsCaptured
               /\ run.batch \in Routing!Batches /\ run.model \in {"base", "shift"}
               /\ run.tokens \in 0 .. Routing!Max({MaxTokens, Routing!LargestSize * SP})
               /\ run.graph \in Routing!Descs \cup {Routing!NoGraph}
    <3>1. run.batch = b /\ run.model \in {"base", "shift"}
      BY <2>2 DEF Outcome
    <3> QED
      BY <1>1, <2>2, <3>1, OutcomeIsSafe
  <2> QED
    BY <2>1, <2>2 DEF RoutingInv
<1>4. Routing!TypeOK
  BY <1>1, <1>3, KeysAreDescs DEF RoutingInv, Routing!TypeOK
<1> QED
  BY <1>2, <1>3, <1>4

(* The dispatch, for any sizes, threshold, degree and graph mode that are  *)
(* WellSized: a batch that the threshold decides on finds its graph, with  *)
(* or without the adaptive rule; without it, every batch does.             *)
THEOREM EveryGraphIsThere ==
  ASSUME Routing!BatchRoutingAssumption, Routing!WellSized
  PROVE  Routing!Spec =>
           [](/\ Routing!TypeOK /\ Routing!ThresholdGraphsCaptured
              /\ Routing!CaptureAssertsHold /\ Routing!SlicesCoverBatch
              /\ ~Adaptive => Routing!RequiredGraphsCaptured)
<1>1. Sound
  BY DEF Sound
<1>2. RoutingInv /\ [Routing!Next]_(Routing!vars) => RoutingInv'
  BY RoutingStep
<1>3. RoutingInv => /\ Routing!TypeOK /\ Routing!ThresholdGraphsCaptured
                    /\ Routing!CaptureAssertsHold /\ Routing!SlicesCoverBatch
                    /\ ~Adaptive => Routing!RequiredGraphsCaptured
  BY <1>1, RoutingSafe
<1> QED
  BY <1>2, <1>3, RoutingStarts, PTL DEF Routing!Spec

(* DispatchSound, of the engine's composition: for sizes that are          *)
(* WellSized, which MCEngine assumes, and both values of Adaptive; of a    *)
(* batch that the adaptive rule puts on the shift model it does not say    *)
(* that its graph was captured.                                            *)
THEOREM EngineDispatches == MCSpec => []DispatchSound
<1> DEFINE On == part = "routing"
           Safe == /\ Routing!TypeOK /\ Routing!ThresholdGraphsCaptured
                   /\ Routing!CaptureAssertsHold /\ Routing!SlicesCoverBatch
                   /\ ~Adaptive => Routing!RequiredGraphsCaptured
<1>1. On /\ [MCNext]_MCvars => On'
  BY DEF MCNext, Rest, MCvars
<1>2. ~On /\ [MCNext]_MCvars => ~On'
  BY DEF MCNext, Rest, MCvars
<1>3. On /\ MCInit => Routing!Init
  BY DEF MCInit
<1>4. On /\ [MCNext]_MCvars => [Routing!Next]_(Routing!vars)
  BY DEF MCNext, MCvars, routingVars, Routing!vars
<1>5. Routing!Spec => []Safe
  <2>1. Routing!BatchRoutingAssumption
    BY RoutingAssumption
  <2>2. Routing!WellSized
    BY RoutingAssumption
  <2> QED
    BY <2>1, <2>2, EveryGraphIsThere
<1>6. (On => Safe) => DispatchSound
  BY DEF DispatchSound
<1> HIDE DEF On, Safe
<1> QED
  BY <1>1, <1>2, <1>3, <1>4, <1>5, <1>6, PTL DEF MCSpec, Routing!Spec

-----------------------------------------------------------------------------
(* ExecutorStart.  What the stages of the executor say of its workers: it  *)
(* makes them in the order of the ranks, and none is connected before all  *)
(* were heard.                                                             *)
StagesAgree ==
  /\ \A r \in Start!Ranks : worker[r] # "none" => r < created
  /\ executor \in {"rpc", "respond", "running"} => heard = Start!Ranks
  /\ executor \in {"respond", "running"} =>
       \A r \in Start!Ranks : worker[r] \in {"respond", "serving", "dead"}
  /\ (\E r \in Start!Ranks : worker[r] \in {"respond", "serving"}) =>
       executor \in {"respond", "running"}

StartInv == Start!TypeOK /\ StagesAgree /\ Start!NoOrphans

LEMMA StartBegins == ASSUME Start!WorldAssumption PROVE Start!Init => StartInv
<1> SUFFICES ASSUME Start!Init PROVE StartInv
  OBVIOUS
<1> USE DEF Start!Init, Start!Ranks, Start!WorldAssumption
<1>1. Start!TypeOK
  BY DEF Start!TypeOK
<1> QED
  BY <1>1 DEF StartInv, StagesAgree, Start!NoOrphans

(* A step of one worker, to a state that is not connected. *)
LEMMA WorkerMoves ==
  ASSUME StartInv, NEW r \in Start!Ranks, NEW s \in {"syncing", "rpc", "dead"},
         worker[r] # "none", worker[r] \in {"started", "syncing"} \/ s = "dead",
         worker' = [worker EXCEPT ![r] = s],
         worker[r] # "dead", UNCHANGED <<executor, created, heard>>, crashes' \in 0 .. MaxCrashes
  PROVE  StartInv'
<1>1. Start!TypeOK'
  BY DEF StartInv, Start!TypeOK, Start!Ranks
<1>2. \A q \in Start!Ranks : worker'[q] = IF q = r THEN s ELSE worker[q]
  BY DEF StartInv, Start!TypeOK
<1>3. StagesAgree'
  BY <1>2 DEF StartInv, StagesAgree, Start!Ranks
<1>4. Start!NoOrphans'
  BY <1>2 DEF StartInv, Start!NoOrphans, Start!Alive, Start!Ranks
<1> QED
  BY <1>1, <1>3, <1>4 DEF StartInv

LEMMA StartMoves == ASSUME Start!WorldAssumption PROVE StartInv /\ [Start!Next]_(Start!vars) => StartInv'
<1> SUFFICES ASSUME StartInv, [Start!Next]_(Start!vars) PROVE StartInv'
  OBVIOUS
<1>0. /\ NumWorkers \in Nat \ {0} /\ MaxCrashes \in Nat
      /\ created \in 0 .. NumWorkers /\ crashes \in 0 .. MaxCrashes
  BY DEF StartInv, Start!TypeOK, Start!WorldAssumption
<1>1. CASE Start!MakeWorker
  <2>1. created \in Start!Ranks /\ created' = created + 1 /\ created' \in 0 .. NumWorkers
    BY <1>0, <1>1 DEF Start!MakeWorker, Start!Ranks
  <2>2. \A q \in Start!Ranks : worker'[q] = IF q = created THEN "started" ELSE worker[q]
    BY <1>1, <2>1 DEF Start!MakeWorker, StartInv, Start!TypeOK
  <2>3. Start!TypeOK'
    BY <1>1, <2>1 DEF Start!MakeWorker, StartInv, Start!TypeOK, Start!Ranks
  <2>4. \A q \in Start!Ranks : worker'[q] # "none" => q < created'
    BY <1>0, <2>1, <2>2 DEF StartInv, StagesAgree, Start!Ranks
  <2>5. StagesAgree' /\ Start!NoOrphans'
    BY <1>1, <2>2, <2>4 DEF Start!MakeWorker, StartInv, StagesAgree, Start!NoOrphans, Start!Ranks
  <2> QED
    BY <2>3, <2>5 DEF StartInv
<1>2. CASE Start!MakeWorkerRaises
  BY <1>0, <1>2 DEF Start!MakeWorkerRaises, StartInv, Start!TypeOK, StagesAgree, Start!NoOrphans, Start!Ranks
<1>3. CASE Start!WaitForReady
  BY <1>0, <1>3 DEF Start!WaitForReady, StartInv, Start!TypeOK, StagesAgree, Start!NoOrphans, Start!Ranks
<1>4. ASSUME NEW r \in Start!Ranks, Start!Hear(r) PROVE StartInv'
  BY <1>4 DEF Start!Hear, StartInv, Start!TypeOK, StagesAgree, Start!NoOrphans, Start!Ranks
<1>5. ASSUME NEW r \in Start!Ranks, Start!HearFailure(r) PROVE StartInv'
  BY <1>5 DEF Start!HearFailure, StartInv, Start!TypeOK, StagesAgree, Start!NoOrphans, Start!Ranks
<1>6. CASE Start!ConnectBroadcast
  BY <1>6 DEF Start!ConnectBroadcast, StartInv, Start!TypeOK, StagesAgree, Start!NoOrphans, Start!Ranks
<1>7. ASSUME NEW r \in Start!Ranks, Start!ConnectResponses(r) PROVE StartInv'
  <2>1. \A q \in Start!Ranks : worker'[q] = IF q = r THEN "serving" ELSE worker[q]
    BY <1>7 DEF Start!ConnectResponses, StartInv, Start!TypeOK
  <2>2. Start!TypeOK'
    BY <1>7 DEF Start!ConnectResponses, StartInv, Start!TypeOK, Start!Ranks
  <2>3. StagesAgree' /\ Start!NoOrphans'
    BY <1>7, <2>1 DEF Start!ConnectResponses, StartInv, StagesAgree, Start!NoOrphans, Start!Ranks
  <2> QED
    BY <2>2, <2>3 DEF StartInv
<1>8. CASE Start!StartMonitor
  BY <1>8 DEF Start!StartMonitor, StartInv, Start!TypeOK, StagesAgree, Start!NoOrphans, Start!Ranks
<1>9. CASE Start!CleanUp
  <2>1. \A q \in Start!Ranks : worker'[q] \in {"dead", "none"}
    BY <1>0, <1>9 DEF Start!CleanUp, StartInv, StagesAgree
  <2>2. \A q \in Start!Ranks : worker'[q] # "none" => q < created
    BY <1>0, <1>9 DEF Start!CleanUp, StartInv, StagesAgree
  <2>3. Start!TypeOK'
    BY <1>9 DEF Start!CleanUp, StartInv, Start!TypeOK, Start!Ranks
  <2> QED
    BY <1>9, <2>1, <2>2, <2>3 DEF Start!CleanUp, StartInv, StagesAgree, Start!NoOrphans, Start!Alive, Start!Ranks
<1>10. ASSUME NEW r \in Start!Ranks, Start!EnterDeviceSync(r) PROVE StartInv'
  BY <1>0, <1>10, WorkerMoves DEF Start!EnterDeviceSync
<1>11. ASSUME NEW r \in Start!Ranks, Start!SendReady(r) PROVE StartInv'
  BY <1>0, <1>11, WorkerMoves DEF Start!SendReady
<1>12. ASSUME NEW r \in Start!Ranks, Start!Crash(r) PROVE StartInv'
  <2>1. crashes' \in 0 .. MaxCrashes
    BY <1>0, <1>12 DEF Start!Crash
  <2> QED
    BY <1>12, <2>1, WorkerMoves DEF Start!Crash, Start!Alive
<1>13. CASE UNCHANGED Start!vars
  BY <1>13 DEF Start!vars, StartInv, Start!TypeOK, StagesAgree, Start!NoOrphans, Start!Alive, Start!Ranks
<1> QED
  BY <1>1, <1>2, <1>3, <1>4, <1>5, <1>6, <1>7, <1>8, <1>9, <1>10, <1>11, <1>12, <1>13
     DEF Start!Next, Start!ExecutorStep, Start!WorkerStep

(* _init_executor, for any number of ranks and any workers that die: a     *)
(* start that fails leaves no process behind, and no worker serves before  *)
(* all of them reported READY and are connected.                           *)
THEOREM StartLeavesNoOrphans ==
  ASSUME Start!WorldAssumption
  PROVE  Start!Spec => [](Start!TypeOK /\ Start!NoOrphans /\ Start!ServeTogether)
<1>1. StartInv => Start!TypeOK /\ Start!NoOrphans /\ Start!ServeTogether
  BY DEF StartInv, StagesAgree, Start!ServeTogether
<1> QED
  BY <1>1, StartBegins, StartMoves, PTL DEF Start!Spec
=============================================================================
