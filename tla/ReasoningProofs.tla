------------------------- MODULE ReasoningProofs ----------------------------
(***************************************************************************)
(* Proofs about DynasorProxy, for every interval, window, set of answers   *)
(* and length of the stream: whichever chunk a probe ends behind, its      *)
(* answer is taken once and in order, the client's stream is the model's,  *)
(* and it is cut short only on answers that agree.  Then about CotRounds,  *)
(* for every budget, chunk size and threshold: when the rounds end, and    *)
(* what was asked for by then.                                             *)
(***************************************************************************)
EXTENDS MCReasoning, SequenceTheorems, FiniteSetTheorems, TLAPS

(* What the client got of the model. *)
Passed == [i \in 1 .. Len(chunks) |-> i]

(* Only the last probe runs, if any; it is the task, until it is taken.    *)
OnePending ==
    /\ task \in {0, Len(probes)}
    /\ inProgress => task # 0 /\ probes[task].state = "running"
    /\ \A p \in DOMAIN probes : probes[p].state = "running" => inProgress /\ p = Len(probes)

Collected ==
    /\ Len(answered) = Len(probes) - (IF task = 0 THEN 0 ELSE 1)
    /\ \A i \in DOMAIN answered : answered[i] = i

LongerTexts ==
    /\ wanted => processed > 0
    /\ \A p \in DOMAIN probes : probes[p].of <= processed
    /\ \A p \in DOMAIN probes : p > 1 => probes[p - 1].of <= probes[p].of

LastAgree ==
    /\ Len(answered) >= window
    /\ \E a \in Answers : \A i \in Len(answered) - window + 1 .. Len(answered) :
          probes[i].answer = a /\ probes[i].certain

(* What was sent, and why, if it is not the stream of the model. *)
Stream ==
    \/ status # "ended" /\ sent = Passed
    \/ status = "ended" /\ sent = Passed \o <<Done>>
    \/ /\ status = "ended" /\ sent = Passed \o <<Final, Finish, Done>>
       /\ LastAgree

IInv == TypeOK /\ OnePending /\ Collected /\ LongerTexts /\ Stream

Probe == [of : 1 .. MaxChunks, state : {"running", "done", "failed"},
          answer : Answers \union {NoAnswer}, certain : BOOLEAN]

Parcel == (1 .. MaxChunks) \union {Final, Finish, Done}

LEMMA Params ==
    /\ Intervals \subseteq Nat /\ Windows \subseteq Nat /\ MaxChunks \in Nat
    /\ ChunkKinds \subseteq {"text", "mute", "length", "stop", "usage"}
    /\ NoAnswer \notin Answers /\ Answers # {}
  BY DynasorProxyAssumption

-----------------------------------------------------------------------------
(***************************************************************************)
(* Sequences.                                                              *)
(***************************************************************************)

(* The next chunk, passed on. *)
LEMMA PassedNext ==
    ASSUME NEW n \in Nat
    PROVE  Append([i \in 1 .. n |-> i], n + 1) = [i \in 1 .. n + 1 |-> i]
<1> DEFINE s == [i \in 1 .. n |-> i]
           t == [i \in 1 .. n + 1 |-> i]
           app == Append(s, n + 1)
<1>1. s \in Seq(Nat) /\ Len(s) = n /\ t \in Seq(Nat) /\ Len(t) = n + 1
  OBVIOUS
<1>2. /\ \A i \in 1 .. n : s[i] = i
      /\ \A i \in 1 .. n + 1 : t[i] = i
  OBVIOUS
<1> HIDE DEF s, t
<1>3. /\ app \in Seq(Nat) /\ Len(app) = Len(s) + 1 /\ app[Len(s) + 1] = n + 1
      /\ \A i \in 1 .. Len(s) : app[i] = s[i]
  <2>1. n + 1 \in Nat
    OBVIOUS
  <2> QED
    BY <1>1, <2>1, AppendProperties
<1> HIDE DEF app
<1>4. \A i \in 1 .. Len(app) : app[i] = t[i]
  <2> SUFFICES ASSUME NEW i \in 1 .. n + 1 PROVE app[i] = i
    BY <1>1, <1>2, <1>3
  <2>1. CASE i \in 1 .. n
    BY <1>1, <1>2, <1>3, <2>1
  <2>2. CASE i = n + 1
    BY <1>1, <1>3, <2>2
  <2> QED
    BY <2>1, <2>2
<1>5. app = t
  BY <1>1, <1>3, <1>4, SeqEqual
<1> QED
  BY <1>5 DEF app, s, t

LEMMA OneAppended ==
    ASSUME NEW S, NEW s \in Seq(S), NEW x \in S PROVE s \o <<x>> = Append(s, x)
  OBVIOUS

(* The chunk that ends a stream, the answer and the end marker. *)
LEMMA Ending ==
    ASSUME NEW s \in Seq(Parcel), NEW x \in Parcel
    PROVE  s \o <<x, Final, Finish>> \o <<Done>> = Append(s, x) \o <<Final, Finish, Done>>
<1> DEFINE l == s \o <<x, Final, Finish>> \o <<Done>>
           r == Append(s, x) \o <<Final, Finish, Done>>
<1>1. Final \in Parcel /\ Finish \in Parcel /\ Done \in Parcel
  BY DEF Parcel
<1>2. l \in Seq(Parcel) /\ r \in Seq(Parcel) /\ Len(l) = Len(r) /\ Len(l) = Len(s) + 4
  BY <1>1
<1>3. ASSUME NEW i \in 1 .. Len(l) PROVE l[i] = r[i]
  BY <1>1
<1> QED
  BY <1>2, <1>3, SeqEqual

-----------------------------------------------------------------------------
(***************************************************************************)
(* The exit condition.                                                     *)
(***************************************************************************)
LEMMA WholeInterval ==
    ASSUME NEW n \in Nat, NEW T \in SUBSET (1 .. n), NEW w \in Nat, Cardinality(T) = w, n <= w
    PROVE  n = w /\ T = 1 .. n
<1>1. IsFiniteSet(1 .. n) /\ Cardinality(1 .. n) = n
  BY FS_Interval
<1>2. Cardinality(T) <= Cardinality(1 .. n)
  BY <1>1, FS_Subset
<1>3. Cardinality(T) = Cardinality(1 .. n)
  BY <1>1, <1>2
<1> QED
  BY <1>1, <1>3, FS_Subset

LEMMA LastAnswersAre ==
    ASSUME NEW s \in Seq(Nat), window \in Nat \ {0}, \A i \in DOMAIN s : s[i] = i
    PROVE  /\ LastAnswers(s) \in Seq(Nat)
           /\ Len(LastAnswers(s)) = (IF Len(s) <= window THEN Len(s) ELSE window)
           /\ \A i \in DOMAIN LastAnswers(s) :
                 LastAnswers(s)[i] = Len(s) - Len(LastAnswers(s)) + i
<1> DEFINE m == Len(s) - window + 1
           last == SubSeq(s, m, Len(s))
<1>1. CASE Len(s) <= window
  BY <1>1 DEF LastAnswers
<1>2. CASE Len(s) > window
  <2> HIDE DEF last, m
  <2>1. LastAnswers(s) = last
    <3>1. window # 0 /\ ~ (Len(s) <= window)
      BY <1>2
    <3> QED
      BY <3>1 DEF LastAnswers, last, m
  <2> USE DEF last, m
  <2>2. last \in Seq(Nat) /\ Len(last) = window /\ \A i \in 1 .. window : last[i] = s[m + i - 1]
    BY <1>2
  <2>3. \A i \in 1 .. window : m + i - 1 \in DOMAIN s
    BY <1>2
  <2> HIDE DEF last
  <2>4. \A i \in 1 .. window : last[i] = m + i - 1
    BY <2>2, <2>3
  <2> QED
    BY <1>2, <2>1, <2>2, <2>4
<1> QED
  BY <1>1, <1>2

(* Whether the list of answers was shorter than the window or not, a       *)
(* stream ends early on window answers that are the same and not empty.    *)
LEMMA EndIsAgreed ==
    ASSUME NEW s \in Seq(Nat), \A i \in DOMAIN s : s[i] = i /\ i \in DOMAIN probes,
           probes \in Seq(Probe), window \in Nat, AdaptiveEnd(s)
    PROVE  /\ Len(s) >= window
           /\ \E a \in Answers : \A i \in Len(s) - window + 1 .. Len(s) :
                 probes[i].answer = a /\ probes[i].certain
<1> DEFINE last == LastAnswers(s)
           n == Len(last)
           given == {i \in DOMAIN last : probes[last[i]].answer # NoAnswer}
           sure == {i \in DOMAIN last : probes[last[i]].certain}
           Answer(i) == probes[last[i]].answer
           distinct == {Answer(i) : i \in DOMAIN last}
<1>1. CASE window = 0
  BY <1>1, Params
<1>2. CASE window # 0
  <2>1. /\ last \in Seq(Nat) /\ n \in Nat /\ n <= window /\ n <= Len(s) /\ DOMAIN last = 1 .. n
        /\ \A i \in 1 .. n : last[i] = Len(s) - n + i
    BY <1>2, LastAnswersAre
  <2>2. Cardinality(given) = window /\ Cardinality(sure) = window /\ Cardinality(distinct) = 1
    BY DEF AdaptiveEnd
  <2> HIDE DEF last, n
  <2>3. given \in SUBSET (1 .. n) /\ sure \in SUBSET (1 .. n)
    BY <2>1
  <2>4. n = window /\ given = 1 .. n /\ sure = 1 .. n
    <3> HIDE DEF given, sure
    <3> QED
      BY <2>1, <2>2, <2>3, WholeInterval
  <2>5. IsFiniteSet(distinct)
    <3>1. IsFiniteSet(DOMAIN last)
      BY <2>1, FS_Interval
    <3> DEFINE f == [i \in DOMAIN last |-> Answer(i)]
    <3>2. f \in Surjection(DOMAIN last, distinct)
      BY DEF Surjection
    <3> HIDE DEF f, distinct
    <3> QED
      BY <3>1, <3>2, FS_Surjection
  <2>6. PICK a : distinct = {a}
    <3> HIDE DEF distinct
    <3> QED
      BY <2>2, <2>5, FS_Singleton
  <2>7. \A i \in 1 .. n : Answer(i) = a /\ Answer(i) # NoAnswer /\ probes[last[i]].certain
    BY ZenonT(30), <2>1, <2>4, <2>6
  <2>8. ASSUME NEW i \in Len(s) - window + 1 .. Len(s)
        PROVE  probes[i].answer = a /\ probes[i].answer # NoAnswer /\ probes[i].certain
               /\ i \in DOMAIN s
    <3>1. i - (Len(s) - n) \in 1 .. n /\ i \in DOMAIN s
      BY <2>1, <2>4
    <3>2. last[i - (Len(s) - n)] = i
      BY <2>1, <2>4, <3>1
    <3> QED
      BY <2>7, <3>1, <3>2
  <2>9. Len(s) \in Len(s) - window + 1 .. Len(s) /\ Len(s) >= window
    BY <1>2, <2>1, <2>4
  <2>10. a \in Answers
    <3>1. Len(s) \in DOMAIN probes /\ probes[Len(s)].answer = a /\ a # NoAnswer
      BY <2>8, <2>9
    <3> QED
      <4>1. probes[Len(s)] \in Probe
        BY <3>1
      <4>2. probes[Len(s)].answer \in Answers \union {NoAnswer}
        BY <4>1 DEF Probe
      <4> QED
        BY <3>1, <4>2
  <2> QED
    BY <2>8, <2>9, <2>10
<1> QED
  BY <1>1, <1>2

-----------------------------------------------------------------------------
(***************************************************************************)
(* The task of a probe.                                                    *)
(***************************************************************************)
Pending == IF TaskDone THEN 0 ELSE task
Gathered == IF TaskDone THEN Append(answered, task) ELSE answered

LEMMA ProbesType == TypeOK => probes \in Seq(Probe) /\ Len(probes) \in Nat /\ answered \in Seq(Nat)
<1> SUFFICES ASSUME TypeOK PROVE probes \in Seq(Probe) /\ Len(probes) \in Nat /\ answered \in Seq(Nat)
  OBVIOUS
<1>1. probes \in Seq(Probe) /\ Len(probes) \in Nat
  BY DEF TypeOK, Probe
<1>2. DOMAIN probes \subseteq Nat
  BY <1>1
<1>3. answered \in Seq(DOMAIN probes)
  BY DEF TypeOK
<1> QED
  BY <1>1, <1>2, <1>3

LEMMA TaskIsLast ==
    ASSUME TypeOK, OnePending
    PROVE  /\ TaskDone => /\ task = Len(probes) /\ task # 0 /\ ~inProgress
                          /\ \A p \in DOMAIN probes : probes[p].state # "running"
           /\ ~TaskDone /\ task # 0 => inProgress
           /\ Pending \in {0, Len(probes)}
           /\ inProgress => Pending = task
<1>1. probes \in Seq(Probe) /\ Len(probes) \in Nat
  BY ProbesType
<1>2. task # 0 => task = Len(probes) /\ task \in DOMAIN probes
  BY <1>1 DEF OnePending
<1> QED
  BY <1>1, <1>2 DEF OnePending, TaskDone, Pending

(* What is collected is the answers of all probes but the pending one.     *)
LEMMA Gathering ==
    ASSUME TypeOK, OnePending, Collected
    PROVE  /\ Gathered \in Seq(Nat)
           /\ Len(Gathered) = Len(probes) - (IF Pending = 0 THEN 0 ELSE 1)
           /\ \A i \in DOMAIN Gathered : Gathered[i] = i /\ i \in DOMAIN probes
<1>1. /\ probes \in Seq(Probe) /\ Len(probes) \in Nat /\ answered \in Seq(Nat)
      /\ DOMAIN probes = 1 .. Len(probes) /\ DOMAIN answered = 1 .. Len(answered)
  BY ProbesType
<1>2. CASE TaskDone
  <2>1. task = Len(probes) /\ task # 0 /\ Len(answered) = Len(probes) - 1 /\ Len(answered) \in Nat
    BY <1>1, <1>2, TaskIsLast DEF Collected
  <2>2. Gathered = Append(answered, task) /\ Pending = 0
    BY <1>2 DEF Gathered, Pending
  <2>3. task \in Nat
    BY <1>1, <2>1
  <2> DEFINE g == Append(answered, task)
  <2>4. /\ g \in Seq(Nat) /\ Len(g) = Len(answered) + 1 /\ g[Len(answered) + 1] = task
        /\ \A i \in 1 .. Len(answered) : g[i] = answered[i]
    BY <1>1, <2>3, AppendProperties
  <2> HIDE DEF g
  <2>5. \A i \in 1 .. Len(answered) : answered[i] = i
    BY <1>1 DEF Collected
  <2>6. DOMAIN g = 1 .. Len(probes) /\ Len(g) = Len(probes)
    BY <1>1, <2>1, <2>4
  <2>a. Len(probes) \in Nat
    BY <1>1
  <2>7. ASSUME NEW i \in 1 .. Len(probes) PROVE g[i] = i
    <3>1. CASE i = Len(probes)
      BY <2>1, <2>4, <3>1
    <3>2. CASE i # Len(probes)
      <4>1. i \in 1 .. Len(answered)
        BY <2>1, <2>a, <3>2
      <4> QED
        BY <2>4, <2>5, <4>1
    <3> QED
      BY <3>1, <3>2
  <2>8. g = Gathered
    BY <2>2 DEF g
  <2>9. \A i \in DOMAIN g : g[i] = i /\ i \in DOMAIN probes
    BY <1>1, <2>6, <2>7
  <2>10. Len(probes) = Len(probes) - (IF Pending = 0 THEN 0 ELSE 1)
    BY <2>2, <2>a
  <2> QED
    BY <2>4, <2>6, <2>8, <2>9, <2>10
<1>3. CASE ~TaskDone
  <2>1. Gathered = answered /\ Pending = task
    BY <1>3 DEF Gathered, Pending
  <2>2. Len(answered) = Len(probes) - (IF task = 0 THEN 0 ELSE 1)
    BY DEF Collected
  <2>3. 1 .. Len(answered) \subseteq 1 .. Len(probes)
    <3>1. Len(answered) \in Nat /\ Len(probes) \in Nat
      BY <1>1
    <3>2. Len(answered) <= Len(probes)
      BY <2>2, <3>1
    <3> QED
      BY <3>1, <3>2
  <2>4. \A i \in DOMAIN answered : answered[i] = i /\ i \in DOMAIN probes
    BY <1>1, <2>3 DEF Collected
  <2> QED
    BY <1>1, <2>1, <2>2, <2>4
<1> QED
  BY <1>2, <1>3

LEMMA Launching ==
    ASSUME probes \in Seq(Probe), NEW n \in 1 .. MaxChunks
    PROVE  /\ Launched(n) \in Seq(Probe) /\ Len(Launched(n)) = Len(probes) + 1
           /\ DOMAIN Launched(n) = 1 .. Len(probes) + 1
           /\ \A p \in DOMAIN probes : Launched(n)[p] = probes[p]
           /\ Launched(n)[Len(probes) + 1].of = n
           /\ Launched(n)[Len(probes) + 1].state = "running"
<1> DEFINE new == [of |-> n, state |-> "running", answer |-> NoAnswer, certain |-> FALSE]
<1>1. new \in Probe /\ new.of = n /\ new.state = "running"
  BY DEF Probe
<1>2. Launched(n) = Append(probes, new)
  BY DEF Launched
<1> HIDE DEF new
<1>3. /\ Append(probes, new) \in Seq(Probe) /\ Len(Append(probes, new)) = Len(probes) + 1
      /\ Append(probes, new)[Len(probes) + 1] = new
      /\ \A i \in 1 .. Len(probes) : Append(probes, new)[i] = probes[i]
  BY <1>1, AppendProperties
<1> QED
  BY <1>1, <1>2, <1>3

(* The end of an iteration: a probe is started only when none is running,  *)
(* and so only when the task of the one before has been taken.             *)
LEMMA LaunchKeeps ==
    ASSUME TypeOK, OnePending, LongerTexts, NEW n \in Nat, NEW want \in BOOLEAN,
           processed <= n, want => n \in 1 .. MaxChunks, processed' = n,
           LaunchIfWanted(Pending, want, n)
    PROVE  /\ probes' \in Seq(Probe) /\ DOMAIN probes \subseteq DOMAIN probes'
           /\ wanted' \in BOOLEAN /\ inProgress' \in BOOLEAN /\ task' \in 0 .. Len(probes')
           /\ Len(probes') - (IF task' = 0 THEN 0 ELSE 1)
                 = Len(probes) - (IF Pending = 0 THEN 0 ELSE 1)
           /\ OnePending' /\ LongerTexts'
<1>1. /\ probes \in Seq(Probe) /\ Len(probes) \in Nat /\ DOMAIN probes = 1 .. Len(probes)
  BY ProbesType
<1>2. /\ Pending \in {0, Len(probes)} /\ (inProgress => Pending = task)
      /\ ~inProgress => Pending = 0
  BY TaskIsLast DEF Pending
<1>3. processed \in Nat /\ inProgress \in BOOLEAN
  BY DEF TypeOK
<1>4. CASE want /\ ~inProgress
  <2>1. /\ wanted' = FALSE /\ inProgress' = TRUE /\ probes' = Launched(n)
        /\ task' = Len(probes) + 1 /\ Pending = 0 /\ n \in 1 .. MaxChunks
    BY <1>2, <1>4 DEF LaunchIfWanted
  <2>2. /\ probes' \in Seq(Probe) /\ Len(probes') = Len(probes) + 1
        /\ DOMAIN probes' = 1 .. Len(probes) + 1
        /\ \A p \in DOMAIN probes : probes'[p] = probes[p]
        /\ probes'[Len(probes) + 1].of = n
        /\ probes'[Len(probes) + 1].state = "running"
    BY <1>1, <2>1, Launching
  <2>3. \A p \in DOMAIN probes : probes[p].state # "running" /\ probes[p].of <= n
    <3>1. \A p \in DOMAIN probes : probes[p].state # "running"
      BY <1>4 DEF OnePending
    <3>2. ASSUME NEW p \in DOMAIN probes PROVE probes[p].of <= n
      <4>1. probes[p].of <= processed /\ probes[p] \in Probe
        BY <1>1 DEF LongerTexts
      <4>2. probes[p].of \in Nat
        BY <4>1, Params DEF Probe
      <4> QED
        BY <1>3, <4>1, <4>2
    <3> QED
      BY <3>1, <3>2
  <2>4. \A p \in DOMAIN probes' : p \in DOMAIN probes \/ p = Len(probes) + 1
    BY <1>1, <2>2
  <2>5. OnePending'
    <3>1. Len(probes) + 1 # 0
      BY <1>1
    <3>2. \A p \in DOMAIN probes' : probes'[p].state = "running" => p = Len(probes')
      BY <2>2, <2>3, <2>4
    <3> QED
      BY <2>1, <2>2, <3>1, <3>2 DEF OnePending
  <2>6. LongerTexts'
    <3>1. ~wanted'
      BY <2>1
    <3>2. \A p \in DOMAIN probes' : probes'[p].of <= processed'
      BY <2>2, <2>3, <2>4
    <3>3. ASSUME NEW p \in DOMAIN probes', p > 1 PROVE probes'[p - 1].of <= probes'[p].of
      <4>1. CASE p \in DOMAIN probes
        <5>1. p - 1 \in DOMAIN probes
          BY <1>1, <3>3, <4>1
        <5> QED
          BY <2>2, <3>3, <4>1, <5>1 DEF LongerTexts
      <4>2. CASE p = Len(probes) + 1
        <5>1. p - 1 \in DOMAIN probes
          BY <1>1, <3>3, <4>2
        <5> QED
          BY <2>2, <2>3, <4>2, <5>1
      <4> QED
        BY <2>4, <4>1, <4>2
    <3> QED
      BY <3>1, <3>2, <3>3 DEF LongerTexts
  <2>7. /\ DOMAIN probes \subseteq DOMAIN probes' /\ task' \in 0 .. Len(probes')
        /\ Len(probes') - (IF task' = 0 THEN 0 ELSE 1)
              = Len(probes) - (IF Pending = 0 THEN 0 ELSE 1)
    BY <1>1, <2>1, <2>2
  <2> QED
    BY <2>1, <2>2, <2>5, <2>6, <2>7
<1>5. CASE ~(want /\ ~inProgress)
  <2>1. wanted' = want /\ inProgress' = inProgress /\ probes' = probes /\ task' = Pending
    BY <1>5 DEF LaunchIfWanted
  <2>2. OnePending'
    <3>1. task' \in {0, Len(probes')}
      BY <1>2, <2>1
    <3>2. inProgress' => task' # 0 /\ probes'[task'].state = "running"
      BY <1>2, <2>1 DEF OnePending
    <3> QED
      BY <2>1, <3>1, <3>2 DEF OnePending
  <2>3. LongerTexts'
    <3>1. wanted' => processed' > 0
      BY <2>1
    <3>2. ASSUME NEW p \in DOMAIN probes PROVE probes[p].of <= n
      <4>1. probes[p].of <= processed /\ probes[p] \in Probe
        BY <1>1 DEF LongerTexts
      <4>2. probes[p].of \in Nat
        BY <4>1, Params DEF Probe
      <4> QED
        BY <1>3, <4>1, <4>2
    <3> QED
      BY <2>1, <3>1, <3>2 DEF LongerTexts
  <2>4. task' \in 0 .. Len(probes')
    <3>1. Pending = 0 \/ Pending = Len(probes)
      BY <1>2
    <3>2. 0 \in 0 .. Len(probes) /\ Len(probes) \in 0 .. Len(probes)
      BY <1>1
    <3> QED
      BY <2>1, <3>1, <3>2
  <2> QED
    BY <1>1, <1>3, <2>1, <2>2, <2>3, <2>4
<1> QED
  BY <1>4, <1>5

-----------------------------------------------------------------------------
(***************************************************************************)
(* A chunk.                                                                *)
(***************************************************************************)
Arrives(kind) ==
    /\ kind \in ChunkKinds
    /\ status = "streaming" /\ Len(chunks) < MaxChunks
    /\ chunks' = Append(chunks, kind)
    /\ UNCHANGED <<interval, window>>

Count(kind) == IF kind \in {"text", "length"} THEN processed + 1 ELSE processed
Want(n) == wanted \/ (n > 0 /\ n % interval = 0)

LEMMA ChunkPasses ==
    ASSUME IInv, NEW kind, Arrives(kind)
    PROVE  /\ chunks' \in Seq(ChunkKinds) /\ Len(chunks') = Len(chunks) + 1
           /\ Len(chunks) \in Nat /\ Len(chunks) + 1 \in 1 .. MaxChunks
           /\ sent \in Seq(Parcel) /\ Append(sent, Len(chunks) + 1) \in Seq(Parcel)
           /\ Append(sent, Len(chunks) + 1) = Passed'
<1>1. /\ chunks' \in Seq(ChunkKinds) /\ Len(chunks') = Len(chunks) + 1 /\ Len(chunks) \in Nat
      /\ Len(chunks) < MaxChunks /\ MaxChunks \in Nat
  <2>1. chunks \in Seq(ChunkKinds)
    BY DEF IInv, TypeOK
  <2> QED
    BY <2>1, Params, AppendProperties DEF Arrives
<1>2. Len(chunks) + 1 \in 1 .. MaxChunks
  BY <1>1
<1>3. sent \in Seq(Parcel) /\ Len(chunks) + 1 \in Parcel
  BY <1>2 DEF IInv, TypeOK, Parcel
<1>4. Append(sent, Len(chunks) + 1) \in Seq(Parcel)
  BY <1>3, AppendProperties
<1>5. sent = Passed
  BY DEF IInv, Stream, Arrives
<1>6. Append(sent, Len(chunks) + 1) = Passed'
  BY <1>1, <1>5, PassedNext DEF Passed
<1> QED
  BY <1>1, <1>2, <1>3, <1>4, <1>6

LEMMA CountType ==
    ASSUME IInv, NEW kind, Arrives(kind)
    PROVE  /\ Count(kind) \in 0 .. Len(chunks') /\ Count(kind) \in Nat /\ processed <= Count(kind)
           /\ Want(Count(kind)) \in BOOLEAN
           /\ Want(Count(kind)) => Count(kind) \in 1 .. MaxChunks
<1> DEFINE n == Count(kind)
<1>1. processed \in 0 .. Len(chunks) /\ wanted \in BOOLEAN /\ (wanted => processed > 0)
  BY DEF IInv, TypeOK, LongerTexts
<1>2. /\ Len(chunks') = Len(chunks) + 1 /\ Len(chunks) \in Nat
      /\ Len(chunks) + 1 \in 1 .. MaxChunks
  BY ChunkPasses
<1>3. n = processed \/ n = processed + 1
  BY DEF Count
<1> HIDE DEF n
<1>4. n \in 0 .. Len(chunks') /\ n \in Nat /\ processed <= n /\ n <= MaxChunks
  BY <1>1, <1>2, <1>3, Params
<1>5. Want(n) \in BOOLEAN /\ (Want(n) => wanted \/ n > 0)
  BY <1>1 DEF Want
<1>6. Want(n) => n > 0
  BY <1>1, <1>4, <1>5
<1>7. Want(n) => n \in 1 .. MaxChunks
  BY <1>4, <1>6, Params
<1> QED
  BY <1>4, <1>5, <1>7 DEF n

(* The chunk is passed on and the stream goes on. *)
LEMMA ContinueKeeps ==
    ASSUME IInv, NEW kind, Arrives(kind), processed' = Count(kind), answered' = Gathered,
           LaunchIfWanted(Pending, Want(Count(kind)), Count(kind)),
           sent' = Append(sent, Len(chunks) + 1), status' = status
    PROVE  IInv'
<1> USE DEF IInv
<1> DEFINE n == Count(kind)
           want == Want(n)
<1>1. /\ n \in 0 .. Len(chunks') /\ n \in Nat /\ processed <= n /\ want \in BOOLEAN
      /\ want => n \in 1 .. MaxChunks
  BY CountType
<1>2. processed' = n /\ LaunchIfWanted(Pending, want, n)
  OBVIOUS
<1> HIDE DEF n, want
<1>3. /\ probes' \in Seq(Probe) /\ DOMAIN probes \subseteq DOMAIN probes'
      /\ wanted' \in BOOLEAN /\ inProgress' \in BOOLEAN /\ task' \in 0 .. Len(probes')
      /\ Len(probes') - (IF task' = 0 THEN 0 ELSE 1)
            = Len(probes) - (IF Pending = 0 THEN 0 ELSE 1)
      /\ OnePending' /\ LongerTexts'
  BY <1>1, <1>2, LaunchKeeps
<1>4. /\ answered' \in Seq(Nat)
      /\ Len(answered') = Len(probes) - (IF Pending = 0 THEN 0 ELSE 1)
      /\ \A i \in DOMAIN answered' : answered'[i] = i /\ i \in DOMAIN probes
  BY Gathering
<1>5. Collected'
  BY <1>3, <1>4 DEF Collected
<1>6. /\ chunks' \in Seq(ChunkKinds) /\ sent' \in Seq(Parcel) /\ sent' = Passed'
      /\ interval' = interval /\ window' = window /\ status = "streaming"
  BY ChunkPasses DEF Arrives
<1>7. Stream'
  BY <1>6 DEF Stream
<1>8. TypeOK'
  <2>1. answered' \in Seq(DOMAIN probes')
    BY <1>3, <1>4
  <2>2. interval' \in Intervals /\ window' \in Windows /\ status' = "streaming"
    BY <1>6 DEF TypeOK
  <2>3. processed' \in 0 .. Len(chunks')
    BY <1>1, <1>2
  <2> QED
    BY <1>3, <1>6, <2>1, <2>2, <2>3 DEF TypeOK, Probe, Parcel
<1> QED
  BY <1>3, <1>5, <1>7, <1>8

(* The model finishes, or the proxy raises. *)
LEMMA LastChunkKeeps ==
    ASSUME IInv, NEW kind, Arrives(kind),
           UNCHANGED <<processed, wanted, inProgress, task, probes, answered>>,
           \/ status' = "ended" /\ sent' = Append(sent, Len(chunks) + 1) \o <<Done>>
           \/ status' = "failed" /\ sent' = Append(sent, Len(chunks) + 1)
    PROVE  IInv'
<1> USE DEF IInv
<1>1. /\ chunks' \in Seq(ChunkKinds) /\ Append(sent, Len(chunks) + 1) \in Seq(Parcel)
      /\ Append(sent, Len(chunks) + 1) = Passed' /\ Len(chunks') = Len(chunks) + 1
      /\ Len(chunks) \in Nat /\ interval' = interval /\ window' = window
  BY ChunkPasses DEF Arrives
<1>2. Stream'
  BY <1>1 DEF Stream
<1>3. sent' \in Seq(Parcel)
  <2>1. <<Done>> \in Seq(Parcel)
    BY DEF Parcel
  <2> QED
    BY <1>1, <2>1, ConcatProperties
<1>4. processed' \in 0 .. Len(chunks')
  BY <1>1 DEF TypeOK
<1>5. TypeOK'
  BY <1>1, <1>3, <1>4 DEF TypeOK, Parcel
<1>6. OnePending' /\ Collected' /\ LongerTexts'
  BY DEF OnePending, Collected, LongerTexts
<1> QED
  BY <1>2, <1>5, <1>6

(* The answers agree: the stream is ended, and the task has been taken. *)
LEMMA EarlyEndKeeps ==
    ASSUME IInv, NEW kind, Arrives(kind), processed' = Count(kind), answered' = Gathered,
           TaskDone, AdaptiveEnd(Gathered), task' = 0, wanted' = FALSE,
           UNCHANGED <<inProgress, probes>>,
           status' = "ended", sent' = sent \o <<Len(chunks) + 1, Final, Finish>> \o <<Done>>
    PROVE  IInv'
<1> USE DEF IInv
<1>1. /\ chunks' \in Seq(ChunkKinds) /\ sent \in Seq(Parcel)
      /\ Append(sent, Len(chunks) + 1) \in Seq(Parcel) /\ Len(chunks) + 1 \in Parcel
      /\ Append(sent, Len(chunks) + 1) = Passed'
      /\ interval' = interval /\ window' = window
  BY ChunkPasses DEF Arrives, Parcel
<1>2. /\ probes \in Seq(Probe) /\ Len(probes) \in Nat /\ DOMAIN probes = 1 .. Len(probes)
  BY ProbesType
<1>3. /\ answered' \in Seq(Nat) /\ Len(answered') = Len(probes)
      /\ \A i \in DOMAIN answered' : answered'[i] = i /\ i \in DOMAIN probes
  <2>1. Pending = 0
    BY DEF Pending
  <2> QED
    BY <1>2, <2>1, Gathering
<1>4. window \in Nat
  BY Params DEF TypeOK
<1>5. LastAgree'
  <2>1. /\ Len(answered') >= window
        /\ \E a \in Answers : \A i \in Len(answered') - window + 1 .. Len(answered') :
              probes[i].answer = a /\ probes[i].certain
    BY <1>2, <1>3, <1>4, EndIsAgreed
  <2> QED
    BY <1>1, <2>1 DEF LastAgree
<1>6. {Final, Finish, Done} \subseteq Parcel
  BY DEF Parcel
<1>7. sent' = Passed' \o <<Final, Finish, Done>>
  <2> DEFINE x == Len(chunks) + 1
  <2>1. sent \in Seq(Parcel) /\ x \in Parcel /\ Append(sent, x) = Passed'
    BY <1>1
  <2>2. sent' = sent \o <<x, Final, Finish>> \o <<Done>>
    OBVIOUS
  <2> HIDE DEF x
  <2>3. sent \o <<x, Final, Finish>> \o <<Done>> = Append(sent, x) \o <<Final, Finish, Done>>
    BY <2>1, Ending
  <2> QED
    BY <2>1, <2>2, <2>3
<1>8. sent' \in Seq(Parcel)
  <2>1. <<Final, Finish, Done>> \in Seq(Parcel)
    BY <1>6
  <2> QED
    BY <1>1, <1>7, <2>1, ConcatProperties
<1>9. Stream'
  BY <1>5, <1>7 DEF Stream
<1>10. OnePending' /\ Collected'
  <2>1. ~inProgress /\ \A p \in DOMAIN probes : probes[p].state # "running"
    BY TaskIsLast
  <2>2. OnePending'
    BY <2>1 DEF OnePending
  <2>3. Collected'
    <3>1. Len(probes) = Len(probes) - 0
      BY <1>2
    <3> QED
      BY <1>3, <3>1 DEF Collected
  <2> QED
    BY <2>2, <2>3
<1>11. processed' \in 0 .. Len(chunks') /\ processed' \in Nat /\ processed <= processed'
  BY CountType
<1>12. LongerTexts'
  <2>1. ASSUME NEW p \in DOMAIN probes PROVE probes[p].of <= processed'
    <3>1. probes[p].of <= processed /\ probes[p] \in Probe
      BY <1>2 DEF LongerTexts
    <3>2. probes[p].of \in Nat /\ processed \in Nat
      BY <3>1, Params DEF Probe, TypeOK
    <3> QED
      BY <1>11, <3>1, <3>2
  <2> QED
    BY <2>1 DEF LongerTexts
<1>13. TypeOK'
  <2>1. answered' \in Seq(DOMAIN probes')
    BY <1>3
  <2>2. task' \in 0 .. Len(probes')
    BY <1>2
  <2> QED
    BY <1>1, <1>2, <1>8, <1>11, <2>1, <2>2 DEF TypeOK, Probe, Parcel
<1> QED
  BY <1>9, <1>10, <1>12, <1>13

LEMMA ChunkKeeps ==
    ASSUME IInv, NEW kind \in ChunkKinds, Chunk(kind) PROVE IInv'
<1>1. Arrives(kind)
  BY DEF Chunk, Arrives
<1>2. sent \in Seq(Parcel) /\ Len(chunks) + 1 \in Parcel
  BY <1>1, ChunkPasses DEF Parcel
<1>3. CASE Program # "naive" /\ kind = "stop"
  <2>1. /\ status' = "ended" /\ sent' = sent \o <<Len(chunks) + 1>> \o <<Done>>
        /\ UNCHANGED <<processed, wanted, inProgress, task, probes, answered>>
    BY <1>3 DEF Chunk, Handle, EndStream
  <2>2. sent' = Append(sent, Len(chunks) + 1) \o <<Done>>
    BY <1>2, <2>1, OneAppended
  <2> QED
    BY <1>1, <2>1, <2>2, LastChunkKeeps
<1>4. CASE /\ Program # "naive" /\ kind # "stop"
           /\ Fail /\ sent' = Append(sent, Len(chunks) + 1)
  <2>1. status' = "failed" /\ UNCHANGED <<processed, wanted, inProgress, task, probes, answered>>
    BY <1>4 DEF Fail
  <2> QED
    BY <1>1, <1>4, <2>1, LastChunkKeeps
<1>5. CASE /\ Program # "naive" /\ kind # "stop"
           /\ processed' = Count(kind)
           /\ AfterProbe(Len(chunks) + 1, Want(Count(kind)), Count(kind))
  <2>1. answered' = Gathered
    BY <1>5 DEF AfterProbe, Gathered
  <2>2. CASE TaskDone /\ AdaptiveEnd(Gathered)
    <3>1. /\ status' = "ended"
          /\ sent' = sent \o <<Len(chunks) + 1, Final, Finish>> \o <<Done>>
          /\ task' = 0 /\ wanted' = FALSE /\ UNCHANGED <<inProgress, probes>>
      BY <1>5, <2>2 DEF AfterProbe, Gathered, EndStream
    <3> QED
      BY <1>1, <1>5, <2>1, <2>2, <3>1, EarlyEndKeeps
  <2>3. CASE ~(TaskDone /\ AdaptiveEnd(Gathered))
    <3>1. /\ LaunchIfWanted(Pending, Want(Count(kind)), Count(kind))
          /\ sent' = Append(sent, Len(chunks) + 1) /\ status' = status
      BY <1>5, <2>3 DEF AfterProbe, Gathered, Pending
    <3> QED
      BY <1>1, <1>5, <2>1, <3>1, ContinueKeeps
  <2> QED
    BY <2>2, <2>3
<1>6. CASE Program = "naive"
  <2>1. /\ processed' = Count(kind) /\ answered' = Gathered
        /\ LaunchIfWanted(Pending, Want(Count(kind)), Count(kind))
        /\ sent' = Append(sent, Len(chunks) + 1) /\ status' = status
    BY <1>6 DEF Chunk, HandleNaive, Count, Want, Gathered, Pending
  <2> QED
    BY <1>1, <2>1, ContinueKeeps
<1> QED
  BY <1>3, <1>4, <1>5, <1>6 DEF Chunk, Handle, Count, Want

-----------------------------------------------------------------------------
(***************************************************************************)
(* The other steps.                                                        *)
(***************************************************************************)

(* A probe that ends is the pending one: no answer already taken changes. *)
LEMMA ProbeEndsKeeps ==
    ASSUME IInv, NEW p \in DOMAIN probes, NEW outcome \in Outcomes, ProbeEnds(p, outcome)
    PROVE  IInv'
<1> USE DEF IInv
<1>1. /\ probes \in Seq(Probe) /\ Len(probes) \in Nat /\ DOMAIN probes = 1 .. Len(probes)
      /\ answered \in Seq(Nat) /\ DOMAIN answered = 1 .. Len(answered)
  BY ProbesType
<1>2. /\ interval' = interval /\ window' = window /\ status' = status /\ chunks' = chunks
      /\ sent' = sent /\ processed' = processed /\ wanted' = wanted /\ task' = task
      /\ answered' = answered /\ inProgress' = FALSE /\ probes[p].state = "running"
      /\ probes' = [probes EXCEPT ![p] = [@ EXCEPT !.state = outcome.state,
                                                  !.answer = outcome.answer,
                                                  !.certain = outcome.certain]]
  BY DEF ProbeEnds
<1>3. /\ outcome.state \in {"done", "failed"} /\ outcome.answer \in Answers \union {NoAnswer}
      /\ outcome.certain \in BOOLEAN
  BY DEF Outcomes, NaiveOutcomes
<1>4. /\ probes' \in Seq(Probe) /\ Len(probes') = Len(probes) /\ DOMAIN probes' = DOMAIN probes
      /\ \A q \in DOMAIN probes : q # p => probes'[q] = probes[q]
      /\ probes'[p].of = probes[p].of /\ probes'[p].state = outcome.state
  <2> DEFINE new == [probes[p] EXCEPT !.state = outcome.state, !.answer = outcome.answer,
                                      !.certain = outcome.certain]
  <2>1. probes[p] \in Probe
    BY <1>1
  <2>2. new \in Probe /\ new.of = probes[p].of /\ new.state = outcome.state
    BY <1>3, <2>1 DEF Probe
  <2>3. probes' = [probes EXCEPT ![p] = new]
    BY <1>2
  <2> HIDE DEF new
  <2> QED
    BY <1>1, <2>2, <2>3
<1>5. p = Len(probes) /\ task = Len(probes) /\ task # 0 /\ Len(answered) = Len(probes) - 1
  BY <1>1, <1>2 DEF OnePending, Collected
<1>6. OnePending'
  BY <1>2, <1>3, <1>4, <1>5 DEF OnePending
<1>7. Collected'
  BY <1>2, <1>4 DEF Collected
<1>8. LongerTexts'
  <2>1. \A q \in DOMAIN probes : probes'[q].of = probes[q].of
    BY <1>4
  <2>2. \A q \in DOMAIN probes : q > 1 => q - 1 \in DOMAIN probes
    BY <1>1
  <2> QED
    BY <1>2, <1>4, <2>1, <2>2 DEF LongerTexts
<1>9. LastAgree => LastAgree'
  <2>1. ASSUME LastAgree PROVE LastAgree'
    <3>1. window \in Nat /\ Len(answered) >= window
      BY <2>1, Params DEF LastAgree, TypeOK
    <3>2. \A i \in Len(answered) - window + 1 .. Len(answered) :
            i \in DOMAIN probes /\ i # p
      <4>1. Len(answered) \in Nat /\ Len(probes) = Len(answered) + 1
        BY <1>1, <1>5
      <4>2. ASSUME NEW i \in Len(answered) - window + 1 .. Len(answered)
            PROVE  i \in 1 .. Len(answered) + 1 /\ i # Len(answered) + 1
        BY <3>1, <4>1
      <4> QED
        BY <1>1, <1>5, <4>1, <4>2
    <3> QED
      BY <1>2, <1>4, <2>1, <3>2 DEF LastAgree
  <2> QED
    BY <2>1
<1>10. Stream'
  BY <1>2, <1>9 DEF Stream, Passed
<1>11. TypeOK'
  BY <1>1, <1>2, <1>4 DEF TypeOK, Probe
<1> QED
  BY <1>6, <1>7, <1>8, <1>10, <1>11

LEMMA InitHolds == Init => IInv
<1> SUFFICES ASSUME Init PROVE IInv
  OBVIOUS
<1>1. chunks = <<>> /\ sent = <<>> /\ probes = <<>> /\ answered = <<>> /\ status = "streaming"
  BY DEF Init
<1>2. sent = Passed
  BY <1>1 DEF Passed
<1>3. TypeOK
  <2>1. /\ chunks \in Seq(ChunkKinds) /\ probes \in Seq(Probe)
        /\ sent \in Seq(Parcel) /\ answered \in Seq(DOMAIN probes)
    BY <1>1
  <2>2. processed \in 0 .. Len(chunks) /\ task \in 0 .. Len(probes)
    BY DEF Init
  <2>3. interval \in Intervals /\ window \in Windows /\ {wanted, inProgress} \subseteq BOOLEAN
    BY DEF Init
  <2> QED
    BY <1>1, <2>1, <2>2, <2>3 DEF TypeOK, Probe, Parcel
<1>4. OnePending /\ Collected /\ LongerTexts
  BY <1>1 DEF Init, OnePending, Collected, LongerTexts
<1> QED
  BY <1>1, <1>2, <1>3, <1>4 DEF IInv, Stream

LEMMA StepHolds == IInv /\ [Next]_vars => IInv'
<1> SUFFICES ASSUME IInv, [Next]_vars PROVE IInv'
  OBVIOUS
<1>1. ASSUME NEW kind \in ChunkKinds, Chunk(kind) PROVE IInv'
  BY <1>1, ChunkKeeps
<1>2. CASE StreamOver
  <2>1. /\ status = "streaming" /\ status' = "ended" /\ sent' = sent \o <<>> \o <<Done>>
        /\ UNCHANGED <<interval, window, chunks, processed, wanted, inProgress, task, probes,
                       answered>>
    BY <1>2 DEF StreamOver, EndStream
  <2>2. sent \in Seq(Parcel) /\ <<Done>> \in Seq(Parcel)
    BY DEF IInv, TypeOK, Parcel
  <2>3. sent' = sent \o <<Done>> /\ sent' \in Seq(Parcel)
    BY <2>1, <2>2, ConcatEmptySeq, ConcatProperties
  <2>4. Stream'
    BY <2>1, <2>3 DEF IInv, Stream, Passed
  <2>5. TypeOK' /\ OnePending' /\ Collected' /\ LongerTexts'
    BY <2>1, <2>3 DEF IInv, TypeOK, OnePending, Collected, LongerTexts, Parcel
  <2> QED
    BY <2>4, <2>5 DEF IInv
<1>3. CASE StreamBreaks \/ Disconnect
  <2>1. /\ status = "streaming" /\ status' \in {"failed", "gone"}
        /\ UNCHANGED <<interval, window, chunks, sent, processed, wanted, inProgress, task,
                       probes, answered>>
    BY <1>3 DEF StreamBreaks, Disconnect, Fail
  <2> QED
    BY <2>1 DEF IInv, TypeOK, OnePending, Collected, LongerTexts, Stream, Passed
<1>4. ASSUME NEW p \in DOMAIN probes, NEW outcome \in Outcomes, ProbeEnds(p, outcome) PROVE IInv'
  BY <1>4, ProbeEndsKeeps
<1>5. CASE UNCHANGED vars
  BY <1>5 DEF vars, IInv, TypeOK, OnePending, Collected, LongerTexts, Stream, Passed, LastAgree
<1> QED
  BY <1>1, <1>2, <1>3, <1>4, <1>5 DEF Next

-----------------------------------------------------------------------------
(***************************************************************************)
(* The properties.                                                         *)
(***************************************************************************)
LEMMA PassedType ==
    TypeOK => /\ Len(chunks) \in Nat /\ Len(Passed) = Len(chunks) /\ Passed \in Seq(Int)
              /\ \A i \in 1 .. Len(chunks) : Passed[i] = i
<1> SUFFICES ASSUME TypeOK
             PROVE  /\ Len(chunks) \in Nat /\ Len(Passed) = Len(chunks) /\ Passed \in Seq(Int)
                    /\ \A i \in 1 .. Len(chunks) : Passed[i] = i
  OBVIOUS
<1>1. Len(chunks) \in Nat
  BY DEF TypeOK
<1> QED
  BY <1>1 DEF Passed

LEMMA InOrder == IInv => AnswersInOrder
<1> SUFFICES ASSUME IInv PROVE AnswersInOrder
  OBVIOUS
<1> USE DEF IInv
<1> DEFINE running == {p \in DOMAIN probes : probes[p].state = "running"}
<1>1. Cardinality(running) = IF inProgress THEN 1 ELSE 0
  <2>1. DOMAIN probes = 1 .. Len(probes) /\ Len(probes) \in Nat
    BY ProbesType
  <2>2. CASE inProgress
    <3>1. task # 0 /\ task = Len(probes) /\ probes[task].state = "running"
      BY <2>2 DEF OnePending
    <3>2. task \in DOMAIN probes
      BY <2>1, <3>1
    <3>3. \A p \in DOMAIN probes : probes[p].state = "running" => p = task
      BY <3>1 DEF OnePending
    <3>4. running = {task}
      BY <3>1, <3>2, <3>3
    <3> QED
      BY <2>2, <3>4, FS_Singleton
  <2>3. CASE ~inProgress
    <3>1. running = {}
      BY <2>3 DEF OnePending
    <3> QED
      BY <2>3, <3>1, FS_EmptySet
  <2> QED
    BY <2>2, <2>3
<1> QED
  BY <1>1 DEF AnswersInOrder, Collected

(* The answer is part of the stream only if the stream was cut short. *)
LEMMA FinalIsLast ==
    ASSUME TypeOK, \/ sent = Passed
                   \/ sent = Passed \o <<Done>>
    PROVE  ~Contains(sent, Final)
<1>1. /\ Len(chunks) \in Nat /\ Len(Passed) = Len(chunks) /\ Passed \in Seq(Int)
      /\ \A i \in 1 .. Len(chunks) : Passed[i] = i
  BY PassedType
<1>2. CASE sent = Passed
  BY <1>1, <1>2 DEF Contains, Final
<1>3. CASE sent = Passed \o <<Done>>
  <2>1. /\ Len(sent) = Len(chunks) + 1
        /\ \A i \in 1 .. Len(chunks) : sent[i] = Passed[i]
        /\ sent[Len(chunks) + 1] = Done
    BY <1>1, <1>3
  <2>2. \A i \in 1 .. Len(sent) : sent[i] # Final
    <3> SUFFICES ASSUME NEW i \in 1 .. Len(chunks) + 1 PROVE sent[i] # 0
      BY <2>1 DEF Final
    <3>1. CASE i \in 1 .. Len(chunks)
      BY <1>1, <2>1, <3>1
    <3>2. CASE i = Len(chunks) + 1
      BY <2>1, <3>2 DEF Done
    <3> QED
      BY <1>1, <3>1, <3>2
  <2> QED
    BY <2>2 DEF Contains
<1> QED
  BY <1>2, <1>3

LEMMA EndIsCertain == IInv => EarlyEndIsCertain
<1> SUFFICES ASSUME IInv, Contains(sent, Final)
             PROVE  /\ LastAgree
                    /\ \A i \in 2 .. Len(answered) : probes[i - 1].of <= probes[i].of
  BY DEF EarlyEndIsCertain, LastAgree
<1> USE DEF IInv
<1>1. LastAgree
  BY FinalIsLast DEF Stream
<1>2. /\ DOMAIN probes = 1 .. Len(probes) /\ Len(probes) \in Nat /\ Len(answered) \in Nat
  BY ProbesType
<1>3. Len(answered) <= Len(probes)
  <2>1. Len(answered) = Len(probes) - (IF task = 0 THEN 0 ELSE 1)
    BY DEF Collected
  <2>2. CASE task = 0
    <3>1. Len(answered) = Len(probes) - 0
      BY <2>1, <2>2
    <3> HIDE DEF IInv
    <3> QED
      BY <1>2, <3>1
  <2>3. CASE task # 0
    <3>1. Len(answered) = Len(probes) - 1
      BY <2>1, <2>3
    <3> HIDE DEF IInv
    <3> QED
      BY <1>2, <3>1
  <2> QED
    BY <2>2, <2>3
<1>4. ASSUME NEW i \in 2 .. Len(answered) PROVE probes[i - 1].of <= probes[i].of
  <2>1. i \in 1 .. Len(probes) /\ i > 1
    BY <1>2, <1>3
  <2> QED
    BY <1>2, <2>1 DEF LongerTexts
<1> QED
  BY <1>1, <1>4

LEMMA StreamIsSent == IInv => SentIsStream
<1> SUFFICES ASSUME IInv PROVE SentIsStream
  OBVIOUS
<1> USE DEF IInv
<1>1. Passed \in Seq(Int) /\ {Final, Finish, Done} \subseteq Int
  BY PassedType DEF Final, Finish, Done
<1>2. Passed \o <<>> = Passed
  BY <1>1, ConcatEmptySeq
<1>3. Passed \o <<Final, Finish>> \o <<Done>> = Passed \o <<Final, Finish, Done>>
  <2> DEFINE l == Passed \o <<Final, Finish>> \o <<Done>>
             r == Passed \o <<Final, Finish, Done>>
  <2>1. Final \in Int /\ Finish \in Int /\ Done \in Int
    BY <1>1
  <2>2. l \in Seq(Int) /\ r \in Seq(Int) /\ Len(l) = Len(r)
    BY <1>1, <2>1
  <2>3. ASSUME NEW i \in 1 .. Len(l) PROVE l[i] = r[i]
    BY <1>1, <2>1
  <2> QED
    BY <2>2, <2>3, SeqEqual
<1>4. CASE status # "ended" /\ sent = Passed
  BY <1>2, <1>4 DEF SentIsStream, Passed
<1>5. CASE status = "ended" /\ sent = Passed \o <<Done>>
  BY <1>5 DEF SentIsStream, Passed
<1>6. CASE status = "ended" /\ sent = Passed \o <<Final, Finish, Done>>
  BY <1>3, <1>6 DEF SentIsStream, Passed
<1> QED
  BY <1>4, <1>5, <1>6 DEF Stream

(* handle_chat_completion_request, execute_single_probe and the example    *)
(* client: for every probe_interval, certainty_window and order in which   *)
(* chunks, probes, errors and the client act, the probes are taken one by  *)
(* one and in order, the client gets the model's stream, and the proxy     *)
(* cuts it short only on certainty_window answers that agree.              *)
THEOREM ProxyKeepsTheStream == Spec => []ProbesKeepTheStream
<1>1. Spec => []IInv
  BY InitHolds, StepHolds, PTL DEF Spec
<1>2. IInv => ProbesKeepTheStream
  BY InOrder, EndIsCertain, StreamIsSent DEF ProbesKeepTheStream, IInv
<1> QED
  BY <1>1, <1>2, PTL

-----------------------------------------------------------------------------
(***************************************************************************)
(* CotRounds.                                                              *)
(***************************************************************************)
Reading == [of : Nat, answer : Answers \union {NoAnswer}, certain : BOOLEAN]

(* Where the text stands at each place of the generator: a probe is of the *)
(* text before its round, and an answer closes a round that was whole.     *)
RoundsInv ==
    /\ pc \in {"probe", "generate", "read", "final", "done", "plain"}
    /\ iter \in Nat /\ prompt \in Nat /\ yielded \in Nat /\ buffer \in Nat
    /\ answers \in Seq(Reading)
    /\ iter = Len(answers) * ChunkSize
    /\ \A i \in DOMAIN answers : answers[i].of = (i - 1) * ChunkSize
    /\ pc = "probe" => iter < MaxTokens /\ prompt = iter /\ yielded = prompt
    /\ pc = "generate" => iter < MaxTokens /\ prompt = iter /\ yielded = prompt /\ probe = iter
    /\ pc = "read" => iter < MaxTokens /\ prompt = iter + ChunkSize /\ yielded = prompt /\ probe = iter
    /\ pc = "final" => iter < MaxTokens + ChunkSize /\ prompt = iter /\ yielded = prompt
    /\ pc = "final" => Rounds!Agreed(answers)
    /\ pc = "done" => prompt < MaxTokens + ChunkSize /\ yielded = prompt
    /\ pc = "plain" => prompt <= MaxTokens /\ yielded + buffer = prompt

LEMMA RoundsParams ==
    /\ MaxTokens \in Nat \ {0} /\ ChunkSize \in Nat \ {0} /\ Threshold \in Nat \ {0}
    /\ NoAnswer \notin Answers
  BY RoundsAssumption DEF Rounds!CotRoundsAssumption

LEMMA RoundsStart == Rounds!Init => RoundsInv
<1> SUFFICES ASSUME Rounds!Init PROVE RoundsInv
  OBVIOUS
<1>1. answers = <<>> /\ Len(answers) = 0 /\ answers \in Seq(Reading) /\ DOMAIN answers = {}
  BY DEF Rounds!Init
<1>2. Len(answers) * ChunkSize = 0
  BY <1>1, RoundsParams
<1>3. pc \in {"probe", "plain"} /\ iter = 0 /\ prompt = 0 /\ yielded = 0 /\ buffer = 0
  BY DEF Rounds!Init
<1> QED
  BY <1>1, <1>2, <1>3, RoundsParams DEF RoundsInv

LEMMA RoundsReadProbe ==
    ASSUME RoundsInv, NEW a \in Answers \union {NoAnswer}, NEW b \in BOOLEAN,
           Rounds!ReadProbe(a, b)
    PROVE  RoundsInv'
<1> DEFINE n == Len(answers)
           done == n * ChunkSize
           reading == [of |-> probe, answer |-> a, certain |-> b]
<1>1. /\ pc = "read" /\ n \in Nat /\ iter = done /\ iter \in Nat
      /\ prompt = iter + ChunkSize /\ yielded = prompt /\ probe = iter /\ iter < MaxTokens
      /\ answers \in Seq(Reading) /\ buffer \in Nat
      /\ \A i \in DOMAIN answers : answers[i].of = (i - 1) * ChunkSize
  BY DEF RoundsInv, Rounds!ReadProbe
<1>2. /\ answers' = Append(answers, reading) /\ iter' = iter + ChunkSize
      /\ prompt' = prompt /\ yielded' = yielded /\ buffer' = buffer
      /\ pc' = "final" => Rounds!Agreed(answers')
      /\ pc' = "probe" => iter + ChunkSize < MaxTokens
      /\ pc' \in {"final", "probe", "done"}
  BY DEF Rounds!ReadProbe, Rounds!NextRound
<1>3. reading \in Reading
  BY <1>1 DEF Reading
<1> HIDE DEF reading
<1>4. /\ answers' \in Seq(Reading) /\ Len(answers') = n + 1 /\ DOMAIN answers' = 1 .. n + 1
      /\ answers'[n + 1] = reading /\ \A i \in 1 .. n : answers'[i] = answers[i]
  BY <1>1, <1>2, <1>3
<1>5. (n + 1) * ChunkSize = done + ChunkSize /\ (n + 1) - 1 = n
  BY <1>1, RoundsParams
<1>6. ASSUME NEW i \in 1 .. n + 1 PROVE answers'[i].of = (i - 1) * ChunkSize
  <2>1. CASE i \in 1 .. n
    BY <1>1, <1>4, <2>1
  <2>2. CASE i = n + 1
    <3>1. answers'[i].of = probe
      BY <1>4, <2>2 DEF reading
    <3> QED
      BY <1>1, <1>5, <2>2, <3>1
  <2> QED
    BY <1>1, <2>1, <2>2
<1>7. iter' = Len(answers') * ChunkSize /\ iter' \in Nat
  BY <1>1, <1>2, <1>4, <1>5, RoundsParams
<1>8. pc' \in {"final", "probe", "done"} /\ prompt' = iter' /\ yielded' = prompt' /\ iter' < MaxTokens + ChunkSize
  BY <1>1, <1>2, RoundsParams
<1> HIDE DEF done, n
<1> QED
  BY <1>1, <1>2, <1>4, <1>6, <1>7, <1>8, RoundsParams DEF RoundsInv

LEMMA RoundsKeep == RoundsInv /\ [Rounds!Next]_roundsVars => RoundsInv'
<1> SUFFICES ASSUME RoundsInv, [Rounds!Next]_roundsVars PROVE RoundsInv'
  OBVIOUS
<1>1. CASE Rounds!SendProbe
  BY <1>1 DEF Rounds!SendProbe, RoundsInv
<1>2. ASSUME NEW round \in Rounds!Rounds, Rounds!Generate(round) PROVE RoundsInv'
  <2>1. /\ round.len \in Nat /\ round.len <= ChunkSize
        /\ round.finish # "stop" /\ round.len # 0 => round.len = ChunkSize
    <3>1. CASE round = [len |-> ChunkSize, finish |-> "length"] \/ round = [len |-> 0, finish |-> "length"]
      BY <3>1, RoundsParams
    <3>2. CASE round \in [len : 0 .. ChunkSize, finish : {"stop"}]
      BY <3>2, RoundsParams
    <3> QED
      BY <1>2, <3>1, <3>2 DEF Rounds!Rounds
  <2>2. /\ pc = "generate" /\ yielded' = yielded + round.len /\ prompt' = prompt + round.len
        /\ pc' = IF round.finish = "stop" \/ round.len = 0 THEN "done" ELSE "read"
        /\ UNCHANGED <<iter, buffer, probe, answers>>
    BY <1>2 DEF Rounds!Generate
  <2>3. pc' = "read" => round.len = ChunkSize
    BY <2>1, <2>2
  <2>4. /\ prompt = iter /\ yielded = prompt /\ iter < MaxTokens /\ iter \in Nat
        /\ iter = Len(answers) * ChunkSize /\ probe = iter
    BY <2>2 DEF RoundsInv
  <2>5. prompt' \in Nat /\ yielded' = prompt' /\ prompt' < MaxTokens + ChunkSize
    BY <2>1, <2>2, <2>4, RoundsParams
  <2>6. pc' = "read" => prompt' = iter + ChunkSize
    BY <2>2, <2>3, <2>4
  <2>7. (iter = Len(answers) * ChunkSize)' /\ answers' = answers
    BY <2>2, <2>4
  <2> QED
    BY <2>2, <2>4, <2>5, <2>6, <2>7 DEF RoundsInv
<1>3. ASSUME NEW a \in Answers \union {NoAnswer}, NEW b \in BOOLEAN, Rounds!ReadProbe(a, b)
      PROVE  RoundsInv'
  BY <1>3, RoundsReadProbe
<1>4. ASSUME NEW n \in 1 .. ChunkSize, NEW space \in BOOLEAN, Rounds!PlainChunk(n, space)
      PROVE  RoundsInv'
  <2>1. /\ pc = "plain" /\ pc' = pc /\ prompt' = prompt + n /\ prompt + n <= MaxTokens
        /\ \/ yielded' = yielded + buffer + n /\ buffer' = 0
           \/ buffer' = buffer + n /\ yielded' = yielded
        /\ UNCHANGED <<iter, answers>>
    BY <1>4 DEF Rounds!PlainChunk
  <2>2. /\ prompt \in Nat /\ yielded \in Nat /\ buffer \in Nat /\ n \in Nat
        /\ yielded + buffer = prompt
    BY <2>1, RoundsParams DEF RoundsInv
  <2>3. prompt' \in Nat /\ yielded' \in Nat /\ buffer' \in Nat /\ yielded' + buffer' = prompt'
    BY <2>1, <2>2
  <2> QED
    BY <2>1, <2>3 DEF RoundsInv
<1>5. CASE Rounds!PlainEnd
  <2>1. /\ pc = "plain" /\ pc' = "done" /\ yielded' = yielded + buffer /\ buffer' = 0
        /\ UNCHANGED <<iter, prompt, answers>>
    BY <1>5 DEF Rounds!PlainEnd
  <2>2. /\ prompt \in Nat /\ yielded \in Nat /\ buffer \in Nat
        /\ yielded + buffer = prompt /\ prompt <= MaxTokens
    BY <2>1 DEF RoundsInv
  <2>3. yielded' \in Nat /\ yielded' = prompt' /\ prompt' < MaxTokens + ChunkSize
    BY <2>1, <2>2, RoundsParams
  <2> QED
    BY <2>1, <2>3 DEF RoundsInv
<1>6. CASE UNCHANGED roundsVars
  <2>1. /\ pc' = pc /\ iter' = iter /\ prompt' = prompt /\ yielded' = yielded
        /\ buffer' = buffer /\ probe' = probe /\ answers' = answers
    BY <1>6 DEF roundsVars
  <2> QED
    BY <2>1 DEF RoundsInv, Rounds!Agreed, Rounds!LastOf
<1> QED
  BY <1>1, <1>2, <1>3, <1>4, <1>5, <1>6 DEF Rounds!Next

LEMMA SameCardinality == \A S : Rounds!Cardinality(S) = Cardinality(S)
  BY DEF Rounds!Cardinality, Cardinality

(* The answers that agree are the last ones, and none of them is blank or  *)
(* in doubt.                                                               *)
LEMMA AgreedLast ==
    ASSUME NEW s \in Seq(Reading), Rounds!Agreed(s)
    PROVE  /\ Len(s) >= Threshold
           /\ \E a \in Answers : \A i \in Len(s) - Threshold + 1 .. Len(s) :
                 s[i].answer = a /\ s[i].certain
<1> DEFINE last == Rounds!LastOf(s)
           m == Len(s) - Threshold
           told == {i \in DOMAIN last : last[i].answer # NoAnswer}
           sure == {i \in DOMAIN last : last[i].certain}
<1>1. Threshold \in Nat \ {0} /\ Len(s) \in Nat /\ NoAnswer \notin Answers
  BY RoundsParams
<1>2. /\ last \in Seq(Reading)
      /\ Len(last) = IF Len(s) <= Threshold THEN Len(s) ELSE Threshold
      /\ Len(s) > Threshold => \A i \in 1 .. Threshold : last[i] = s[m + i]
      /\ Len(s) <= Threshold => last = s
  <2>1. CASE Len(s) <= Threshold
    BY <1>1, <2>1 DEF Rounds!LastOf
  <2>2. CASE Len(s) > Threshold
    <3>1. last = SubSeq(s, m + 1, Len(s))
      BY <1>1, <2>2 DEF Rounds!LastOf
    <3> QED
      BY <1>1, <2>2, <3>1
  <2> QED
    BY <1>1, <2>1, <2>2
<1>3. /\ \A i \in DOMAIN last : last[i].answer = last[1].answer
      /\ Cardinality(told) = Threshold /\ Cardinality(sure) = Threshold
  BY SameCardinality DEF Rounds!Agreed
<1> HIDE DEF last
<1>4. DOMAIN last = 1 .. Len(last) /\ Len(last) \in Nat /\ Len(last) <= Threshold
  BY <1>1, <1>2
<1>5. told \in SUBSET (1 .. Len(last)) /\ sure \in SUBSET (1 .. Len(last))
  BY <1>4
<1> HIDE DEF told, sure
<1>6. Len(last) = Threshold /\ told = 1 .. Threshold /\ sure = 1 .. Threshold
  BY <1>1, <1>3, <1>4, <1>5, WholeInterval
<1>7. Len(s) >= Threshold
  BY <1>1, <1>2, <1>6
<1>8. ASSUME NEW i \in 1 .. Threshold PROVE last[i] = s[m + i]
  BY <1>1, <1>2, <1>6, <1>7
<1>9. PICK a : a = last[1].answer
  OBVIOUS
<1>10. last[1] \in Reading /\ last[1].answer # NoAnswer
  BY <1>1, <1>2, <1>4, <1>6 DEF told
<1>11. a \in Answers
  BY <1>9, <1>10 DEF Reading
<1>12. ASSUME NEW i \in m + 1 .. Len(s) PROVE s[i].answer = a /\ s[i].certain
  <2>1. i - m \in 1 .. Threshold /\ m + (i - m) = i
    BY <1>1, <1>7
  <2>2. s[i] = last[i - m]
    BY <1>8, <2>1
  <2>3. last[i - m].answer = a /\ last[i - m].certain
    BY <1>3, <1>4, <1>6, <1>9, <2>1 DEF sure
  <2> QED
    BY <2>2, <2>3
<1> QED
  BY <1>7, <1>11, <1>12 DEF m

(* openai_chat_completion_stream: for every max_tokens, chunk_size and     *)
(* threshold and whatever the model says, the text goes past max_tokens by *)
(* less than a round, nothing of it is held back, and the call closes with *)
(* an answer only when the last threshold answers, of longer and longer    *)
(* texts, are the same and certain.                                        *)
THEOREM RoundsCloseOnAgreement ==
    Rounds!Spec => [](Rounds!OverrunBelowOneRound /\ Rounds!NothingHeldBack /\ Rounds!FinalIsAgreed)
<1> DEFINE Good == Rounds!OverrunBelowOneRound /\ Rounds!NothingHeldBack /\ Rounds!FinalIsAgreed
<1>1. RoundsInv => Good
  <2> SUFFICES ASSUME RoundsInv PROVE Good
    OBVIOUS
  <2>1. yielded < MaxTokens + ChunkSize
    BY RoundsParams DEF RoundsInv
  <2>2. pc \in {"probe", "final", "done"} => yielded = prompt
    BY DEF RoundsInv
  <2>3. \A i \in DOMAIN answers : answers[i].of = (i - 1) * ChunkSize
    BY DEF RoundsInv
  <2>4. ASSUME pc = "final"
        PROVE  /\ prompt = Len(answers) * ChunkSize
               /\ Len(answers) >= Threshold
               /\ \E a \in Answers : \A i \in Len(answers) - Threshold + 1 .. Len(answers) :
                     answers[i].answer = a /\ answers[i].certain
    <3>1. answers \in Seq(Reading) /\ Rounds!Agreed(answers) /\ prompt = Len(answers) * ChunkSize
      BY <2>4 DEF RoundsInv
    <3> QED
      BY <3>1, AgreedLast
  <2> QED
    BY <2>1, <2>2, <2>3, <2>4 DEF Rounds!OverrunBelowOneRound, Rounds!NothingHeldBack, Rounds!FinalIsAgreed
<1>2. [Rounds!Next]_Rounds!vars = [Rounds!Next]_roundsVars
  BY DEF Rounds!vars, roundsVars
<1>3. RoundsInv /\ [Rounds!Next]_Rounds!vars => RoundsInv'
  BY <1>2, RoundsKeep
<1> HIDE DEF Good
<1>4. Rounds!Spec => []Good
  BY <1>1, <1>3, RoundsStart, PTL DEF Rounds!Spec
<1> QED
  BY <1>4 DEF Good

(* The same of the behaviours of the run: the rounds agree whatever part   *)
(* is chosen.                                                              *)
THEOREM RoundsOfEveryCallAgree == MCSpec => []RoundsAgree
<1> DEFINE On == part = "rounds"
           Safe == Rounds!OverrunBelowOneRound /\ Rounds!NothingHeldBack /\ Rounds!FinalIsAgreed
<1>1. MCInit => (On => Rounds!Init)
  BY DEF MCInit
<1>2. On /\ [MCNext]_MCvars => On' /\ [Rounds!Next]_Rounds!vars
  BY DEF MCNext, MCvars, Rest, roundsVars, Rounds!vars
<1>3. ~On /\ [MCNext]_MCvars => ~On'
  BY DEF MCNext, MCvars, Rest
<1>4. Rounds!Spec => []Safe
  BY RoundsCloseOnAgreement
<1>5. (On => Safe) => RoundsAgree
  BY DEF RoundsAgree
<1> HIDE DEF On, Safe
<1> QED
  BY <1>1, <1>2, <1>3, <1>4, <1>5, PTL DEF MCSpec, Rounds!Spec

=============================================================================
