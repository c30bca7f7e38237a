------------------------ MODULE SpecDecodeStepProofs ------------------------
(***************************************************************************)
(* Proofs about SpecDecodeStep, for any batch sizes, lengths, limits and   *)
(* methods: what the runner reports to the suffix cache is the text of     *)
(* each request, whichever batches it is in, and every draft fits into     *)
(* what is left of max_model_len.                                          *)
(***************************************************************************)
EXTENDS SpecDecodeStep, SequenceTheorems, FiniteSetTheorems, WellFoundedInduction, TLAPS

(* Only EnableSuffix makes requests active; those are in the batch and     *)
(* have tokens.                                                            *)
ActiveInBatch ==
    /\ Active # {} => EnableSuffix
    /\ Active \subseteq Range(rows)
    /\ \A r \in Reqs : since[r] <= numTokens[r]
    /\ \A r \in Active : numTokens[r] > 0

(* The drafts are those of the rows of the last batch. *)
DraftsOfRows ==
    /\ Len(drafts) = Len(rows)
    /\ \A i \in DOMAIN drafts : drafts[i].asked => rows[i] \in Active

IInv == /\ TypeOK /\ LocalIsPromptAndReports /\ ActiveInBatch /\ DraftsOfRows
        /\ DraftsFitModel /\ OneMethodPerStep

Draft == [by : {"none", "suffix", "model"}, len : 0 .. Max({MaxSpecLen, NumSpec}), asked : BOOLEAN]

(* The local definitions of Step. *)
New(rs, sampled, r) == IF r \in Range(rs) THEN sampled[CHOOSE i \in DOMAIN rs : rs[i] = r] ELSE 0
Counts(rs, sampled) ==
    [r \in Reqs |-> IF r \in Range(rs) THEN Before(r) + New(rs, sampled, r) ELSE numTokens[r]]
Lengths(rs, sampled) ==
    [i \in 1 .. MaxRows |-> IF i <= Len(rs) THEN Counts(rs, sampled)[rs[i]] ELSE rowLen[i]]

-----------------------------------------------------------------------------
(***************************************************************************)
(* Sets of numbers.                                                        *)
(***************************************************************************)
LEMMA OrderOfNat ==
    \E R : /\ IsWellFoundedOn(R, Nat)
           /\ \A x, y \in Nat : <<y, x>> \in R <=> y < x
<1>1. IsWellFoundedOn(OpToRel(<, Nat), Nat)
  BY NatLessThanWellFounded
<1>2. \A x, y \in Nat : <<y, x>> \in OpToRel(<, Nat) <=> y < x
  BY DEF OpToRel
<1> QED
  BY <1>1, <1>2

LEMMA LeastOf ==
    ASSUME NEW T, T \subseteq Nat, T # {}
    PROVE  \E x \in T : \A y \in T : x <= y
<1>1. PICK R : /\ IsWellFoundedOn(R, Nat)
               /\ \A x, y \in Nat : <<y, x>> \in R <=> y < x
  BY OrderOfNat
<1>2. PICK x \in T : \A y \in T : ~(<<y, x>> \in R)
  BY <1>1, WFMin
<1>3. ASSUME NEW y \in T PROVE x <= y
  <2>1. ~(y < x) /\ x \in Nat /\ y \in Nat
    BY <1>1, <1>2
  <2> QED
    BY <2>1
<1> QED
  BY <1>2, <1>3

(* Max of a set of numbers that has a bound. *)
LEMMA MaxOf ==
    ASSUME NEW m \in Nat, NEW S, S \subseteq 0 .. m, S # {}
    PROVE  Max(S) \in S /\ \A y \in S : y <= Max(S)
<1> DEFINE T == {m - y : y \in S}
<1>1. T \subseteq Nat /\ T # {}
  <2>1. \A y \in S : m - y \in Nat
    OBVIOUS
  <2> QED
    BY <2>1
<1>2. PICK t \in T : \A u \in T : t <= u
  <2> HIDE DEF T
  <2> QED
    BY <1>1, LeastOf
<1>3. PICK x \in S : t = m - x
  BY <1>2
<1>4. ASSUME NEW y \in S PROVE x >= y
  <2>1. m - x <= m - y /\ x \in 0 .. m /\ y \in 0 .. m
    BY <1>2, <1>3
  <2> QED
    BY <2>1
<1>5. \E z \in S : \A y \in S : z >= y
  BY <1>4
<1>6. Max(S) \in S /\ \A y \in S : Max(S) >= y
  BY <1>5 DEF Max
<1>7. ASSUME NEW y \in S PROVE y <= Max(S)
  <2>1. Max(S) >= y /\ Max(S) \in 0 .. m /\ y \in 0 .. m
    BY <1>6
  <2> QED
    BY <2>1
<1> QED
  BY <1>6, <1>7

LEMMA Params ==
    ASSUME SpecDecodeStepAssumption
    PROVE  /\ PromptLen \in Nat \ {0} /\ MaxModelLen \in Nat \ {0} /\ NumSpec \in Nat \ {0}
           /\ DisableBy \in Nat \ {0} /\ MaxSpecLen \in Nat \ {0} /\ MaxSampled \in Nat
           /\ PromptLen < MaxModelLen /\ EnableSuffix \in BOOLEAN
           /\ (Method = "suffix" => EnableSuffix) /\ None \notin Seq(Nat)
  BY DEF SpecDecodeStepAssumption

(* The longest draft of either method. *)
LEMMA LongestDraft ==
    ASSUME SpecDecodeStepAssumption
    PROVE  /\ Max({MaxSpecLen, NumSpec}) \in Nat
           /\ MaxSpecLen <= Max({MaxSpecLen, NumSpec}) /\ NumSpec <= Max({MaxSpecLen, NumSpec})
<1> DEFINE m == MaxSpecLen + NumSpec
           S == {MaxSpecLen, NumSpec}
<1>1. m \in Nat /\ S \subseteq 0 .. m /\ S # {} /\ S \subseteq Nat
  BY Params
<1> HIDE DEF m
<1>2. Max(S) \in S /\ \A y \in S : y <= Max(S)
  <2> HIDE DEF S
  <2> QED
    BY <1>1, MaxOf
<1> QED
  BY <1>1, <1>2

-----------------------------------------------------------------------------
(***************************************************************************)
(* Texts: a token is its position.                                         *)
(***************************************************************************)
LEMMA PositionsType ==
    ASSUME NEW a \in Nat, NEW b \in Nat, a <= b
    PROVE  /\ Positions(a, b) \in Seq(Nat) /\ Len(Positions(a, b)) = b - a
           /\ \A i \in 1 .. b - a : Positions(a, b)[i] = a + i
<1>1. b - a \in Nat
  OBVIOUS
<1> QED
  BY <1>1 DEF Positions

LEMMA PositionsJoin ==
    ASSUME NEW a \in Nat, NEW b \in Nat, NEW c \in Nat, a <= b, b <= c
    PROVE  Positions(a, b) \o Positions(b, c) = Positions(a, c)
<1> DEFINE p == Positions(a, b)
           q == Positions(b, c)
           t == Positions(a, c)
           pq == p \o q
<1>1. /\ p \in Seq(Nat) /\ Len(p) = b - a /\ \A i \in 1 .. b - a : p[i] = a + i
      /\ q \in Seq(Nat) /\ Len(q) = c - b /\ \A i \in 1 .. c - b : q[i] = b + i
  BY PositionsType
<1>2. t \in Seq(Nat) /\ Len(t) = c - a /\ \A i \in 1 .. c - a : t[i] = a + i
  <2>1. a <= c
    OBVIOUS
  <2> QED
    BY <2>1, PositionsType
<1> HIDE DEF p, q, t
<1>3. /\ pq \in Seq(Nat) /\ Len(pq) = Len(p) + Len(q)
      /\ \A i \in 1 .. Len(p) + Len(q) : pq[i] = IF i <= Len(p) THEN p[i] ELSE q[i - Len(p)]
  BY <1>1, ConcatProperties
<1>4. Len(pq) = c - a
  BY <1>1, <1>3
<1> HIDE DEF pq
<1>5. ASSUME NEW i \in 1 .. c - a PROVE pq[i] = t[i]
  <2>1. CASE i <= b - a
    <3>1. i \in 1 .. b - a /\ i \in 1 .. Len(p) + Len(q) /\ i <= Len(p)
      BY <1>1, <2>1
    <3> QED
      BY <1>1, <1>2, <1>3, <3>1
  <2>2. CASE ~(i <= b - a)
    <3>1. i \in 1 .. Len(p) + Len(q) /\ ~(i <= Len(p)) /\ i - Len(p) = i - (b - a)
      BY <1>1, <2>2
    <3>2. i - (b - a) \in 1 .. c - b
      BY <2>2
    <3>3. pq[i] = q[i - (b - a)]
      BY <1>3, <3>1
    <3>4. q[i - (b - a)] = b + (i - (b - a))
      BY <1>1, <3>2
    <3> QED
      BY <1>2, <3>3, <3>4
  <2> QED
    BY <2>1, <2>2
<1>6. pq = t
  BY <1>2, <1>3, <1>4, <1>5, SeqEqual
<1> QED
  BY <1>6 DEF p, q, t, pq

(* A report appended to a text that ends where the report begins. *)
LEMMA Reported ==
    ASSUME NEW p \in Nat, NEW a \in Nat, NEW b \in Nat, NEW c \in Nat, a <= b, b <= c
    PROVE  (Positions(0, p) \o Positions(a, b)) \o Positions(b, c) = Positions(0, p) \o Positions(a, c)
<1> DEFINE s == Positions(0, p)
           t == Positions(a, b)
           u == Positions(b, c)
<1>1. 0 \in Nat /\ 0 <= p
  OBVIOUS
<1>2. s \in Seq(Nat) /\ t \in Seq(Nat) /\ u \in Seq(Nat)
  BY <1>1, PositionsType
<1>3. t \o u = Positions(a, c)
  BY PositionsJoin
<1> HIDE DEF s, t, u
<1>4. (s \o t) \o u = s \o (t \o u)
  BY SMTT(30), <1>2, ConcatAssociative
<1>5. (s \o t) \o u = s \o Positions(a, c)
  BY <1>3, <1>4
<1> QED
  BY <1>5 DEF s, t, u

LEMMA NumbersOnly ==
    ASSUME NEW m, NEW s \in Seq(1 .. m) PROVE s \in Seq(Nat)
<1> DEFINE S == 1 .. m
<1>1. s \in Seq(S) /\ S \subseteq Nat
  OBVIOUS
<1> HIDE DEF S
<1> QED
  BY <1>1, SeqMonotonic

LEMMA TextType ==
    ASSUME NEW m \in Nat, NEW p \in Nat, NEW a \in Nat, NEW b \in Nat, p <= m, a <= b, b <= m
    PROVE  Positions(0, p) \o Positions(a, b) \in Seq(1 .. m)
<1>1. Positions(0, p) \in Seq(1 .. m)
  BY DEF Positions
<1>2. Positions(a, b) \in Seq(1 .. m)
  <2>1. b - a \in Nat
    OBVIOUS
  <2>2. \A i \in 1 .. b - a : a + i \in 1 .. m
    OBVIOUS
  <2> QED
    BY <2>1, <2>2 DEF Positions
<1> QED
  BY <1>1, <1>2, ConcatProperties

-----------------------------------------------------------------------------
(***************************************************************************)
(* A batch.                                                                *)
(***************************************************************************)
LEMMA RowsType == ASSUME SpecDecodeStepAssumption PROVE MaxRows \in Nat
  BY FS_CardinalityType DEF MaxRows, SpecDecodeStepAssumption

LEMMA BatchType ==
    ASSUME SpecDecodeStepAssumption, NEW rs \in Batches
    PROVE  /\ rs \in Seq(Reqs) /\ Len(rs) \in 1 .. MaxRows /\ DOMAIN rs = 1 .. Len(rs)
           /\ IsInjective(rs) /\ Range(rs) \subseteq Reqs
           /\ \A r \in Range(rs) : \E i \in 1 .. Len(rs) : rs[i] = r
           /\ \A i \in 1 .. Len(rs) : rs[i] \in Range(rs)
<1>1. PICK k \in 1 .. MaxRows : rs \in [1 .. k -> Reqs]
  BY DEF Batches
<1>2. k \in Nat
  BY RowsType
<1>3. rs \in Seq(Reqs) /\ Len(rs) = k
  BY <1>1, <1>2
<1>4. IsInjective(rs)
  BY DEF Batches
<1>5. DOMAIN rs = 1 .. Len(rs)
  BY <1>1, <1>3
<1> QED
  BY <1>1, <1>3, <1>4, <1>5 DEF Range

LEMMA StepUnfolds ==
    ASSUME NEW rs, NEW sampled, Step(rs, sampled)
    PROVE  /\ Range(rs) \intersect finished = {}
           /\ \A i \in DOMAIN rs : Counts(rs, sampled)[rs[i]] <= MaxModelLen
           /\ numTokens' = Counts(rs, sampled)
           /\ rows' = rs
           /\ rowLen' = Lengths(rs, sampled)
           /\ UNCHANGED finished
           /\ ProposeDrafts(Lengths(rs, sampled), sampled)
  BY DEF Step, Counts, Lengths, New

LEMMA StepReports ==
    ASSUME NEW rs, NEW sampled, Step(rs, sampled)
    PROVE  IF EnableSuffix
           THEN /\ local' = UpdatedLocal(rs, sampled, Counts(rs, sampled))
                /\ since' = [r \in Reqs |-> IF r \in Sampled(rs, sampled) \ Active THEN Before(r)
                                            ELSE IF r \in Range(rs) THEN since[r] ELSE 0]
                /\ UpdateCached(Sampled(rs, sampled) \ Active)
           ELSE UNCHANGED <<local, since, cached>>
  BY DEF Step, Counts, New

(* A row of the batch: its new tokens, and the length it gets. *)
LEMMA RowOf ==
    ASSUME SpecDecodeStepAssumption, NEW rs \in Batches, NEW sampled, NEW i \in 1 .. Len(rs)
    PROVE  New(rs, sampled, rs[i]) = sampled[i]
<1>1. /\ rs[i] \in Range(rs) /\ DOMAIN rs = 1 .. Len(rs)
      /\ \A a, b \in DOMAIN rs : rs[a] = rs[b] => a = b
  BY BatchType DEF IsInjective
<1>2. (CHOOSE j \in DOMAIN rs : rs[j] = rs[i]) = i
  BY <1>1
<1> QED
  BY <1>1, <1>2 DEF New

LEMMA BeforeType ==
    ASSUME SpecDecodeStepAssumption, TypeOK, NEW r \in Reqs
    PROVE  /\ Before(r) \in Nat /\ numTokens[r] \in Nat /\ numTokens[r] <= Before(r)
           /\ numTokens[r] > 0 => Before(r) = numTokens[r]
           /\ Before(r) > 0
<1>1. numTokens[r] \in 0 .. MaxModelLen
  BY DEF TypeOK
<1> QED
  BY <1>1, Params DEF Before

LEMMA CountsType ==
    ASSUME SpecDecodeStepAssumption, TypeOK,
           NEW rs \in Batches, NEW sampled \in [DOMAIN rs -> 0 .. MaxSampled],
           \A i \in DOMAIN rs : Counts(rs, sampled)[rs[i]] <= MaxModelLen
    PROVE  /\ Counts(rs, sampled) \in [Reqs -> 0 .. MaxModelLen]
           /\ \A i \in 1 .. Len(rs) : Counts(rs, sampled)[rs[i]] = Before(rs[i]) + sampled[i]
           /\ \A r \in Range(rs) : Before(r) <= Counts(rs, sampled)[r]
           /\ \A r \in Reqs \ Range(rs) : Counts(rs, sampled)[r] = numTokens[r]
           /\ Lengths(rs, sampled) \in [1 .. MaxRows -> 0 .. MaxModelLen]
           /\ \A i \in 1 .. Len(rs) : Lengths(rs, sampled)[i] = Counts(rs, sampled)[rs[i]]
<1> DEFINE n == Counts(rs, sampled)
           len == Lengths(rs, sampled)
<1>1. /\ rs \in Seq(Reqs) /\ Len(rs) \in 1 .. MaxRows /\ DOMAIN rs = 1 .. Len(rs)
      /\ Range(rs) \subseteq Reqs
      /\ \A r \in Range(rs) : \E i \in 1 .. Len(rs) : rs[i] = r
      /\ \A i \in 1 .. Len(rs) : rs[i] \in Range(rs) /\ rs[i] \in Reqs
  BY BatchType
<1>2. ASSUME NEW i \in 1 .. Len(rs)
      PROVE  /\ n[rs[i]] = Before(rs[i]) + sampled[i]
             /\ n[rs[i]] \in 0 .. MaxModelLen /\ Before(rs[i]) <= n[rs[i]]
  <2>1. n[rs[i]] = Before(rs[i]) + sampled[i]
    BY <1>1, RowOf DEF Counts
  <2>2. sampled[i] \in 0 .. MaxSampled /\ MaxSampled \in Nat /\ n[rs[i]] <= MaxModelLen
    BY <1>1, Params
  <2>3. Before(rs[i]) \in Nat
    BY <1>1, BeforeType
  <2> HIDE DEF n
  <2> QED
    BY <2>1, <2>2, <2>3, Params
<1>3. \A r \in Reqs \ Range(rs) : n[r] = numTokens[r]
  BY DEF Counts
<1>4. \A r \in Range(rs) : Before(r) <= n[r] /\ n[r] \in 0 .. MaxModelLen
  <2> HIDE DEF n
  <2> QED
    BY <1>1, <1>2
<1>5. n \in [Reqs -> 0 .. MaxModelLen]
  <2>1. n = [r \in Reqs |-> n[r]]
    BY DEF Counts
  <2>2. \A r \in Reqs : n[r] \in 0 .. MaxModelLen
    BY <1>3, <1>4 DEF TypeOK
  <2> HIDE DEF n
  <2> QED
    BY <2>1, <2>2
<1>6. \A i \in 1 .. Len(rs) : len[i] = n[rs[i]]
  BY <1>1, RowsType DEF Lengths
<1>7. len \in [1 .. MaxRows -> 0 .. MaxModelLen]
  <2>1. len = [i \in 1 .. MaxRows |-> len[i]]
    BY DEF Lengths
  <2>2. ASSUME NEW i \in 1 .. MaxRows PROVE len[i] \in 0 .. MaxModelLen
    <3>1. CASE i <= Len(rs)
      <4>1. i \in 1 .. Len(rs)
        BY <1>1, <3>1, RowsType
      <4> HIDE DEF n, len
      <4> QED
        BY <1>2, <1>6, <4>1
    <3>2. CASE ~(i <= Len(rs))
      <4>1. len[i] = rowLen[i]
        BY <3>2 DEF Lengths
      <4> HIDE DEF n, len
      <4> QED
        BY <4>1 DEF TypeOK
    <3> QED
      BY <3>1, <3>2
  <2> HIDE DEF len
  <2> QED
    BY <2>1, <2>2
<1> HIDE DEF n, len
<1>8. n = Counts(rs, sampled) /\ len = Lengths(rs, sampled)
  BY DEF n, len
<1> QED
  BY <1>2, <1>3, <1>4, <1>5, <1>6, <1>7, <1>8

-----------------------------------------------------------------------------
(***************************************************************************)
(* The reports to the suffix cache.                                        *)
(***************************************************************************)
LEMMA ReportOf ==
    ASSUME SpecDecodeStepAssumption, IInv, EnableSuffix,
           NEW rs \in Batches, NEW sampled \in [DOMAIN rs -> 0 .. MaxSampled], Step(rs, sampled),
           NEW r \in Range(rs), local'[r] # None
    PROVE  local'[r] = Positions(0, PromptLen) \o Positions(since'[r], Counts(rs, sampled)[r])
<1> DEFINE n == Counts(rs, sampled)
           new == Sampled(rs, sampled)
<1>1. PICK i \in 1 .. Len(rs) : rs[i] = r
  BY BatchType
<1>2. /\ r \in Reqs /\ n[r] = Before(r) + sampled[i] /\ Before(r) <= n[r]
      /\ n[r] \in 0 .. MaxModelLen /\ DOMAIN rs = 1 .. Len(rs)
  BY <1>1, BatchType, CountsType, StepUnfolds DEF IInv
<1>3. /\ local'[r] = IF r \notin new THEN local[r]
                     ELSE (IF local[r] = None THEN Positions(0, PromptLen) ELSE local[r])
                            \o Positions(Before(r), n[r])
      /\ since'[r] = IF r \in new \ Active THEN Before(r) ELSE since[r]
  <2>1. /\ local' = UpdatedLocal(rs, sampled, n)
        /\ since' = [q \in Reqs |-> IF q \in new \ Active THEN Before(q)
                                    ELSE IF q \in Range(rs) THEN since[q] ELSE 0]
    BY StepReports
  <2> HIDE DEF n, new
  <2> QED
    BY <1>2, <2>1 DEF UpdatedLocal, new
<1>4. /\ Before(r) \in Nat /\ (numTokens[r] > 0 => Before(r) = numTokens[r])
      /\ numTokens[r] \in Nat /\ since[r] \in Nat /\ since[r] <= numTokens[r]
  BY <1>2, BeforeType DEF IInv, TypeOK, ActiveInBatch
<1>5. CASE local[r] = None
  <2>1. r \in new /\ r \notin Active
    BY <1>3, <1>5 DEF Active
  <2> HIDE DEF n, new
  <2>2. local'[r] = Positions(0, PromptLen) \o Positions(Before(r), n[r]) /\ since'[r] = Before(r)
    BY <1>3, <1>5, <2>1
  <2> QED
    BY <2>2 DEF n
<1>6. CASE local[r] # None
  <2>1. r \in Active
    BY <1>2, <1>6 DEF Active
  <2>2. /\ since'[r] = since[r] /\ Before(r) = numTokens[r]
        /\ local[r] = Positions(0, PromptLen) \o Positions(since[r], numTokens[r])
    BY <1>3, <1>4, <2>1 DEF IInv, ActiveInBatch, LocalIsPromptAndReports
  <2>3. CASE r \in new
    <3>1. local'[r] = local[r] \o Positions(numTokens[r], n[r])
      BY <1>3, <1>6, <2>2, <2>3
    <3>2. n[r] \in Nat /\ numTokens[r] <= n[r] /\ PromptLen \in Nat
      BY <1>2, <2>2, Params
    <3> HIDE DEF n, new
    <3> DEFINE p == PromptLen
               a == since[r]
               b == numTokens[r]
               c == n[r]
    <3>3. p \in Nat /\ a \in Nat /\ b \in Nat /\ c \in Nat /\ a <= b /\ b <= c
      BY <1>4, <3>2
    <3> HIDE DEF p, a, b, c
    <3>4. (Positions(0, p) \o Positions(a, b)) \o Positions(b, c) = Positions(0, p) \o Positions(a, c)
      BY ZenonT(60), <3>3, Reported
    <3> QED
      BY <2>2, <3>1, <3>4 DEF p, a, b, c, n
  <2>4. CASE r \notin new
    <3>1. sampled[i] = 0
      <4>1. ~(sampled[i] > 0)
        BY <1>1, <1>2, <2>4 DEF Sampled
      <4>2. sampled[i] \in 0 .. MaxSampled /\ MaxSampled \in Nat
        BY <1>2, Params
      <4> QED
        BY <4>1, <4>2
    <3>2. n[r] = numTokens[r]
      <4> HIDE DEF n, new
      <4> QED
        BY <1>2, <1>4, <2>2, <3>1
    <3> HIDE DEF n, new
    <3>3. local'[r] = local[r]
      BY <1>3, <2>4
    <3> QED
      BY <2>2, <3>2, <3>3 DEF n
  <2> QED
    BY <2>3, <2>4
<1> QED
  BY <1>5, <1>6

LEMMA ReportsAreKept ==
    ASSUME SpecDecodeStepAssumption, IInv,
           NEW rs \in Batches, NEW sampled \in [DOMAIN rs -> 0 .. MaxSampled], Step(rs, sampled)
    PROVE  /\ LocalIsPromptAndReports' /\ ActiveInBatch'
           /\ since' \in [Reqs -> 0 .. MaxModelLen] /\ cached' \subseteq Reqs
<1> DEFINE n == Counts(rs, sampled)
<1>1. /\ numTokens' = n /\ rows' = rs
      /\ n \in [Reqs -> 0 .. MaxModelLen] /\ Range(rs) \subseteq Reqs
      /\ \A r \in Range(rs) : Before(r) <= n[r]
      /\ \A r \in Reqs \ Range(rs) : n[r] = numTokens[r]
  BY BatchType, CountsType, StepUnfolds DEF IInv
<1>2. \A r \in Reqs : /\ Before(r) \in Nat /\ Before(r) > 0 /\ numTokens[r] <= Before(r)
                      /\ numTokens[r] \in Nat /\ since[r] \in Nat /\ since[r] <= numTokens[r]
                      /\ n[r] \in 0 .. MaxModelLen
  BY <1>1, BeforeType DEF IInv, TypeOK, ActiveInBatch
<1>3. CASE EnableSuffix
  <2> HIDE DEF n
  <2>1. \A r \in Reqs : local'[r] # None => r \in Range(rs)
    BY <1>3, StepReports DEF UpdatedLocal
  <2>2. \A r \in Reqs : since'[r] = IF r \in Sampled(rs, sampled) \ Active THEN Before(r)
                                    ELSE IF r \in Range(rs) THEN since[r] ELSE 0
    BY <1>3, StepReports
  <2>3. Sampled(rs, sampled) \subseteq Range(rs)
    BY DEF Sampled, Range
  <2>4. ASSUME NEW r \in Reqs PROVE since'[r] \in 0 .. MaxModelLen /\ since'[r] <= n[r]
    <3>1. CASE r \in Sampled(rs, sampled) \ Active
      BY <1>1, <1>2, <2>2, <2>3, <3>1, Params
    <3>2. CASE r \notin Sampled(rs, sampled) \ Active /\ r \in Range(rs)
      BY <1>1, <1>2, <2>2, <3>2, Params
    <3>3. CASE r \notin Sampled(rs, sampled) \ Active /\ r \notin Range(rs)
      BY <1>2, <2>2, <3>3, Params
    <3> QED
      BY <3>1, <3>2, <3>3
  <2>5. since' \in [Reqs -> 0 .. MaxModelLen]
    <3>1. since' = [r \in Reqs |-> since'[r]]
      BY <1>3, StepReports
    <3> QED
      BY <2>4, <3>1
  <2>6. LocalIsPromptAndReports'
    BY <1>1, <1>3, <2>1, ReportOf DEF LocalIsPromptAndReports, Active, n
  <2>7. ActiveInBatch'
    <3>1. ASSUME NEW r \in Range(rs) PROVE n[r] > 0
      BY <1>1, <1>2
    <3> QED
      BY <1>1, <1>3, <2>1, <2>4, <3>1 DEF ActiveInBatch, Active
  <2>8. cached' \subseteq Reqs
    BY <1>1, <1>3, <2>3, StepReports DEF IInv, TypeOK, UpdateCached
  <2> QED
    BY <2>5, <2>6, <2>7, <2>8
<1>4. CASE ~EnableSuffix
  <2>1. local' = local /\ since' = since /\ cached' = cached /\ Active = {} /\ Active' = {}
    BY <1>4, StepReports DEF IInv, ActiveInBatch, Active
  <2>2. \A r \in Reqs : since[r] <= n[r]
    <3> HIDE DEF n
    <3> SUFFICES ASSUME NEW r \in Reqs PROVE since[r] <= n[r]
      OBVIOUS
    <3>1. CASE r \in Range(rs)
      BY <1>1, <1>2, <3>1
    <3>2. CASE r \notin Range(rs)
      BY <1>1, <1>2, <3>2
    <3> QED
      BY <3>1, <3>2
  <2> HIDE DEF n
  <2> QED
    BY <1>1, <2>1, <2>2 DEF IInv, TypeOK, LocalIsPromptAndReports, ActiveInBatch
<1> QED
  BY <1>3, <1>4, Params

-----------------------------------------------------------------------------
(***************************************************************************)
(* The drafts.                                                             *)
(***************************************************************************)

(* What a lookup in the suffix cache may return for a row.                 *)
Suitable(result, k, n) ==
    /\ result.len \in 0 .. MaxSpecLen /\ result.asked \in BOOLEAN
    /\ result.asked => EnableSuffix /\ k > 0
    /\ result.len > 0 => n + result.len + 1 <= MaxModelLen

(* What a step proposes, for rows of the lengths len. *)
GoodDrafts(d, len, sampled, k) ==
    /\ d \in Seq(Draft) /\ Len(d) = k
    /\ \A i \in 1 .. k : d[i].asked => EnableSuffix /\ sampled[i] > 0
    /\ \A i \in 1 .. k : d[i].len > 0 => len[i] + d[i].len + 1 <= MaxModelLen
    /\ EnableSuffix => \A i, j \in 1 .. k : {d[i].by, d[j].by} # {"suffix", "model"}

LEMMA ResultsSuit ==
    ASSUME SpecDecodeStepAssumption, EnableSuffix, NEW k \in Nat, NEW n \in 0 .. MaxModelLen,
           NEW result \in SuffixResults(k, n)
    PROVE  Suitable(result, k, n)
<1>1. CASE k = 0 \/ n >= MaxModelLen
  <2>0. SuffixResults(k, n) = {[len |-> 0, score |-> 0, asked |-> FALSE]}
    BY <1>1 DEF SuffixResults
  <2>1. result.len = 0 /\ result.asked = FALSE
    BY <2>0
  <2>2. result.len \in 0 .. MaxSpecLen /\ ~(result.len > 0)
    BY <2>1, Params
  <2> QED
    BY <2>1, <2>2 DEF Suitable
<1>2. CASE ~(k = 0 \/ n >= MaxModelLen)
  <2>1. /\ SuffixRoom(n) \in Nat /\ SuffixRoom(n) <= MaxSpecLen
        /\ SuffixRoom(n) <= MaxModelLen - n - 1
    BY <1>2, Params DEF SuffixRoom, MinOf
  <2>2. result.len \in 0 .. SuffixRoom(n) /\ result.asked = TRUE
    BY <1>2 DEF SuffixResults
  <2>3. k > 0
    BY <1>2
  <2>4. result.len \in 0 .. MaxSpecLen
    BY <2>1, <2>2, Params
  <2>5. n + result.len + 1 <= MaxModelLen
    BY <2>1, <2>2, Params
  <2>6. result.asked \in BOOLEAN
    BY <2>2
  <2> QED
    BY <2>3, <2>4, <2>5, <2>6 DEF Suitable
<1> QED
  BY <1>1, <1>2

(* The draft model proposes as many tokens for a row as the longest of the *)
(* array has room for.                                                     *)
LEMMA PredictFits ==
    ASSUME SpecDecodeStepAssumption, NEW len \in [1 .. MaxRows -> 0 .. MaxModelLen], NEW ns,
           ~(NumPredict(len, ns) <= 0), NEW i \in 1 .. MaxRows
    PROVE  /\ NumPredict(len, ns) \in 0 .. NumSpec
           /\ len[i] + NumPredict(len, ns) + 1 <= MaxModelLen
<1> DEFINE S == {len[j] : j \in DOMAIN len}
           m == MaxModelLen
           most == Max(S)
<1>1. S \subseteq 0 .. m /\ S # {} /\ m \in Nat /\ len[i] \in S
  BY Params
<1>2. most \in S /\ \A y \in S : y <= most
  <2> HIDE DEF S, m
  <2> QED
    BY <1>1, MaxOf
<1>3. NumPredict(len, ns) = MinOf(NumSpec, MaxModelLen - most - 1)
  BY DEF NumPredict
<1>4. most \in 0 .. MaxModelLen /\ len[i] \in 0 .. MaxModelLen /\ len[i] <= most
  BY <1>1, <1>2
<1> HIDE DEF most, S
<1> QED
  BY <1>3, <1>4, Params DEF MinOf

LEMMA ProposedIsGood ==
    ASSUME SpecDecodeStepAssumption, NEW len \in [1 .. MaxRows -> 0 .. MaxModelLen],
           NEW k \in 1 .. MaxRows, NEW sampled \in [1 .. k -> 0 .. MaxSampled],
           NEW results, \A i \in 1 .. k : Suitable(results[i], sampled[i], len[i])
    PROVE  GoodDrafts(Proposed(len, sampled, results), len, sampled, k)
<1> DEFINE new == [i \in DOMAIN sampled |-> IF TakenBySuffix(results[i]) THEN 0 ELSE sampled[i]]
           predict == NumPredict(len, Len(sampled))
           rowsOfModel == ArcticRows(len, new)
           model == IF Method = "suffix" \/ predict <= 0 THEN {} ELSE rowsOfModel
           d == Proposed(len, sampled, results)
<1>1. /\ d = [i \in 1 .. k |->
                IF TakenBySuffix(results[i]) /\ results[i].len > 0
                THEN [by |-> "suffix", len |-> results[i].len, asked |-> results[i].asked]
                ELSE IF i \in model THEN [by |-> "model", len |-> predict, asked |-> results[i].asked]
                ELSE [by |-> "none", len |-> 0, asked |-> results[i].asked]]
  BY DEF Proposed, NoDraft
<1>2. ASSUME NEW i \in 1 .. k, i \in model
      PROVE  predict \in 0 .. NumSpec /\ len[i] + predict + 1 <= MaxModelLen
  <2>1. ~(predict <= 0)
    <3> HIDE DEF predict, rowsOfModel
    <3> QED
      BY <1>2
  <2>2. i \in 1 .. MaxRows
    BY RowsType
  <2> QED
    BY <2>1, <2>2, PredictFits
<1>3. ASSUME NEW i \in 1 .. k, NEW j \in 1 .. k, EnableSuffix, TakenBySuffix(results[i])
      PROVE  j \notin model
  <2>1. new[i] = 0 /\ i \in DOMAIN new
    BY <1>3
  <2> HIDE DEF new
  <2>2. rowsOfModel = {}
    BY <1>3, <2>1 DEF ArcticRows
  <2> QED
    BY <2>2
<1> HIDE DEF d, model, predict, new, rowsOfModel
<1>4. ASSUME NEW i \in 1 .. k
      PROVE  /\ d[i] \in Draft
             /\ d[i].asked => EnableSuffix /\ sampled[i] > 0
             /\ d[i].len > 0 => len[i] + d[i].len + 1 <= MaxModelLen
  <2>0. Suitable(results[i], sampled[i], len[i])
    OBVIOUS
  <2>1. CASE TakenBySuffix(results[i]) /\ results[i].len > 0
    <3>1. d[i] = [by |-> "suffix", len |-> results[i].len, asked |-> results[i].asked]
      BY <1>1, <2>1
    <3>2. /\ results[i].len \in 0 .. MaxSpecLen /\ results[i].asked \in BOOLEAN
          /\ results[i].asked => EnableSuffix /\ sampled[i] > 0
          /\ len[i] + results[i].len + 1 <= MaxModelLen
      BY <2>0, <2>1 DEF Suitable
    <3>3. results[i].len \in 0 .. Max({MaxSpecLen, NumSpec})
      BY <3>2, LongestDraft, Params
    <3> QED
      BY <3>1, <3>2, <3>3 DEF Draft
  <2>2. CASE ~(TakenBySuffix(results[i]) /\ results[i].len > 0) /\ i \in model
    <3>1. d[i] = [by |-> "model", len |-> predict, asked |-> results[i].asked]
      BY <1>1, <2>2
    <3> QED
      BY <1>2, <2>0, <2>2, <3>1, LongestDraft, Params DEF Suitable, Draft
  <2>3. CASE ~(TakenBySuffix(results[i]) /\ results[i].len > 0) /\ i \notin model
    <3>1. d[i] = [by |-> "none", len |-> 0, asked |-> results[i].asked]
      BY <1>1, <2>3
    <3> QED
      BY <2>0, <3>1, LongestDraft DEF Suitable, Draft
  <2> QED
    BY <2>1, <2>2, <2>3
<1>5. d \in Seq(Draft) /\ Len(d) = k
  <2>1. d \in [1 .. k -> Draft] /\ k \in Nat
    BY <1>1, <1>4, RowsType
  <2> QED
    BY <2>1
<1>6. ASSUME EnableSuffix, NEW i \in 1 .. k, NEW j \in 1 .. k PROVE {d[i].by, d[j].by} # {"suffix", "model"}
  <2>1. ASSUME NEW a \in 1 .. k, d[a].by = "suffix" PROVE TakenBySuffix(results[a])
    BY <1>1, <2>1
  <2>2. ASSUME NEW a \in 1 .. k, d[a].by = "model" PROVE a \in model
    BY <1>1, <2>2
  <2> QED
    BY <1>3, <1>6, <2>1, <2>2
<1> QED
  BY <1>4, <1>5, <1>6 DEF GoodDrafts, d

LEMMA ProposalsAreGood ==
    ASSUME SpecDecodeStepAssumption, NEW len \in [1 .. MaxRows -> 0 .. MaxModelLen],
           NEW k \in 1 .. MaxRows, NEW sampled \in [1 .. k -> 0 .. MaxSampled],
           ProposeDrafts(len, sampled)
    PROVE  GoodDrafts(drafts', len, sampled, k)
<1>0. DOMAIN sampled = 1 .. k /\ k \in Nat
  BY RowsType
<1>1. CASE drafts' = [i \in DOMAIN sampled |-> NoDraft]
  <2>1. drafts' = [i \in 1 .. k |-> [by |-> "none", len |-> 0, asked |-> FALSE]]
    BY <1>0, <1>1 DEF NoDraft
  <2>2. [by |-> "none", len |-> 0, asked |-> FALSE] \in Draft
    BY LongestDraft DEF Draft
  <2>3. drafts' \in Seq(Draft) /\ Len(drafts') = k
    BY <1>0, <2>1, <2>2
  <2>4. \A i \in 1 .. k : drafts'[i].by = "none" /\ drafts'[i].len = 0 /\ drafts'[i].asked = FALSE
    BY <2>1
  <2>5. \A i \in 1 .. k : ~(drafts'[i].len > 0)
    BY <2>4
  <2>6. \A i, j \in 1 .. k : {drafts'[i].by, drafts'[j].by} # {"suffix", "model"}
    BY <2>4
  <2> QED
    BY <2>3, <2>4, <2>5, <2>6 DEF GoodDrafts
<1>2. ASSUME NEW results, drafts' = Proposed(len, sampled, results),
             \A i \in 1 .. k : Suitable(results[i], sampled[i], len[i])
      PROVE  GoodDrafts(drafts', len, sampled, k)
  BY <1>2, ProposedIsGood
<1>3. CASE ~EnableSuffix /\ ~(Len(sampled) > DisableBy)
  <2> DEFINE none == [i \in DOMAIN sampled |-> [len |-> 0, score |-> 0, asked |-> FALSE]]
  <2>1. \A i \in 1 .. k : none[i] = [len |-> 0, score |-> 0, asked |-> FALSE]
    BY <1>0
  <2>2. drafts' = Proposed(len, sampled, none)
    BY <1>3 DEF ProposeDrafts
  <2> HIDE DEF none
  <2>3. \A i \in 1 .. k : Suitable(none[i], sampled[i], len[i])
    <3> SUFFICES ASSUME NEW i \in 1 .. k PROVE Suitable(none[i], sampled[i], len[i])
      OBVIOUS
    <3>1. none[i].len = 0 /\ none[i].asked = FALSE
      BY <2>1
    <3>2. none[i].len \in 0 .. MaxSpecLen /\ ~(none[i].len > 0)
      BY <3>1, Params
    <3> QED
      BY <3>1, <3>2 DEF Suitable
  <2> QED
    BY <1>2, <2>2, <2>3
<1>4. CASE EnableSuffix /\ ~(Len(sampled) > DisableBy)
  <2>1. PICK results : /\ drafts' = Proposed(len, sampled, results)
                       /\ \A i \in 1 .. k : results[i] \in SuffixResults(sampled[i], len[i])
    BY <1>0, <1>4 DEF ProposeDrafts
  <2>2. ASSUME NEW i \in 1 .. k PROVE sampled[i] \in Nat /\ len[i] \in 0 .. MaxModelLen
    <3>1. i \in 1 .. MaxRows
      BY RowsType
    <3>2. sampled[i] \in 0 .. MaxSampled /\ len[i] \in 0 .. MaxModelLen
      BY <3>1
    <3> QED
      BY <3>2, Params
  <2>3. \A i \in 1 .. k : Suitable(results[i], sampled[i], len[i])
    BY <1>4, <2>1, <2>2, ResultsSuit
  <2> QED
    BY <1>2, <2>1, <2>3
<1> QED
  BY <1>1, <1>3, <1>4, Params DEF ProposeDrafts

-----------------------------------------------------------------------------
(***************************************************************************)
(* The specification.                                                      *)
(***************************************************************************)
LEMMA InitHolds == ASSUME SpecDecodeStepAssumption PROVE Init => IInv
<1> SUFFICES ASSUME Init PROVE IInv
  OBVIOUS
<1>1. Active = {} /\ drafts = <<>> /\ rows = <<>>
  BY DEF Init, Active
<1>2. TypeOK
  <2>1. numTokens \in [Reqs -> 0 .. MaxModelLen] /\ since \in [Reqs -> 0 .. MaxModelLen]
        /\ rowLen \in [1 .. MaxRows -> 0 .. MaxModelLen]
    BY Params DEF Init
  <2>2. rows \in Seq(Reqs) /\ IsInjective(rows)
    BY <1>1 DEF IsInjective
  <2>3. drafts \in Seq(Draft)
    BY <1>1
  <2> QED
    BY <1>1, <2>1, <2>2, <2>3 DEF TypeOK, Init, Draft
<1>3. ActiveInBatch
  BY <1>1 DEF ActiveInBatch, Init
<1> QED
  BY <1>1, <1>2, <1>3 DEF IInv, LocalIsPromptAndReports, DraftsOfRows, DraftsFitModel, OneMethodPerStep

LEMMA StepKeeps ==
    ASSUME SpecDecodeStepAssumption, IInv,
           NEW rs \in Batches, NEW sampled \in [DOMAIN rs -> 0 .. MaxSampled], Step(rs, sampled)
    PROVE  IInv'
<1> DEFINE n == Counts(rs, sampled)
           len == Lengths(rs, sampled)
           k == Len(rs)
<1>1. /\ numTokens' = n /\ rows' = rs /\ rowLen' = len /\ finished' = finished
      /\ n \in [Reqs -> 0 .. MaxModelLen] /\ len \in [1 .. MaxRows -> 0 .. MaxModelLen]
      /\ \A i \in 1 .. k : len[i] = n[rs[i]]
      /\ \A r \in Range(rs) : Before(r) <= n[r]
      /\ ProposeDrafts(len, sampled)
  BY CountsType, StepUnfolds DEF IInv
<1>2. /\ rs \in Seq(Reqs) /\ IsInjective(rs) /\ k \in 1 .. MaxRows /\ DOMAIN rs = 1 .. k
      /\ \A i \in 1 .. k : rs[i] \in Range(rs) /\ rs[i] \in Reqs
  BY BatchType
<1> HIDE DEF n, len, k
<1>3. GoodDrafts(drafts', len, sampled, k)
  BY <1>1, <1>2, ProposalsAreGood
<1>4. /\ LocalIsPromptAndReports' /\ ActiveInBatch'
      /\ since' \in [Reqs -> 0 .. MaxModelLen] /\ cached' \subseteq Reqs
  BY ReportsAreKept
<1>5. ASSUME NEW r \in Reqs, local'[r] # None PROVE local'[r] \in Seq(1 .. MaxModelLen)
  <2> DEFINE a == since'[r]
             b == n[r]
             p == PromptLen
             m == MaxModelLen
  <2>1. local'[r] = Positions(0, p) \o Positions(a, b) /\ a <= b
    BY <1>1, <1>4, <1>5 DEF LocalIsPromptAndReports, ActiveInBatch, Active
  <2>2. a \in 0 .. m /\ b \in 0 .. m /\ m \in Nat /\ p \in Nat /\ p <= m
    BY <1>1, <1>4, Params
  <2> HIDE DEF a, b, p, m
  <2>3. a \in Nat /\ b \in Nat /\ b <= m
    BY <2>2
  <2>4. Positions(0, p) \o Positions(a, b) \in Seq(1 .. m)
    BY <2>1, <2>2, <2>3, TextType
  <2> QED
    BY <2>1, <2>4 DEF m
<1>6. TypeOK'
  <2>1. \A r \in Active' : local'[r] \in Seq(1 .. MaxModelLen)
    BY <1>5 DEF Active
  <2>2. drafts' \in Seq(Draft)
    BY <1>3 DEF GoodDrafts
  <2> QED
    BY <1>1, <1>2, <1>4, <2>1, <2>2 DEF IInv, TypeOK, Draft
<1>7. DOMAIN drafts' = 1 .. k /\ Len(drafts') = k
  BY <1>2, <1>3 DEF GoodDrafts
<1>8. ASSUME NEW i \in 1 .. k, drafts'[i].asked PROVE rs[i] \in Active'
  <2>1. EnableSuffix /\ sampled[i] > 0
    BY <1>3, <1>8 DEF GoodDrafts
  <2>2. local'[rs[i]] # None
    <3>1. rs[i] \in Sampled(rs, sampled)
      BY <1>2, <2>1 DEF Sampled
    <3>2. local' = UpdatedLocal(rs, sampled, n)
      BY <2>1, StepReports DEF n
    <3> DEFINE r == rs[i]
               p == PromptLen
               before == IF local[r] = None THEN Positions(0, p) ELSE local[r]
               a == Before(r)
               b == n[r]
    <3>3. local'[r] = before \o Positions(a, b)
      BY <1>2, <3>1, <3>2 DEF UpdatedLocal
    <3>4. p \in Nat /\ a \in Nat /\ b \in Nat /\ a <= b /\ 0 \in Nat /\ 0 <= p
      <4>1. n[r] \in 0 .. MaxModelLen /\ Before(r) <= n[r] /\ r \in Reqs
        BY <1>1, <1>2
      <4>2. Before(r) \in Nat
        BY <4>1, BeforeType DEF IInv
      <4> QED
        BY <4>1, <4>2, Params
    <3>5. before \in Seq(Nat)
      <4>1. CASE local[r] = None
        <5> HIDE DEF p
        <5> QED
          BY <3>4, <4>1, PositionsType
      <4>2. CASE local[r] # None
        <5>1. local[r] \in Seq(1 .. MaxModelLen)
          BY <1>2, <4>2 DEF IInv, TypeOK, Active
        <5>2. before = local[r]
          BY <4>2
        <5>3. local[r] \in Seq(Nat)
          BY <5>1, NumbersOnly
        <5> HIDE DEF before
        <5> QED
          BY <5>2, <5>3
      <4> QED
        BY <4>1, <4>2
    <3> HIDE DEF r, p, before, a, b
    <3>6. Positions(a, b) \in Seq(Nat)
      BY <3>4, PositionsType
    <3>7. local'[r] \in Seq(Nat)
      BY <3>3, <3>5, <3>6
    <3> QED
      BY <3>7, Params DEF r
  <2> QED
    BY <1>2, <2>2 DEF Active
<1>9. DraftsOfRows'
  BY <1>1, <1>7, <1>8 DEF DraftsOfRows, k
<1>10. DraftsFitModel'
  <2>1. \A i \in 1 .. k : drafts'[i].len > 0 => n[rs[i]] + drafts'[i].len + 1 <= MaxModelLen
    BY <1>1, <1>3 DEF GoodDrafts
  <2> QED
    BY <1>1, <1>7, <2>1 DEF DraftsFitModel
<1>11. OneMethodPerStep'
  BY <1>3, <1>7 DEF OneMethodPerStep, GoodDrafts
<1> QED
  BY <1>4, <1>6, <1>9, <1>10, <1>11 DEF IInv

LEMMA OthersKeep ==
    ASSUME IInv, UNCHANGED <<numTokens, rows, rowLen, local, cached, drafts, since>>,
           finished' \subseteq Reqs
    PROVE  IInv'
<1>1. Active' = Active
  BY DEF Active
<1>2. TypeOK'
  BY <1>1 DEF IInv, TypeOK
<1>3. LocalIsPromptAndReports'
  BY <1>1 DEF IInv, LocalIsPromptAndReports
<1>4. ActiveInBatch'
  BY <1>1 DEF IInv, ActiveInBatch
<1>5. DraftsOfRows'
  BY <1>1 DEF IInv, DraftsOfRows
<1>6. DraftsFitModel' /\ OneMethodPerStep'
  BY DEF IInv, DraftsFitModel, OneMethodPerStep
<1> QED
  BY <1>2, <1>3, <1>4, <1>5, <1>6 DEF IInv

LEMMA NextKeeps == ASSUME SpecDecodeStepAssumption PROVE IInv /\ [Next]_vars => IInv'
<1> SUFFICES ASSUME IInv, [Next]_vars PROVE IInv'
  OBVIOUS
<1>1. ASSUME NEW rs \in Batches, NEW sampled \in [DOMAIN rs -> 0 .. MaxSampled], Step(rs, sampled)
      PROVE  IInv'
  BY <1>1, StepKeeps
<1>2. ASSUME NEW r \in Reqs, Finish(r) PROVE IInv'
  <2>1. finished \subseteq Reqs
    BY DEF IInv, TypeOK
  <2> QED
    BY <1>2, <2>1, OthersKeep DEF Finish
<1>3. CASE UNCHANGED vars
  <2>1. finished \subseteq Reqs
    BY DEF IInv, TypeOK
  <2> QED
    BY <1>3, <2>1, OthersKeep DEF vars
<1> QED
  BY <1>1, <1>2, <1>3 DEF Next

LEMMA Invariance == ASSUME SpecDecodeStepAssumption PROVE Spec => []IInv
  BY InitHolds, NextKeeps, PTL DEF Spec

(* _update_suffix_cache: whichever requests each batch takes in, leaves    *)
(* out and brings back, and whichever steps give a row no token, the local *)
(* tree of a request is its prompt and every token since it was started,   *)
(* once and in order; no request outside the batch keeps one, and the      *)
(* cache is asked only for requests it knows.                              *)
THEOREM ReportsFollowTheBatch ==
    ASSUME SpecDecodeStepAssumption
    PROVE  Spec => [](TypeOK /\ LocalIsPromptAndReports /\ ActiveAreScheduled)
<1>1. IInv => TypeOK /\ LocalIsPromptAndReports /\ ActiveAreScheduled
  BY DEF IInv, ActiveInBatch, DraftsOfRows, ActiveAreScheduled
<1> QED
  BY <1>1, Invariance, PTL

(* propose_draft_token_ids: a draft of either method and the token after   *)
(* it fit into max_model_len, although the draft model proposes one length *)
(* for all rows; and a step uses one method for all its rows.              *)
THEOREM DraftsFitTheModel ==
    ASSUME SpecDecodeStepAssumption
    PROVE  Spec => [](DraftsFitModel /\ OneMethodPerStep)
<1>1. IInv => DraftsFitModel /\ OneMethodPerStep
  BY DEF IInv
<1> QED
  BY <1>1, Invariance, PTL

=============================================================================
