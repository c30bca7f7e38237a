------------------------- MODULE SiblingOrderProofs -------------------------
(***************************************************************************)
(* The children of a suffix-tree node stay in order of decreasing count,   *)
(* for any number of them.  The moves are first read position by position, *)
(* then shown to rearrange the list and to sort it by the new counts.      *)
(***************************************************************************)
EXTENDS SiblingOrder, SequenceTheorems, WellFoundedInduction, TLAPS

(* The inductive invariant: a move sorts a list that was sorted. *)
IInv == TypeOK /\ ListsTheChildren /\ StaySorted

LEMMA Least ==
    ASSUME NEW T, T \subseteq Nat, T # {}
    PROVE  \E x \in T : \A y \in T : x <= y
<1>1. PICK R : /\ IsWellFoundedOn(R, Nat)
               /\ \A x, y \in Nat : <<y, x>> \in R <=> y < x
  <2> DEFINE R == OpToRel(<, Nat)
  <2>1. IsWellFoundedOn(R, Nat)
    BY NatLessThanWellFounded
  <2>2. \A x, y \in Nat : <<y, x>> \in R <=> y < x
    BY DEF OpToRel
  <2> QED
    BY <2>1, <2>2
<1>2. PICK x \in T : \A y \in T : ~(<<y, x>> \in R)
  BY <1>1, WFMin
<1>3. ASSUME NEW y \in T PROVE x <= y
  <2>1. ~(y < x) /\ x \in Nat /\ y \in Nat
    BY <1>1, <1>2
  <2> QED
    BY <2>1
<1> QED
  BY <1>3

(* Both ends of a group, a set of positions of equal count, exist. *)
LEMMA GroupStarts ==
    ASSUME NEW s \in Seq(Nodes), NEW c \in [Nodes -> Nat], NEW i \in 1 .. Len(s)
    PROVE  /\ GroupHead(s, c, i) \in 1 .. i
           /\ c[s[GroupHead(s, c, i)]] = c[s[i]]
           /\ \A k \in 1 .. GroupHead(s, c, i) - 1 : c[s[k]] # c[s[i]]
<1>1. \E j \in 1 .. i : /\ c[s[j]] = c[s[i]]
                        /\ \A k \in 1 .. j - 1 : c[s[k]] # c[s[i]]
  <2> DEFINE T == {j \in 1 .. i : c[s[j]] = c[s[i]]}
  <2>1. T \subseteq Nat /\ T # {}
    OBVIOUS
  <2>2. PICK j \in T : \A y \in T : j <= y
    <3> HIDE DEF T
    <3> QED
      BY <2>1, Least
  <2>3. ASSUME NEW k \in 1 .. j - 1 PROVE c[s[k]] # c[s[i]]
    <3>1. k \in 1 .. i /\ ~(j <= k)
      BY <2>2
    <3> QED
      BY <2>2, <3>1
  <2> QED
    BY <2>2, <2>3
<1> QED
  BY <1>1 DEF GroupHead

LEMMA GroupEnds ==
    ASSUME NEW s \in Seq(Nodes), NEW c \in [Nodes -> Nat], NEW i \in 1 .. Len(s)
    PROVE  /\ GroupTail(s, c, i) \in i .. Len(s)
           /\ c[s[GroupTail(s, c, i)]] = c[s[i]]
           /\ \A k \in GroupTail(s, c, i) + 1 .. Len(s) : c[s[k]] # c[s[i]]
<1>1. Len(s) \in Nat /\ i \in Nat
  OBVIOUS
<1>2. \E j \in i .. Len(s) : /\ c[s[j]] = c[s[i]]
                             /\ \A k \in j + 1 .. Len(s) : c[s[k]] # c[s[i]]
  <2> DEFINE T == {m \in 0 .. Len(s) - i : c[s[Len(s) - m]] = c[s[i]]}
  <2>1. T \subseteq Nat /\ T # {}
    <3>1. Len(s) - i \in 0 .. Len(s) - i /\ Len(s) - (Len(s) - i) = i
      BY <1>1
    <3>2. Len(s) - i \in T
      BY <3>1
    <3>3. T \subseteq Nat
      BY <1>1
    <3> QED
      BY <3>2, <3>3
  <2>2. PICK m \in T : \A y \in T : m <= y
    <3> HIDE DEF T
    <3> QED
      BY <2>1, Least
  <2>3. ASSUME NEW k \in Len(s) - m + 1 .. Len(s) PROVE c[s[k]] # c[s[i]]
    <3>1. Len(s) - k \in 0 .. Len(s) - i /\ Len(s) - (Len(s) - k) = k /\ ~(m <= Len(s) - k)
      BY <1>1, <2>2
    <3> QED
      BY <2>2, <3>1
  <2>4. Len(s) - m \in i .. Len(s) /\ c[s[Len(s) - m]] = c[s[i]]
    BY <1>1, <2>2
  <2> QED
    BY <2>3, <2>4
<1> QED
  BY <1>2 DEF GroupTail

LEMMA Joined ==
    \A a, b \in Seq(Nodes) :
       /\ a \o b \in Seq(Nodes)
       /\ Len(a \o b) = Len(a) + Len(b)
       /\ \A k \in 1 .. Len(a) : (a \o b)[k] = a[k]
       /\ \A k \in Len(a) + 1 .. Len(a) + Len(b) : (a \o b)[k] = b[k - Len(a)]
<1> SUFFICES ASSUME NEW a \in Seq(Nodes), NEW b \in Seq(Nodes)
             PROVE  /\ a \o b \in Seq(Nodes)
                    /\ Len(a \o b) = Len(a) + Len(b)
                    /\ \A k \in 1 .. Len(a) : (a \o b)[k] = a[k]
                    /\ \A k \in Len(a) + 1 .. Len(a) + Len(b) : (a \o b)[k] = b[k - Len(a)]
  OBVIOUS
<1>1. Len(a) \in Nat /\ Len(b) \in Nat
  OBVIOUS
<1>2. /\ a \o b \in Seq(Nodes) /\ Len(a \o b) = Len(a) + Len(b)
      /\ \A k \in 1 .. Len(a) + Len(b) : (a \o b)[k] = IF k <= Len(a) THEN a[k] ELSE b[k - Len(a)]
  BY ConcatProperties
<1> QED
  BY <1>1, <1>2

(* The moves, position by position. *)
LEMMA MovedUpAt ==
    ASSUME NEW s \in Seq(Nodes), NEW i \in 1 .. Len(s), NEW j \in 1 .. i
    PROVE  /\ MovedUp(s, i, j) \in Seq(Nodes)
           /\ Len(MovedUp(s, i, j)) = Len(s)
           /\ \A k \in 1 .. Len(s) : MovedUp(s, i, j)[k] =
                IF k < j \/ k > i THEN s[k] ELSE IF k = j THEN s[i] ELSE s[k - 1]
<1> DEFINE a == SubSeq(s, 1, j - 1)
           b == SubSeq(s, j, i - 1)
           d == SubSeq(s, i + 1, Len(s))
<1>1. Len(s) \in Nat /\ i \in Nat /\ j \in Nat /\ \A k \in 1 .. Len(s) : s[k] \in Nodes
  OBVIOUS
<1>2. a \in Seq(Nodes) /\ Len(a) = j - 1 /\ \A k \in 1 .. j - 1 : a[k] = s[k]
  BY <1>1, SubSeqProperties
<1>3. b \in Seq(Nodes) /\ Len(b) = i - j /\ \A k \in 1 .. i - j : b[k] = s[j + k - 1]
  BY <1>1, SubSeqProperties
<1>4. d \in Seq(Nodes) /\ Len(d) = Len(s) - i /\ \A k \in 1 .. Len(s) - i : d[k] = s[i + k]
  BY <1>1, SubSeqProperties
<1>5. MovedUp(s, i, j) = a \o <<s[i]>> \o b \o d
  BY DEF MovedUp
<1> DEFINE x == <<s[i]>>
           ax == a \o x
           axb == ax \o b
<1>6. x \in Seq(Nodes) /\ Len(x) = 1 /\ x[1] = s[i]
  BY <1>1
<1> HIDE DEF a, b, d, x
<1>7. /\ ax \in Seq(Nodes) /\ Len(ax) = j /\ ax[j] = s[i]
      /\ \A k \in 1 .. j - 1 : ax[k] = s[k]
  <2>1. j - 1 \in Nat /\ 1 \in Nat /\ j - 1 + 1 = j /\ j - (j - 1) = 1 /\ j \in j - 1 + 1 .. j
    BY <1>1
  <2> DEFINE m == j - 1
  <2> HIDE DEF m
  <2>2. m \in Nat /\ Len(a) = m /\ m + 1 = j /\ j - m = 1
    BY <1>1, <1>2, <2>1 DEF m
  <2>3. /\ ax \in Seq(Nodes) /\ Len(ax) = m + 1
        /\ \A k \in 1 .. m : ax[k] = a[k]
        /\ \A k \in m + 1 .. m + 1 : ax[k] = x[k - m]
    <3>1. /\ a \o x \in Seq(Nodes) /\ Len(a \o x) = Len(a) + Len(x)
          /\ \A k \in 1 .. Len(a) : (a \o x)[k] = a[k]
          /\ \A k \in Len(a) + 1 .. Len(a) + Len(x) : (a \o x)[k] = x[k - Len(a)]
      BY <1>2, <1>6, Joined
    <3> QED
      BY <1>6, <2>2, <3>1
  <2>4. ax[j] = x[1]
    BY <1>1, <2>2, <2>3
  <2> QED
    BY <1>2, <1>6, <2>2, <2>3, <2>4 DEF m
<1> HIDE DEF ax
<1>8. /\ axb \in Seq(Nodes) /\ Len(axb) = i
      /\ \A k \in 1 .. j : axb[k] = ax[k]
      /\ \A k \in j + 1 .. i : axb[k] = b[k - j]
  <2> DEFINE n == i - j
  <2>1. n \in Nat /\ Len(b) = n /\ j + n = i
    BY <1>1, <1>3
  <2> HIDE DEF n
  <2>2. /\ ax \o b \in Seq(Nodes) /\ Len(ax \o b) = Len(ax) + Len(b)
        /\ \A k \in 1 .. Len(ax) : (ax \o b)[k] = ax[k]
        /\ \A k \in Len(ax) + 1 .. Len(ax) + Len(b) : (ax \o b)[k] = b[k - Len(ax)]
    BY <1>3, <1>7, Joined
  <2> QED
    BY <1>1, <1>7, <2>1, <2>2
<1> HIDE DEF axb
<1>9. /\ axb \o d \in Seq(Nodes) /\ Len(axb \o d) = Len(s)
      /\ \A k \in 1 .. i : (axb \o d)[k] = axb[k]
      /\ \A k \in i + 1 .. Len(s) : (axb \o d)[k] = d[k - i]
  <2> DEFINE n == Len(s) - i
  <2>1. n \in Nat /\ Len(d) = n /\ i + n = Len(s)
    BY <1>1, <1>4
  <2> HIDE DEF n
  <2>2. /\ axb \o d \in Seq(Nodes) /\ Len(axb \o d) = Len(axb) + Len(d)
        /\ \A k \in 1 .. Len(axb) : (axb \o d)[k] = axb[k]
        /\ \A k \in Len(axb) + 1 .. Len(axb) + Len(d) : (axb \o d)[k] = d[k - Len(axb)]
    BY <1>4, <1>8, Joined
  <2> QED
    BY <1>1, <1>8, <2>1, <2>2
<1>10. MovedUp(s, i, j) = axb \o d
  BY <1>5 DEF axb, ax, x
<1>11. ASSUME NEW k \in 1 .. Len(s)
       PROVE  (axb \o d)[k] = IF k < j \/ k > i THEN s[k] ELSE IF k = j THEN s[i] ELSE s[k - 1]
  <2>1. CASE k < j
    BY <1>1, <1>7, <1>8, <1>9, <2>1
  <2>2. CASE k = j
    BY <1>1, <1>7, <1>8, <1>9, <2>2
  <2>3. CASE k > j /\ k <= i
    <3>1. k - j \in 1 .. i - j /\ j + (k - j) - 1 = k - 1 /\ k \in j + 1 .. i /\ k \in 1 .. i
      BY <1>1, <2>3
    <3>2. b[k - j] = s[j + (k - j) - 1]
      BY <1>3, <3>1
    <3>3. (axb \o d)[k] = b[k - j]
      BY <1>8, <1>9, <3>1
    <3> QED
      BY <1>1, <2>3, <3>1, <3>2, <3>3
  <2>4. CASE k > i
    <3>1. k - i \in 1 .. Len(s) - i /\ i + (k - i) = k /\ k \in i + 1 .. Len(s)
      BY <1>1, <2>4
    <3>2. d[k - i] = s[i + (k - i)]
      BY <1>4, <3>1
    <3> QED
      BY <1>1, <1>9, <2>4, <3>1, <3>2
  <2>5. k < j \/ k = j \/ (k > j /\ k <= i) \/ k > i
    BY <1>1
  <2> QED
    BY <2>1, <2>2, <2>3, <2>4, <2>5
<1> QED
  BY <1>9, <1>10, <1>11

LEMMA MovedDownAt ==
    ASSUME NEW s \in Seq(Nodes), NEW i \in 1 .. Len(s), NEW j \in i .. Len(s)
    PROVE  /\ MovedDown(s, i, j) \in Seq(Nodes)
           /\ Len(MovedDown(s, i, j)) = Len(s)
           /\ \A k \in 1 .. Len(s) : MovedDown(s, i, j)[k] =
                IF k < i \/ k > j THEN s[k] ELSE IF k = j THEN s[i] ELSE s[k + 1]
<1> DEFINE a == SubSeq(s, 1, i - 1)
           b == SubSeq(s, i + 1, j)
           d == SubSeq(s, j + 1, Len(s))
<1>1. Len(s) \in Nat /\ i \in Nat /\ j \in Nat /\ \A k \in 1 .. Len(s) : s[k] \in Nodes
  OBVIOUS
<1>2. a \in Seq(Nodes) /\ Len(a) = i - 1 /\ \A k \in 1 .. i - 1 : a[k] = s[k]
  BY <1>1, SubSeqProperties
<1>3. b \in Seq(Nodes) /\ Len(b) = j - i /\ \A k \in 1 .. j - i : b[k] = s[i + k]
  BY <1>1, SubSeqProperties
<1>4. d \in Seq(Nodes) /\ Len(d) = Len(s) - j /\ \A k \in 1 .. Len(s) - j : d[k] = s[j + k]
  BY <1>1, SubSeqProperties
<1>5. MovedDown(s, i, j) = a \o b \o <<s[i]>> \o d
  BY DEF MovedDown
<1> DEFINE x == <<s[i]>>
           ab == a \o b
           abx == ab \o x
<1>6. x \in Seq(Nodes) /\ Len(x) = 1 /\ x[1] = s[i]
  BY <1>1
<1> HIDE DEF a, b, d, x
<1>7. /\ ab \in Seq(Nodes) /\ Len(ab) = j - 1
      /\ \A k \in 1 .. i - 1 : ab[k] = a[k]
      /\ \A k \in i .. j - 1 : ab[k] = b[k - (i - 1)]
  <2> DEFINE m == i - 1
             n == j - i
  <2>1. m \in Nat /\ n \in Nat /\ Len(a) = m /\ Len(b) = n /\ m + n = j - 1 /\ m + 1 = i
    BY <1>1, <1>2, <1>3
  <2> HIDE DEF m, n
  <2>2. /\ ab \in Seq(Nodes) /\ Len(ab) = m + n
        /\ \A k \in 1 .. m : ab[k] = a[k]
        /\ \A k \in m + 1 .. m + n : ab[k] = b[k - m]
    <3>1. /\ a \o b \in Seq(Nodes) /\ Len(a \o b) = Len(a) + Len(b)
          /\ \A k \in 1 .. Len(a) : (a \o b)[k] = a[k]
          /\ \A k \in Len(a) + 1 .. Len(a) + Len(b) : (a \o b)[k] = b[k - Len(a)]
      BY <1>2, <1>3, Joined
    <3> QED
      BY <2>1, <3>1
  <2> QED
    BY <2>1, <2>2 DEF m
<1> HIDE DEF ab
<1>8. /\ abx \in Seq(Nodes) /\ Len(abx) = j /\ abx[j] = s[i]
      /\ \A k \in 1 .. j - 1 : abx[k] = ab[k]
  <2> DEFINE m == j - 1
  <2>1. m \in Nat /\ 1 \in Nat /\ Len(ab) = m /\ m + 1 = j /\ j - m = 1
    BY <1>1, <1>7
  <2>2. \A k \in 1 .. j - 1 : k \in 1 .. m
    OBVIOUS
  <2> HIDE DEF m
  <2>3. /\ abx \in Seq(Nodes) /\ Len(abx) = m + 1
        /\ \A k \in 1 .. m : abx[k] = ab[k]
        /\ \A k \in m + 1 .. m + 1 : abx[k] = x[k - m]
    <3>1. /\ ab \o x \in Seq(Nodes) /\ Len(ab \o x) = Len(ab) + Len(x)
          /\ \A k \in 1 .. Len(ab) : (ab \o x)[k] = ab[k]
          /\ \A k \in Len(ab) + 1 .. Len(ab) + Len(x) : (ab \o x)[k] = x[k - Len(ab)]
      BY <1>6, <1>7, Joined
    <3> QED
      BY <1>6, <2>1, <3>1
  <2>4. abx[j] = x[1]
    BY <1>1, <2>1, <2>3
  <2> QED
    BY <1>6, <2>1, <2>2, <2>3, <2>4
<1> HIDE DEF abx
<1>9. /\ abx \o d \in Seq(Nodes) /\ Len(abx \o d) = Len(s)
      /\ \A k \in 1 .. j : (abx \o d)[k] = abx[k]
      /\ \A k \in j + 1 .. Len(s) : (abx \o d)[k] = d[k - j]
  <2> DEFINE n == Len(s) - j
  <2>1. n \in Nat /\ Len(d) = n /\ j + n = Len(s)
    BY <1>1, <1>4
  <2> HIDE DEF n
  <2>2. /\ abx \o d \in Seq(Nodes) /\ Len(abx \o d) = Len(abx) + Len(d)
        /\ \A k \in 1 .. Len(abx) : (abx \o d)[k] = abx[k]
        /\ \A k \in Len(abx) + 1 .. Len(abx) + Len(d) : (abx \o d)[k] = d[k - Len(abx)]
    BY <1>4, <1>8, Joined
  <2> QED
    BY <1>1, <1>8, <2>1, <2>2
<1>10. MovedDown(s, i, j) = abx \o d
  BY <1>5 DEF abx, ab, x
<1>11. ASSUME NEW k \in 1 .. Len(s)
       PROVE  (abx \o d)[k] = IF k < i \/ k > j THEN s[k] ELSE IF k = j THEN s[i] ELSE s[k + 1]
  <2>1. CASE k < i
    <3>1. k \in 1 .. i - 1 /\ k \in 1 .. j - 1 /\ k \in 1 .. j
      BY <1>1, <2>1
    <3>2. (abx \o d)[k] = s[k]
      BY <1>2, <1>7, <1>8, <1>9, <3>1
    <3> QED
      BY <2>1, <3>2
  <2>2. CASE k = j
    BY <1>1, <1>8, <1>9, <2>2
  <2>3. CASE k >= i /\ k < j
    <3>1. /\ k - (i - 1) \in 1 .. j - i /\ i + (k - (i - 1)) = k + 1
          /\ k \in i .. j - 1 /\ k \in 1 .. j - 1 /\ k \in 1 .. j
      BY <1>1, <2>3
    <3>2. b[k - (i - 1)] = s[i + (k - (i - 1))]
      BY <1>3, <3>1
    <3>3. (abx \o d)[k] = b[k - (i - 1)]
      BY <1>7, <1>8, <1>9, <3>1
    <3> QED
      BY <1>1, <2>3, <3>1, <3>2, <3>3
  <2>4. CASE k > j
    <3>1. k - j \in 1 .. Len(s) - j /\ j + (k - j) = k /\ k \in j + 1 .. Len(s)
      BY <1>1, <2>4
    <3>2. d[k - j] = s[j + (k - j)]
      BY <1>4, <3>1
    <3> QED
      BY <1>1, <1>9, <2>4, <3>1, <3>2
  <2>5. k < i \/ k = j \/ (k >= i /\ k < j) \/ k > j
    BY <1>1
  <2> QED
    BY <2>1, <2>2, <2>3, <2>4, <2>5
<1> QED
  BY <1>9, <1>10, <1>11

LEMMA WithoutAt ==
    ASSUME NEW s \in Seq(Nodes), NEW n \in Members(s), Distinct(s)
    PROVE  /\ WithoutNode(s, n) \in Seq(Nodes)
           /\ Len(WithoutNode(s, n)) = Len(s) - 1
           /\ \E i \in 1 .. Len(s) : s[i] = n /\ \A k \in 1 .. Len(s) - 1 :
                WithoutNode(s, n)[k] = IF k < i THEN s[k] ELSE s[k + 1]
<1> DEFINE i == PositionOf(s, n)
           a == SubSeq(s, 1, i - 1)
           b == SubSeq(s, i + 1, Len(s))
<1>0. i \in 1 .. Len(s) /\ s[i] = n
  BY DEF PositionOf, Members
<1>1. Len(s) \in Nat /\ i \in Nat /\ \A k \in 1 .. Len(s) : s[k] \in Nodes
  BY <1>0
<1>5. WithoutNode(s, n) = a \o b
  BY DEF WithoutNode
<1> HIDE DEF i
<1>2. a \in Seq(Nodes) /\ Len(a) = i - 1 /\ \A k \in 1 .. i - 1 : a[k] = s[k]
  BY <1>0, <1>1, SubSeqProperties
<1>3. b \in Seq(Nodes) /\ Len(b) = Len(s) - i /\ \A k \in 1 .. Len(s) - i : b[k] = s[i + k]
  BY <1>0, <1>1, SubSeqProperties
<1> HIDE DEF a, b
<1>6. /\ a \o b \in Seq(Nodes) /\ Len(a \o b) = Len(s) - 1
      /\ \A k \in 1 .. i - 1 : (a \o b)[k] = a[k]
      /\ \A k \in i .. Len(s) - 1 : (a \o b)[k] = b[k - (i - 1)]
  <2> DEFINE m == i - 1
             l == Len(s) - i
  <2>1. m \in Nat /\ l \in Nat /\ Len(a) = m /\ Len(b) = l /\ m + l = Len(s) - 1 /\ m + 1 = i
    BY <1>0, <1>1, <1>2, <1>3
  <2> HIDE DEF m, l
  <2>2. /\ a \o b \in Seq(Nodes) /\ Len(a \o b) = m + l
        /\ \A k \in 1 .. m : (a \o b)[k] = a[k]
        /\ \A k \in m + 1 .. m + l : (a \o b)[k] = b[k - m]
    <3>1. /\ a \o b \in Seq(Nodes) /\ Len(a \o b) = Len(a) + Len(b)
          /\ \A k \in 1 .. Len(a) : (a \o b)[k] = a[k]
          /\ \A k \in Len(a) + 1 .. Len(a) + Len(b) : (a \o b)[k] = b[k - Len(a)]
      BY <1>2, <1>3, Joined
    <3> QED
      BY <2>1, <3>1
  <2> QED
    BY <2>1, <2>2 DEF m
<1>7. ASSUME NEW k \in 1 .. Len(s) - 1
      PROVE  (a \o b)[k] = IF k < i THEN s[k] ELSE s[k + 1]
  <2>1. CASE k < i
    BY <1>1, <1>2, <1>6, <2>1
  <2>2. CASE k >= i
    <3>1. k - (i - 1) \in 1 .. Len(s) - i /\ i + (k - (i - 1)) = k + 1 /\ k \in i .. Len(s) - 1
      BY <1>1, <2>2
    <3>2. b[k - (i - 1)] = s[i + (k - (i - 1))]
      BY <1>3, <3>1
    <3> QED
      BY <1>1, <1>6, <2>2, <3>1, <3>2
  <2>3. k < i \/ k >= i
    BY <1>1
  <2> QED
    BY <2>1, <2>2, <2>3
<1> QED
  BY <1>0, <1>5, <1>6, <1>7

(* A list whose positions are those of s in another order. *)
Rearranged(s, t) ==
    /\ t \in Seq(Nodes) /\ Len(t) = Len(s)
    /\ Distinct(t)
    /\ Members(t) = Members(s)

LEMMA UpRearranges ==
    ASSUME NEW s \in Seq(Nodes), NEW i \in 1 .. Len(s), NEW j \in 1 .. i, Distinct(s)
    PROVE  Rearranged(s, MovedUp(s, i, j))
<1> DEFINE t == MovedUp(s, i, j)
<1>1. Len(s) \in Nat /\ i \in Nat /\ j \in Nat
  OBVIOUS
<1>2. /\ t \in Seq(Nodes) /\ Len(t) = Len(s)
      /\ \A k \in 1 .. Len(s) :
           t[k] = IF k < j \/ k > i THEN s[k] ELSE IF k = j THEN s[i] ELSE s[k - 1]
  BY MovedUpAt
<1> HIDE DEF t
<1> DEFINE From(k) == IF k < j \/ k > i THEN k ELSE IF k = j THEN i ELSE k - 1
           To(k) == IF k < j \/ k > i THEN k ELSE IF k = i THEN j ELSE k + 1
<1>3. ASSUME NEW k \in 1 .. Len(s) PROVE From(k) \in 1 .. Len(s) /\ t[k] = s[From(k)]
  BY <1>1, <1>2
<1>4. ASSUME NEW k \in 1 .. Len(s), NEW m \in 1 .. Len(s), From(k) = From(m) PROVE k = m
  BY <1>1, <1>4
<1>5. ASSUME NEW k \in 1 .. Len(s) PROVE To(k) \in 1 .. Len(s) /\ From(To(k)) = k
  BY <1>1
<1> HIDE DEF From, To
<1>6. ASSUME NEW k \in 1 .. Len(s), NEW m \in 1 .. Len(s), t[k] = t[m] PROVE k = m
  <2>1. /\ From(k) \in 1 .. Len(s) /\ t[k] = s[From(k)]
        /\ From(m) \in 1 .. Len(s) /\ t[m] = s[From(m)]
    BY <1>3
  <2>2. From(k) = From(m)
    BY <1>6, <2>1 DEF Distinct
  <2> QED
    BY <1>4, <2>2
<1>7. Distinct(t)
  BY <1>2, <1>6 DEF Distinct
<1>8. \A k \in 1 .. Len(s) : \E m \in 1 .. Len(s) : t[m] = s[k]
  BY <1>3, <1>5
<1>9. \A k \in 1 .. Len(s) : \E m \in 1 .. Len(s) : t[k] = s[m]
  BY <1>3
<1>10. Members(t) = Members(s)
  <2>1. Members(t) = {t[k] : k \in 1 .. Len(s)} /\ Members(s) = {s[k] : k \in 1 .. Len(s)}
    BY <1>2 DEF Members
  <2>2. \A x \in Members(t) : x \in Members(s)
    BY <1>9, <2>1
  <2>3. \A x \in Members(s) : x \in Members(t)
    BY <1>8, <2>1
  <2> QED
    BY <2>2, <2>3
<1> QED
  BY <1>2, <1>7, <1>10 DEF Rearranged, t

LEMMA DownRearranges ==
    ASSUME NEW s \in Seq(Nodes), NEW i \in 1 .. Len(s), NEW j \in i .. Len(s), Distinct(s)
    PROVE  Rearranged(s, MovedDown(s, i, j))
<1> DEFINE t == MovedDown(s, i, j)
<1>1. Len(s) \in Nat /\ i \in Nat /\ j \in Nat
  OBVIOUS
<1>2. /\ t \in Seq(Nodes) /\ Len(t) = Len(s)
      /\ \A k \in 1 .. Len(s) :
           t[k] = IF k < i \/ k > j THEN s[k] ELSE IF k = j THEN s[i] ELSE s[k + 1]
  BY MovedDownAt
<1> HIDE DEF t
<1> DEFINE From(k) == IF k < i \/ k > j THEN k ELSE IF k = j THEN i ELSE k + 1
           To(k) == IF k < i \/ k > j THEN k ELSE IF k = i THEN j ELSE k - 1
<1>3. ASSUME NEW k \in 1 .. Len(s) PROVE From(k) \in 1 .. Len(s) /\ t[k] = s[From(k)]
  BY <1>1, <1>2
<1>4. ASSUME NEW k \in 1 .. Len(s), NEW m \in 1 .. Len(s), From(k) = From(m) PROVE k = m
  BY <1>1, <1>4
<1>5. ASSUME NEW k \in 1 .. Len(s) PROVE To(k) \in 1 .. Len(s) /\ From(To(k)) = k
  BY <1>1
<1> HIDE DEF From, To
<1>6. ASSUME NEW k \in 1 .. Len(s), NEW m \in 1 .. Len(s), t[k] = t[m] PROVE k = m
  <2>1. /\ From(k) \in 1 .. Len(s) /\ t[k] = s[From(k)]
        /\ From(m) \in 1 .. Len(s) /\ t[m] = s[From(m)]
    BY <1>3
  <2>2. From(k) = From(m)
    BY <1>6, <2>1 DEF Distinct
  <2> QED
    BY <1>4, <2>2
<1>7. Distinct(t)
  BY <1>2, <1>6 DEF Distinct
<1>8. \A k \in 1 .. Len(s) : \E m \in 1 .. Len(s) : t[m] = s[k]
  BY <1>3, <1>5
<1>9. \A k \in 1 .. Len(s) : \E m \in 1 .. Len(s) : t[k] = s[m]
  BY <1>3
<1>10. Members(t) = Members(s)
  <2>1. Members(t) = {t[k] : k \in 1 .. Len(s)} /\ Members(s) = {s[k] : k \in 1 .. Len(s)}
    BY <1>2 DEF Members
  <2>2. \A x \in Members(t) : x \in Members(s)
    BY <1>9, <2>1
  <2>3. \A x \in Members(s) : x \in Members(t)
    BY <1>8, <2>1
  <2> QED
    BY <2>2, <2>3
<1> QED
  BY <1>2, <1>7, <1>10 DEF Rearranged, t

LEMMA PositionAt ==
    ASSUME NEW s \in Seq(Nodes), NEW n \in Members(s)
    PROVE  PositionOf(s, n) \in 1 .. Len(s) /\ s[PositionOf(s, n)] = n
<1>1. DOMAIN s = 1 .. Len(s) /\ \E i \in 1 .. Len(s) : s[i] = n
  BY DEF Members
<1> QED
  BY <1>1 DEF PositionOf

(* _increment_count keeps the list sorted by the counts after it. *)
LEMMA RaiseSorts ==
    ASSUME NEW s \in Seq(Nodes), NEW c \in [Nodes -> Nat], NEW n \in Members(s),
           Distinct(s), Decreasing(s, c)
    PROVE  /\ Rearranged(s, RaisedOrder(s, c, n))
           /\ Decreasing(RaisedOrder(s, c, n), [c EXCEPT ![n] = @ + 1])
<1> DEFINE i == PositionOf(s, n)
           e == [c EXCEPT ![n] = @ + 1]
<1>1. i \in 1 .. Len(s) /\ s[i] = n /\ n \in Nodes
  BY PositionAt
<1> HIDE DEF i
<1>2. Len(s) \in Nat /\ i \in Nat /\ \A k \in 1 .. Len(s) : s[k] \in Nodes /\ c[s[k]] \in Nat
  BY <1>1
<1>3. \A k \in 1 .. Len(s) : e[s[k]] = IF k = i THEN c[s[k]] + 1 ELSE c[s[k]]
  BY <1>1, <1>2 DEF Distinct
<1>4. \A k, m \in 1 .. Len(s) : k < m => c[s[k]] >= c[s[m]]
  BY DEF Decreasing
<1> HIDE DEF e
<1>7. e[s[i]] = c[n] + 1 /\ \A k \in 1 .. Len(s) : k # i => e[s[k]] = c[s[k]]
  BY <1>1, <1>3
<1>5. CASE i = 1 \/ c[s[i - 1]] > c[n] + 1
  <2>1. RaisedOrder(s, c, n) = s
    BY <1>5 DEF RaisedOrder, i
  <2>2. ASSUME NEW k \in 1 .. Len(s), NEW m \in 1 .. Len(s), k < m PROVE e[s[k]] >= e[s[m]]
    <3>1. CASE m # i
      BY <1>2, <1>3, <1>4, <2>2, <3>1
    <3>2. CASE m = i
      <4>1. i - 1 \in 1 .. Len(s) /\ (k = i - 1 \/ k < i - 1) /\ k # i /\ i # 1
        BY <1>2, <2>2, <3>2
      <4>2. c[s[k]] >= c[s[i - 1]] /\ c[s[i - 1]] > c[n] + 1
        BY <1>2, <1>4, <1>5, <4>1
      <4>3. e[s[k]] = c[s[k]] /\ e[s[m]] = c[n] + 1
        BY <1>7, <3>2, <4>1
      <4>4. c[s[k]] \in Nat /\ c[s[i - 1]] \in Nat /\ c[n] \in Nat
        BY <1>1, <1>2, <4>1
      <4>5. c[s[k]] >= c[n] + 1
        BY <4>2, <4>4
      <4> QED
        BY <4>3, <4>5
    <3> QED
      BY <3>1, <3>2
  <2> QED
    BY <2>1, <2>2 DEF Rearranged, Decreasing, e
<1>6. CASE ~(i = 1 \/ c[s[i - 1]] > c[n] + 1)
  <2> DEFINE p == i - 1
             j == GroupHead(s, c, p)
             t == MovedUp(s, i, j)
  <2>0. p \in 1 .. Len(s) /\ p < i /\ c[s[p]] \in {c[n], c[n] + 1}
    <3>1. i - 1 \in 1 .. Len(s) /\ i - 1 < i /\ ~(c[s[i - 1]] > c[s[i]] + 1)
      BY <1>1, <1>2, <1>6
    <3>2. c[s[i - 1]] >= c[s[i]] /\ c[s[i - 1]] \in Nat /\ c[s[i]] \in Nat
      BY <1>1, <1>2, <1>4, <3>1
    <3> QED
      BY <1>1, <3>1, <3>2
  <2>1. RaisedOrder(s, c, n) = t
    BY <1>6 DEF RaisedOrder, i
  <2> HIDE DEF p
  <2>2. j \in 1 .. p /\ c[s[j]] = c[s[p]] /\ \A k \in 1 .. j - 1 : c[s[k]] # c[s[p]]
    <3>1. p \in 1 .. Len(s)
      BY <2>0
    <3>2. /\ GroupHead(s, c, p) \in 1 .. p
          /\ c[s[GroupHead(s, c, p)]] = c[s[p]]
          /\ \A k \in 1 .. GroupHead(s, c, p) - 1 : c[s[k]] # c[s[p]]
      BY <3>1, GroupStarts
    <3> QED
      BY <3>2
  <2> HIDE DEF j
  <2>3. j \in 1 .. i /\ j < i /\ j \in Nat
    BY <1>2, <2>0, <2>2
  <2>4. /\ Len(t) = Len(s)
        /\ \A k \in 1 .. Len(s) :
             t[k] = IF k < j \/ k > i THEN s[k] ELSE IF k = j THEN s[i] ELSE s[k - 1]
    <3>1. i \in 1 .. Len(s) /\ j \in 1 .. i
      BY <1>1, <2>3
    <3>2. /\ MovedUp(s, i, j) \in Seq(Nodes)
          /\ Len(MovedUp(s, i, j)) = Len(s)
          /\ \A k \in 1 .. Len(s) : MovedUp(s, i, j)[k] =
               IF k < j \/ k > i THEN s[k] ELSE IF k = j THEN s[i] ELSE s[k - 1]
      BY <3>1, MovedUpAt
    <3> QED
      BY <3>2
  <2>5. Rearranged(s, t)
    BY <1>1, <2>3, UpRearranges
  <2> HIDE DEF t
  <2> DEFINE From(k) == IF k < j \/ k > i THEN k ELSE IF k = j THEN i ELSE k - 1
  <2>6. ASSUME NEW k \in 1 .. Len(s) PROVE From(k) \in 1 .. Len(s) /\ t[k] = s[From(k)]
    BY <1>1, <1>2, <2>3, <2>4
  <2>7. \A k \in 1 .. j - 1 : c[s[k]] >= c[n] + 1
    <3> SUFFICES ASSUME NEW k \in 1 .. j - 1 PROVE c[s[k]] >= c[n] + 1
      OBVIOUS
    <3>1. k \in 1 .. Len(s) /\ k < p /\ c[s[k]] # c[s[p]]
      BY <1>2, <2>0, <2>2
    <3>2. c[s[k]] >= c[s[p]]
      BY <1>4, <2>0, <3>1
    <3>3. /\ c[s[p]] \in {c[n], c[n] + 1}
          /\ c[n] \in Nat /\ c[s[p]] \in Nat /\ c[s[k]] \in Nat
      BY <1>1, <1>2, <2>0, <3>1
    <3> QED
      BY <3>1, <3>2, <3>3
  <2>8. \A k \in j .. Len(s) : c[s[k]] <= c[n] + 1
    <3> SUFFICES ASSUME NEW k \in j .. Len(s) PROVE c[s[k]] <= c[n] + 1
      OBVIOUS
    <3>1. k \in 1 .. Len(s) /\ j \in 1 .. Len(s) /\ (k = j \/ j < k)
      BY <1>2, <2>0, <2>2
    <3>2. c[s[j]] >= c[s[k]]
      BY <1>2, <1>4, <3>1
    <3>3. c[n] \in Nat /\ c[s[p]] \in Nat /\ c[s[k]] \in Nat /\ c[s[p]] >= c[s[k]]
      BY <1>1, <1>2, <2>0, <2>2, <3>1, <3>2
    <3>4. c[s[p]] <= c[n] + 1
      BY <2>0, <3>3
    <3> QED
      BY <3>3, <3>4
  <2>9. ASSUME NEW k \in 1 .. Len(s), NEW m \in 1 .. Len(s), k < m PROVE e[t[k]] >= e[t[m]]
    <3>1. /\ t[k] = s[From(k)] /\ From(k) \in 1 .. Len(s)
          /\ t[m] = s[From(m)] /\ From(m) \in 1 .. Len(s)
      BY <2>6
    <3>2. CASE k = j
      <4>1. From(k) = i /\ From(m) # i /\ From(m) \in j .. Len(s)
        BY <1>2, <2>3, <2>9, <3>2
      <4> HIDE DEF From
      <4>2. e[t[k]] = c[n] + 1 /\ e[t[m]] = c[s[From(m)]]
        <5>1. e[s[From(m)]] = c[s[From(m)]]
          BY <1>7, <3>1, <4>1
        <5>2. e[s[From(k)]] = c[n] + 1
          BY <1>7, <4>1
        <5> QED
          BY <3>1, <5>1, <5>2
      <4>3. c[n] + 1 >= c[s[From(m)]]
        <5>1. c[s[From(m)]] <= c[n] + 1 /\ c[n] \in Nat /\ c[s[From(m)]] \in Nat
          BY <1>1, <1>2, <2>8, <3>1, <4>1
        <5> QED
          BY <5>1
      <4> QED
        BY <4>2, <4>3
    <3>3. CASE m = j
      <4>1. From(m) = i /\ From(k) # i /\ From(k) \in 1 .. j - 1
        BY <1>2, <2>3, <2>9, <3>3
      <4> HIDE DEF From
      <4>2. e[t[m]] = c[n] + 1 /\ e[t[k]] = c[s[From(k)]]
        <5>1. e[s[From(k)]] = c[s[From(k)]]
          BY <1>7, <3>1, <4>1
        <5>2. e[s[From(m)]] = c[n] + 1
          BY <1>7, <4>1
        <5> QED
          BY <3>1, <5>1, <5>2
      <4> QED
        BY <2>7, <4>1, <4>2
    <3>4. CASE k # j /\ m # j
      <4>1. From(k) # i /\ From(m) # i /\ From(k) < From(m)
        BY <1>2, <2>3, <2>9, <3>4
      <4> HIDE DEF From
      <4>2. e[s[From(k)]] = c[s[From(k)]] /\ e[s[From(m)]] = c[s[From(m)]]
        BY <1>7, <3>1, <4>1
      <4> QED
        BY <1>4, <3>1, <4>1, <4>2
    <3> QED
      BY <3>2, <3>3, <3>4
  <2> QED
    BY <2>1, <2>4, <2>5, <2>9 DEF Decreasing, e
<1> QED
  BY <1>5, <1>6

(* _decrement_count does too. *)
LEMMA LowerSorts ==
    ASSUME NEW s \in Seq(Nodes), NEW c \in [Nodes -> Nat], NEW n \in Members(s),
           Distinct(s), Decreasing(s, c), c[n] > 0
    PROVE  /\ Rearranged(s, LoweredOrder(s, c, n))
           /\ Decreasing(LoweredOrder(s, c, n), [c EXCEPT ![n] = @ - 1])
<1> DEFINE i == PositionOf(s, n)
           e == [c EXCEPT ![n] = @ - 1]
<1>1. i \in 1 .. Len(s) /\ s[i] = n /\ n \in Nodes
  BY PositionAt
<1> HIDE DEF i
<1>2. Len(s) \in Nat /\ i \in Nat /\ \A k \in 1 .. Len(s) : s[k] \in Nodes /\ c[s[k]] \in Nat
  BY <1>1
<1>3. \A k \in 1 .. Len(s) : e[s[k]] = IF k = i THEN c[s[k]] - 1 ELSE c[s[k]]
  BY <1>1, <1>2 DEF Distinct
<1>4. \A k, m \in 1 .. Len(s) : k < m => c[s[k]] >= c[s[m]]
  BY DEF Decreasing
<1> HIDE DEF e
<1>5. e[s[i]] = c[n] - 1 /\ \A k \in 1 .. Len(s) : k # i => e[s[k]] = c[s[k]]
  BY <1>1, <1>3
<1> DEFINE q == i
           j == GroupTail(s, c, q)
           t == MovedDown(s, i, j)
<1>6. LoweredOrder(s, c, n) = t
  BY DEF LoweredOrder, i
<1>0. q \in 1 .. Len(s) /\ q = i
  BY <1>1
<1> HIDE DEF q
<1>7. j \in i .. Len(s) /\ c[s[j]] = c[s[i]] /\ \A k \in j + 1 .. Len(s) : c[s[k]] # c[s[i]]
  <2>1. q \in 1 .. Len(s)
    BY <1>0
  <2>2. /\ GroupTail(s, c, q) \in q .. Len(s)
        /\ c[s[GroupTail(s, c, q)]] = c[s[q]]
        /\ \A k \in GroupTail(s, c, q) + 1 .. Len(s) : c[s[k]] # c[s[q]]
    BY <2>1, GroupEnds
  <2> QED
    BY <1>0, <2>2
<1> HIDE DEF j
<1>8. j \in Nat /\ j \in 1 .. Len(s) /\ i <= j
  BY <1>1, <1>2, <1>7
<1>9. /\ Len(t) = Len(s)
      /\ \A k \in 1 .. Len(s) :
           t[k] = IF k < i \/ k > j THEN s[k] ELSE IF k = j THEN s[i] ELSE s[k + 1]
  <2>1. i \in 1 .. Len(s) /\ j \in i .. Len(s)
    BY <1>1, <1>7
  <2>2. /\ MovedDown(s, i, j) \in Seq(Nodes)
        /\ Len(MovedDown(s, i, j)) = Len(s)
        /\ \A k \in 1 .. Len(s) : MovedDown(s, i, j)[k] =
             IF k < i \/ k > j THEN s[k] ELSE IF k = j THEN s[i] ELSE s[k + 1]
    BY <2>1, MovedDownAt
  <2> QED
    BY <2>2
<1>10. Rearranged(s, t)
  BY <1>1, <1>7, DownRearranges
<1> HIDE DEF t
<1> DEFINE From(k) == IF k < i \/ k > j THEN k ELSE IF k = j THEN i ELSE k + 1
<1>11. ASSUME NEW k \in 1 .. Len(s) PROVE From(k) \in 1 .. Len(s) /\ t[k] = s[From(k)]
  BY <1>1, <1>2, <1>8, <1>9
<1>12. \A k \in 1 .. j : c[s[k]] >= c[n] - 1
  <2> SUFFICES ASSUME NEW k \in 1 .. j PROVE c[s[k]] >= c[n] - 1
    OBVIOUS
  <2>1. k \in 1 .. Len(s) /\ (k = j \/ k < j)
    BY <1>2, <1>8
  <2>2. c[n] \in Nat /\ c[s[j]] = c[n] /\ c[s[k]] \in Nat
    BY <1>1, <1>2, <1>7, <2>1
  <2>3. c[s[k]] >= c[n]
    BY <1>4, <1>8, <2>1, <2>2
  <2> QED
    BY <2>2, <2>3
<1>13. \A k \in j + 1 .. Len(s) : c[s[k]] <= c[n] - 1
  <2> SUFFICES ASSUME NEW k \in j + 1 .. Len(s) PROVE c[s[k]] <= c[n] - 1
    OBVIOUS
  <2>1. k \in 1 .. Len(s) /\ j < k /\ c[s[k]] # c[n]
    BY <1>1, <1>2, <1>7, <1>8
  <2>2. c[n] \in Nat /\ c[s[j]] = c[n] /\ c[s[k]] \in Nat
    BY <1>1, <1>2, <1>7, <2>1
  <2>3. c[n] >= c[s[k]]
    BY <1>4, <1>8, <2>1, <2>2
  <2> QED
    BY <2>1, <2>2, <2>3
<1>14. ASSUME NEW k \in 1 .. Len(s), NEW m \in 1 .. Len(s), k < m PROVE e[t[k]] >= e[t[m]]
  <2>1. /\ t[k] = s[From(k)] /\ From(k) \in 1 .. Len(s)
        /\ t[m] = s[From(m)] /\ From(m) \in 1 .. Len(s)
    BY <1>11
  <2>2. CASE k = j
    <3>1. From(k) = i /\ From(m) # i /\ From(m) \in j + 1 .. Len(s)
      BY <1>2, <1>8, <1>14, <2>2
    <3> HIDE DEF From
    <3>2. e[t[k]] = c[n] - 1 /\ e[t[m]] = c[s[From(m)]]
      BY <1>5, <2>1, <3>1
    <3>3. c[s[From(m)]] <= c[n] - 1 /\ c[n] \in Nat /\ c[s[From(m)]] \in Nat
      BY <1>1, <1>2, <1>13, <2>1, <3>1
    <3> QED
      BY <3>2, <3>3
  <2>3. CASE m = j
    <3>1. From(m) = i /\ From(k) # i /\ From(k) \in 1 .. j
      BY <1>2, <1>8, <1>14, <2>3
    <3> HIDE DEF From
    <3>2. e[t[m]] = c[n] - 1 /\ e[t[k]] = c[s[From(k)]]
      BY <1>5, <2>1, <3>1
    <3> QED
      BY <1>12, <3>1, <3>2
  <2>4. CASE k # j /\ m # j
    <3>1. From(k) # i /\ From(m) # i /\ From(k) < From(m)
      BY <1>2, <1>8, <1>14, <2>4
    <3> HIDE DEF From
    <3>2. e[s[From(k)]] = c[s[From(k)]] /\ e[s[From(m)]] = c[s[From(m)]]
      BY <1>5, <2>1, <3>1
    <3> QED
      BY <1>4, <2>1, <3>1, <3>2
  <2> QED
    BY <2>2, <2>3, <2>4
<1> QED
  BY <1>6, <1>9, <1>10, <1>14 DEF Decreasing, e

(* _remove_from_siblings and _replace_in_siblings keep the order. *)
LEMMA RemoveSorts ==
    ASSUME NEW s \in Seq(Nodes), NEW c \in [Nodes -> Nat], NEW n \in Members(s),
           Distinct(s), Decreasing(s, c)
    PROVE  /\ WithoutNode(s, n) \in Seq(Nodes)
           /\ Distinct(WithoutNode(s, n))
           /\ Members(WithoutNode(s, n)) = Members(s) \ {n}
           /\ Decreasing(WithoutNode(s, n), [c EXCEPT ![n] = 0])
<1> DEFINE t == WithoutNode(s, n)
           e == [c EXCEPT ![n] = 0]
<1>1. t \in Seq(Nodes) /\ Len(t) = Len(s) - 1
  BY WithoutAt
<1>2. PICK i \in 1 .. Len(s) : s[i] = n /\ \A k \in 1 .. Len(s) - 1 :
                                 t[k] = IF k < i THEN s[k] ELSE s[k + 1]
  BY WithoutAt
<1> HIDE DEF t
<1>3. Len(s) \in Nat /\ i \in Nat /\ n \in Nodes /\ \A k \in 1 .. Len(s) : s[k] \in Nodes
  BY <1>2
<1> DEFINE From(k) == IF k < i THEN k ELSE k + 1
           To(k) == IF k < i THEN k ELSE k - 1
<1>4. ASSUME NEW k \in 1 .. Len(s) - 1
      PROVE  From(k) \in 1 .. Len(s) /\ From(k) # i /\ t[k] = s[From(k)]
  BY <1>2, <1>3
<1>5. ASSUME NEW k \in 1 .. Len(s) - 1, NEW m \in 1 .. Len(s) - 1, k < m
      PROVE  From(k) < From(m)
  BY <1>3, <1>5
<1>6. ASSUME NEW k \in 1 .. Len(s), k # i
      PROVE  To(k) \in 1 .. Len(s) - 1 /\ From(To(k)) = k
  BY <1>3, <1>6
<1> HIDE DEF From, To
<1>7. ASSUME NEW k \in 1 .. Len(t), NEW m \in 1 .. Len(t), k < m
      PROVE  t[k] # t[m] /\ e[t[k]] >= e[t[m]]
  <2>1. /\ t[k] = s[From(k)] /\ From(k) \in 1 .. Len(s) /\ From(k) # i
        /\ t[m] = s[From(m)] /\ From(m) \in 1 .. Len(s) /\ From(m) # i
        /\ From(k) < From(m)
    BY <1>1, <1>4, <1>5, <1>7
  <2>2. t[k] # t[m] /\ t[k] # n /\ t[m] # n
    <3>1. s[From(k)] # s[From(m)]
      <4>1. From(k) # From(m)
        BY <2>1
      <4> QED
        BY <2>1, <4>1 DEF Distinct
    <3>2. s[From(k)] # s[i] /\ s[From(m)] # s[i]
      BY <2>1 DEF Distinct
    <3> QED
      BY <1>2, <2>1, <3>1, <3>2
  <2>3. c[t[k]] >= c[t[m]] /\ t[k] \in Nodes /\ t[m] \in Nodes
    BY <1>3, <2>1 DEF Decreasing
  <2> QED
    BY <2>2, <2>3
<1>8. \A k \in 1 .. Len(t) : t[k] \in Members(s) /\ t[k] # n
  <2> SUFFICES ASSUME NEW k \in 1 .. Len(t) PROVE t[k] \in Members(s) /\ t[k] # n
    OBVIOUS
  <2>1. From(k) \in 1 .. Len(s) /\ From(k) # i /\ t[k] = s[From(k)]
    BY <1>1, <1>4
  <2> QED
    BY <1>2, <2>1 DEF Members, Distinct
<1>9. \A k \in 1 .. Len(s) : s[k] # n => s[k] \in Members(t)
  <2> SUFFICES ASSUME NEW k \in 1 .. Len(s), s[k] # n PROVE s[k] \in Members(t)
    OBVIOUS
  <2>1. To(k) \in 1 .. Len(s) - 1 /\ From(To(k)) = k
    BY <1>2, <1>6
  <2>2. t[To(k)] = s[k]
    BY <1>4, <2>1
  <2> QED
    BY <1>1, <2>1, <2>2 DEF Members
<1>10. Members(t) = Members(s) \ {n}
  <2>1. \A x \in Members(t) : x \in Members(s) \ {n}
    BY <1>8 DEF Members
  <2>2. \A x \in Members(s) \ {n} : x \in Members(t)
    BY <1>9 DEF Members
  <2> QED
    BY <2>1, <2>2
<1>11. Distinct(t)
  <2> SUFFICES ASSUME NEW k \in 1 .. Len(t), NEW m \in 1 .. Len(t), k # m PROVE t[k] # t[m]
    BY DEF Distinct
  <2>1. k < m \/ m < k
    OBVIOUS
  <2> QED
    BY <1>7, <2>1
<1>12. Decreasing(t, e)
  BY <1>7 DEF Decreasing
<1> QED
  BY <1>1, <1>10, <1>11, <1>12 DEF t, e

LEMMA ReplaceSorts ==
    ASSUME NEW s \in Seq(Nodes), NEW c \in [Nodes -> Nat], NEW n \in Members(s),
           NEW new \in Nodes, new \notin Members(s), Distinct(s), Decreasing(s, c)
    PROVE  /\ Replaced(s, n, new) \in Seq(Nodes)
           /\ Distinct(Replaced(s, n, new))
           /\ Members(Replaced(s, n, new)) = (Members(s) \ {n}) \union {new}
           /\ Decreasing(Replaced(s, n, new), [c EXCEPT ![new] = c[n], ![n] = 0])
<1> DEFINE t == Replaced(s, n, new)
           e == [c EXCEPT ![new] = c[n], ![n] = 0]
<1>1. Len(s) \in Nat /\ DOMAIN s = 1 .. Len(s) /\ \A k \in 1 .. Len(s) : s[k] \in Nodes
  OBVIOUS
<1>2. PICK i \in 1 .. Len(s) : s[i] = n
  BY DEF Members
<1>3. \A k \in 1 .. Len(s) : (s[k] = n <=> k = i) /\ s[k] # new
  BY <1>2 DEF Distinct, Members
<1>4. t = [k \in 1 .. Len(s) |-> IF k = i THEN new ELSE s[k]]
  BY <1>1, <1>3 DEF Replaced
<1>5. t \in Seq(Nodes) /\ Len(t) = Len(s)
  BY <1>1, <1>4
<1>6. \A k \in 1 .. Len(s) : t[k] = IF k = i THEN new ELSE s[k]
  BY <1>4
<1>7. n \in Nodes /\ n # new
  BY <1>1, <1>2, <1>3
<1>8. \A k \in 1 .. Len(s) : e[t[k]] = c[s[k]]
  BY <1>1, <1>2, <1>3, <1>6, <1>7
<1> HIDE DEF t, e
<1>9. Distinct(t)
  BY <1>1, <1>3, <1>5, <1>6 DEF Distinct
<1>10. Decreasing(t, e)
  BY <1>5, <1>8 DEF Decreasing
<1>11. Members(t) = (Members(s) \ {n}) \union {new}
  <2>1. \A x \in Members(t) : x \in (Members(s) \ {n}) \union {new}
    BY <1>3, <1>5, <1>6 DEF Members
  <2>2. new \in Members(t)
    BY <1>5, <1>6 DEF Members
  <2>3. \A x \in Members(s) \ {n} : x \in Members(t)
    BY <1>2, <1>5, <1>6 DEF Members
  <2> QED
    BY <2>1, <2>2, <2>3
<1> QED
  BY <1>5, <1>9, <1>10, <1>11 DEF t, e

-----------------------------------------------------------------------------
LEMMA StepHolds == ASSUME MaxCount \in Nat PROVE IInv /\ [Next]_vars => IInv'
<1> SUFFICES ASSUME IInv, [Next]_vars PROVE IInv'
  OBVIOUS
<1>0. /\ order \in Seq(Nodes) /\ count \in [Nodes -> Nat] /\ Distinct(order)
      /\ Decreasing(order, count) /\ Listed = Members(order)
      /\ \A n \in Nodes : n \in Members(order) <=> count[n] > 0
  BY DEF IInv, TypeOK, ListsTheChildren, StaySorted, Listed, Members
<1>1. ASSUME order' \in Seq(Nodes), count' \in [Nodes -> Nat], Distinct(order'),
             Decreasing(order', count'),
             \A m \in Nodes : m \in Members(order') <=> count'[m] > 0
      PROVE  IInv'
  <2>1. Listed' = Members(order')
    BY <1>1 DEF Listed, Members
  <2> QED
    BY <1>1, <2>1 DEF IInv, TypeOK, ListsTheChildren, StaySorted
<1>2. ASSUME NEW n \in Nodes, NEW c \in 1 .. MaxCount, AddFirst(n, c) PROVE IInv'
  <2>1. /\ order = <<>> /\ order' = <<n>> /\ count' = [count EXCEPT ![n] = c] /\ c > 0 /\ c \in Nat
    BY <1>2 DEF AddFirst
  <2>2. Members(order) = {} /\ Members(order') = {n}
    BY <2>1 DEF Members
  <2>3. order' \in Seq(Nodes) /\ Distinct(order') /\ Decreasing(order', count')
    BY <2>1 DEF Distinct, Decreasing
  <2>4. \A m \in Nodes : m \in Members(order') <=> count'[m] > 0
    BY <1>0, <2>1, <2>2
  <2> QED
    BY <1>0, <1>1, <2>1, <2>3, <2>4
<1>3. ASSUME NEW n \in Nodes, AddLast(n) PROVE IInv'
  <2>1. n \notin Members(order) /\ order' = Append(order, n) /\ count' = [count EXCEPT ![n] = 1]
    BY <1>0, <1>3 DEF AddLast
  <2>2. /\ order' \in Seq(Nodes) /\ Len(order') = Len(order) + 1 /\ Len(order) \in Nat
        /\ \A k \in 1 .. Len(order') : order'[k] = IF k <= Len(order) THEN order[k] ELSE n
    BY <1>0, <2>1
  <2>3. \A k \in 1 .. Len(order) : order[k] # n /\ order[k] \in Nodes /\ count[order[k]] > 0
    BY <1>0, <2>1 DEF Members
  <2>4. Distinct(order')
    <3> SUFFICES ASSUME NEW k \in 1 .. Len(order'), NEW m \in 1 .. Len(order'),
                        order'[k] = order'[m]
                 PROVE  k = m
      BY DEF Distinct
    <3>1. CASE k \in 1 .. Len(order) /\ m \in 1 .. Len(order)
      <4>1. order[k] = order[m]
        BY <2>2, <3>1
      <4> QED
        BY <1>0, <3>1, <4>1 DEF Distinct
    <3>2. CASE ~(k \in 1 .. Len(order) /\ m \in 1 .. Len(order))
      BY <2>2, <2>3, <3>2
    <3> QED
      BY <3>1, <3>2
  <2>8. /\ \A k \in 1 .. Len(order) : count'[order'[k]] = count[order[k]] /\ count[order[k]] >= 1
        /\ count'[order'[Len(order) + 1]] = 1
    BY <1>0, <2>1, <2>2, <2>3
  <2>5. ASSUME NEW k \in 1 .. Len(order'), NEW m \in 1 .. Len(order'), k < m
        PROVE  count'[order'[k]] >= count'[order'[m]]
    <3>1. k \in 1 .. Len(order)
      BY <2>2, <2>5
    <3>2. CASE m \in 1 .. Len(order)
      <4>1. count[order[k]] >= count[order[m]]
        BY <1>0, <2>5, <3>1, <3>2 DEF Decreasing
      <4> QED
        BY <2>8, <3>1, <3>2, <4>1
    <3>3. CASE m = Len(order) + 1
      <4>1. count'[order'[m]] = 1
        BY <2>8, <3>3
      <4> QED
        BY <2>8, <3>1, <4>1
    <3> QED
      BY <2>2, <3>2, <3>3
  <2>9. Decreasing(order', count')
    BY <2>5 DEF Decreasing
  <2>6. \A m \in Nodes : m \in Members(order') <=> m \in Members(order) \/ m = n
    <3>1. order'[Len(order')] = n /\ Len(order') \in 1 .. Len(order')
      BY <2>2
    <3>2. \A k \in 1 .. Len(order) : k \in 1 .. Len(order') /\ order'[k] = order[k]
      BY <2>2
    <3> QED
      BY <2>2, <3>1, <3>2 DEF Members
  <2>7. \A m \in Nodes : m \in Members(order') <=> count'[m] > 0
    BY <1>0, <2>1, <2>6
  <2> QED
    BY <1>0, <1>1, <2>1, <2>2, <2>4, <2>7, <2>9
<1>4. ASSUME NEW n \in Nodes, Raise(n) PROVE IInv'
  <2>1. /\ n \in Members(order) /\ order' = RaisedOrder(order, count, n)
        /\ count' = [count EXCEPT ![n] = @ + 1]
    BY <1>0, <1>4 DEF Raise
  <2>2. Rearranged(order, order') /\ Decreasing(order', count')
    BY <1>0, <2>1, RaiseSorts
  <2>3. \A m \in Nodes : m \in Members(order') <=> count'[m] > 0
    BY <1>0, <2>1, <2>2 DEF Rearranged
  <2> QED
    BY <1>0, <1>1, <2>1, <2>2, <2>3 DEF Rearranged
<1>5. ASSUME NEW n \in Nodes, Lower(n) PROVE IInv'
  <2>1. /\ n \in Members(order) /\ order' = LoweredOrder(order, count, n)
        /\ count' = [count EXCEPT ![n] = @ - 1] /\ count[n] > 1
    BY <1>0, <1>5 DEF Lower
  <2>2. Rearranged(order, order') /\ Decreasing(order', count')
    <3>1. count[n] > 0
      BY <1>0, <2>1
    <3> QED
      BY <1>0, <2>1, <3>1, LowerSorts
  <2>3. \A m \in Nodes : m \in Members(order') <=> count'[m] > 0
    BY <1>0, <2>1, <2>2 DEF Rearranged
  <2>4. count' \in [Nodes -> Nat]
    BY <1>0, <2>1
  <2> QED
    BY <1>1, <2>2, <2>3, <2>4 DEF Rearranged
<1>6. ASSUME NEW n \in Nodes, Remove(n) PROVE IInv'
  <2>1. /\ n \in Members(order) /\ order' = WithoutNode(order, n)
        /\ count' = [count EXCEPT ![n] = 0]
    BY <1>0, <1>6 DEF Remove
  <2>2. /\ order' \in Seq(Nodes) /\ Distinct(order') /\ Decreasing(order', count')
        /\ Members(order') = Members(order) \ {n}
    BY <1>0, <2>1, RemoveSorts
  <2>3. \A m \in Nodes : m \in Members(order') <=> count'[m] > 0
    BY <1>0, <2>1, <2>2
  <2> QED
    BY <1>0, <1>1, <2>1, <2>2, <2>3
<1>7. ASSUME NEW n \in Nodes, NEW m \in Nodes, Replace(n, m) PROVE IInv'
  <2>1. /\ n \in Members(order) /\ m \notin Members(order) /\ order' = Replaced(order, n, m)
        /\ count' = [count EXCEPT ![m] = count[n], ![n] = 0]
    BY <1>0, <1>7 DEF Replace
  <2>2. /\ order' \in Seq(Nodes) /\ Distinct(order') /\ Decreasing(order', count')
        /\ Members(order') = (Members(order) \ {n}) \union {m}
    <3>1. /\ order \in Seq(Nodes) /\ count \in [Nodes -> Nat] /\ Distinct(order)
          /\ Decreasing(order, count) /\ n \in Members(order) /\ m \notin Members(order)
      BY <1>0, <2>1
    <3>2. /\ Replaced(order, n, m) \in Seq(Nodes)
          /\ Distinct(Replaced(order, n, m))
          /\ Members(Replaced(order, n, m)) = (Members(order) \ {n}) \union {m}
          /\ Decreasing(Replaced(order, n, m), [count EXCEPT ![m] = count[n], ![n] = 0])
      BY <3>1, ReplaceSorts
    <3> QED
      BY <2>1, <3>2
  <2>3. \A x \in Nodes : x \in Members(order') <=> count'[x] > 0
    BY <1>0, <2>1, <2>2
  <2> QED
    BY <1>0, <1>1, <2>1, <2>2, <2>3
<1>8. CASE UNCHANGED vars
  BY <1>8 DEF vars, IInv, TypeOK, ListsTheChildren, StaySorted, Listed
<1> QED
  BY <1>2, <1>3, <1>4, <1>5, <1>6, <1>7, <1>8 DEF Next

(* _insert_into_siblings_*, _increment_count, _decrement_count,            *)
(* _remove_from_siblings and _replace_in_siblings, for any number of       *)
(* children and any counts: after every call the list holds each child     *)
(* once, in order of decreasing count, so that head_child, the child that  *)
(* _speculate_path follows, is one of the most frequent.                   *)
THEOREM ChildrenStaySorted ==
    ASSUME MaxCount \in Nat
    PROVE  Spec => [](ListsTheChildren /\ StaySorted)
<1>1. Init => IInv
  <2> SUFFICES ASSUME Init PROVE IInv
    OBVIOUS
  <2>1. order = <<>> /\ order \in Seq(Nodes) /\ Len(order) = 0 /\ Listed = {}
    BY DEF Init, Listed
  <2>2. count \in [Nodes -> Nat] /\ \A n \in Nodes : count[n] = 0
    BY DEF Init
  <2> QED
    BY <2>1, <2>2 DEF IInv, TypeOK, ListsTheChildren, StaySorted, Distinct, Decreasing
<1>2. IInv => ListsTheChildren /\ StaySorted
  BY DEF IInv
<1> QED
  BY <1>1, <1>2, StepHolds, PTL DEF Spec

=============================================================================
