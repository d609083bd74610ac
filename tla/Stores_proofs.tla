--------------------------- MODULE Stores_proofs ----------------------------
(***************************************************************************)
(* Theorems about what is kept: the log of the spider, in memory, on disk  *)
(* and in its window, and the channels in the objects storage.             *)
(*                                                                         *)
(* The log: for every number of months and of records, every device a line *)
(* may have and every order in which months pass, writes fail and the      *)
(* program ends.  The objects storage: for every number of channels of     *)
(* each trunk group, every client and every limit of its counters; and the *)
(* generator that measures it, whatever of their messages is lost.         *)
(***************************************************************************)
EXTENDS MCLog, MCObjectsStorage, FiniteSetTheorems, SequenceTheorems,
        WellFoundedInduction, TLAPS

-----------------------------------------------------------------------------
(***************************************************************************)
(* Numbers and sequences                                                   *)
(***************************************************************************)

\* A set of numbers has a least one: the library's theorem on minimal elements
\* needs no operator as a parameter.
LEMMA Least ==
  ASSUME NEW S, S \subseteq Nat, S # {}
  PROVE  \E x \in S : \A y \in S : x <= y
<1> DEFINE R == OpToRel(<, Nat)
<1>1. IsWellFoundedOn(R, Nat)
  BY NatLessThanWellFounded
<1>2. \A x, y \in Nat : x < y => <<x, y>> \in R
  BY DEF OpToRel
<1> HIDE DEF R
<1>3. PICK x \in S : \A y \in S : ~(<<y, x>> \in R)
  BY <1>1, WFMin
<1>4. \A y \in S : x <= y
  <2>1. ASSUME NEW y \in S PROVE x <= y
    <3>1. x \in Nat /\ y \in Nat
      OBVIOUS
    <3>2. ~(y < x)
      BY <1>2, <1>3, <3>1
    <3>3. QED
      BY <3>1, <3>2
  <2>2. QED
    BY <2>1
<1>5. QED
  BY <1>4

\* Induction, for sets.
LEMMA UpTo ==
  ASSUME NEW n \in Nat, NEW S, 0 \in S,
         \A k \in 0 .. n - 1 : k \in S => k + 1 \in S
  PROVE  0 .. n \subseteq S
<1> DEFINE T == {k \in Nat : k \in 0 .. n /\ k \notin S}
<1>1. SUFFICES ASSUME T # {} PROVE FALSE
  OBVIOUS
<1>2. T \subseteq Nat
  OBVIOUS
<1> HIDE DEF T
<1>3. PICK x \in T : \A y \in T : x <= y
  BY <1>1, <1>2, Least
<1>4. x \in Nat /\ x # 0 /\ x \in 0 .. n /\ x \notin S
  BY <1>3 DEF T
<1>5. x - 1 \in Nat /\ ~(x <= x - 1) /\ x - 1 \in 0 .. n - 1 /\ (x - 1) + 1 = x
  BY <1>4
<1>6. x - 1 \notin T
  BY <1>3, <1>5
<1>7. x - 1 \in S
  BY <1>5, <1>6 DEF T
<1>8. QED
  BY <1>4, <1>5, <1>7

\* The elements of a sequence over S.
LEMMA SetOf ==
  ASSUME NEW S, NEW s \in Seq(S)
  PROVE  /\ ToSet(s) = {s[i] : i \in 1 .. Len(s)}
         /\ ToSet(s) \subseteq S
         /\ ToSet(s) = {} <=> s = <<>>
<1>1. DOMAIN s = 1 .. Len(s) /\ Len(s) \in Nat /\ \A i \in 1 .. Len(s) : s[i] \in S
  BY ElementOfSeq, LenProperties
<1>2. ToSet(s) = {s[i] : i \in 1 .. Len(s)}
  BY <1>1 DEF ToSet
<1>3. ToSet(s) \subseteq S
  BY <1>1, <1>2
<1>4. ASSUME s # <<>> PROVE ToSet(s) # {}
  <2>1. 1 \in 1 .. Len(s)
    BY <1>1, <1>4, EmptySeq
  <2>2. QED
    BY <1>2, <2>1
<1>5. ToSet(<<>>) = {}
  BY DEF ToSet
<1>6. QED
  BY <1>2, <1>3, <1>4, <1>5

\* ... of one and another,
LEMMA SetOfConcat ==
  ASSUME NEW S, NEW s \in Seq(S), NEW t \in Seq(S)
  PROVE  s \o t \in Seq(S) /\ ToSet(s \o t) = ToSet(s) \cup ToSet(t)
<1>1. /\ s \o t \in Seq(S) /\ Len(s) \in Nat /\ Len(t) \in Nat
      /\ Len(s \o t) = Len(s) + Len(t)
      /\ \A i \in 1 .. Len(s) + Len(t) :
           (s \o t)[i] = IF i <= Len(s) THEN s[i] ELSE t[i - Len(s)]
  BY ConcatProperties, LenProperties
<1>2. ToSet(s \o t) = {(s \o t)[i] : i \in 1 .. Len(s) + Len(t)}
  <2> DEFINE u == s \o t
  <2>1. u \in Seq(S) /\ Len(u) = Len(s) + Len(t)
    BY <1>1
  <2> HIDE DEF u
  <2>2. ToSet(u) = {u[i] : i \in 1 .. Len(u)}
    BY <2>1, SetOf
  <2>3. ToSet(u) = {u[i] : i \in 1 .. Len(s) + Len(t)}
    BY <2>1, <2>2
  <2>4. QED
    BY <2>3 DEF u
<1>3. ASSUME NEW e \in ToSet(s \o t) PROVE e \in ToSet(s) \cup ToSet(t)
  <2>1. PICK i \in 1 .. Len(s) + Len(t) : e = (s \o t)[i]
    BY <1>2
  <2>2. CASE i <= Len(s)
    BY <1>1, <2>1, <2>2, SetOf
  <2>3. CASE ~(i <= Len(s))
    <3>1. i - Len(s) \in 1 .. Len(t)
      BY <1>1, <2>3
    <3>2. QED
      BY <1>1, <2>1, <2>3, <3>1, SetOf
  <2>4. QED
    BY <2>2, <2>3
<1>4. ASSUME NEW e \in ToSet(s) PROVE e \in ToSet(s \o t)
  <2>1. PICK i \in 1 .. Len(s) : e = s[i]
    BY SetOf
  <2>2. i \in 1 .. Len(s) + Len(t) /\ i <= Len(s)
    BY <1>1
  <2>3. (s \o t)[i] = e
    BY <1>1, <2>1, <2>2
  <2>4. QED
    BY <1>2, <2>2, <2>3
<1>5. ASSUME NEW e \in ToSet(t) PROVE e \in ToSet(s \o t)
  <2>1. PICK i \in 1 .. Len(t) : e = t[i]
    BY SetOf
  <2>2. i + Len(s) \in 1 .. Len(s) + Len(t) /\ ~(i + Len(s) <= Len(s))
        /\ (i + Len(s)) - Len(s) = i
    BY <1>1
  <2>3. (s \o t)[i + Len(s)] = e
    BY <1>1, <2>1, <2>2
  <2>4. QED
    BY <1>2, <2>2, <2>3
<1>6. QED
  BY <1>1, <1>3, <1>4, <1>5

\* ... and of one with another element at its end.
LEMMA SetOfAppend ==
  ASSUME NEW S, NEW s \in Seq(S), NEW e \in S
  PROVE  Append(s, e) \in Seq(S) /\ ToSet(Append(s, e)) = ToSet(s) \cup {e}
<1>1. Append(s, e) = s \o <<e>> /\ Append(s, e) \in Seq(S) /\ <<e>> \in Seq(S)
  BY AppendIsConcat, AppendProperties
<1>2. ToSet(<<e>>) = {e}
  BY DEF ToSet
<1> DEFINE u == <<e>>
<1> HIDE DEF u
<1>3. u \in Seq(S) /\ Append(s, e) = s \o u
  BY <1>1 DEF u
<1>4. ToSet(s \o u) = ToSet(s) \cup ToSet(u)
  BY <1>3, SetOfConcat
<1>5. QED
  BY <1>1, <1>2, <1>3, <1>4 DEF u

\* The elements of a sequence are finitely many.
LEMMA SetOfFinite ==
  ASSUME NEW S, NEW s \in Seq(S)
  PROVE  IsFiniteSet(ToSet(s))
<1>1. Len(s) \in Nat /\ s \in [1 .. Len(s) -> S] /\ DOMAIN s = 1 .. Len(s)
  BY LenProperties
<1>2. IsFiniteSet(1 .. Len(s))
  BY <1>1, FS_Interval
<1>3. ToSet(s) = {s[i] : i \in 1 .. Len(s)}
  BY SetOf
<1>4. s \in Surjection(1 .. Len(s), ToSet(s))
  BY <1>1, <1>3 DEF Surjection
<1>5. QED
  BY <1>2, <1>4, FS_Surjection

\* A sequence of the elements of s, each once, has the elements of s.
LEMMA SetOfPermutation ==
  ASSUME NEW S, NEW s \in Seq(S), NEW t \in SetToSeqs(ToSet(s))
  PROVE  t \in Seq(S) /\ ToSet(t) = ToSet(s)
<1> DEFINE E == ToSet(s)
           n == Cardinality(E)
<1>1. IsFiniteSet(E) /\ E \subseteq S
  BY SetOfFinite, SetOf
<1>2. n \in Nat
  BY <1>1, FS_CardinalityType
<1>3. t \in [1 .. n -> E] /\ \A i, j \in 1 .. n : i # j => t[i] # t[j]
  BY DEF SetToSeqs
<1> HIDE DEF E, n
<1>4. t \in Injection(1 .. n, E)
  BY <1>3 DEF Injection, IsInjective
<1>5. Cardinality(1 .. n) = n /\ IsFiniteSet(1 .. n)
  <2>1. Cardinality(1 .. n) = IF 1 > n THEN 0 ELSE n - 1 + 1
    BY <1>2, FS_Interval
  <2>2. QED
    BY <1>2, <2>1, FS_Interval
<1>6. t \in Surjection(1 .. n, E)
  BY <1>1, <1>4, <1>5, FS_Injection DEF n
<1>7. t \in Seq(S) /\ Len(t) = n
  BY <1>1, <1>2, <1>3
<1>8. ToSet(t) = {t[i] : i \in 1 .. n}
  BY <1>7, SetOf
<1>9. ToSet(t) = E
  BY <1>3, <1>6, <1>8 DEF Surjection
<1>10. QED
  BY <1>7, <1>9 DEF E

-----------------------------------------------------------------------------
(***************************************************************************)
(* What recursive functions are: that one exists and what it computes are  *)
(* inductions over its argument.                                           *)
(***************************************************************************)

\* The step of OfKinds.
Chosen(t, kinds, i, s) == IF t[i].kind \in kinds THEN Append(s, t[i]) ELSE s

\* The function that OfKinds defines, on the first n positions.
ChoosesUpto(f, t, kinds, n) ==
  f = [i \in 0 .. n |-> IF i = 0 THEN <<>> ELSE Chosen(t, kinds, i, f[i - 1])]

\* There is one for every n.
LEMMA ChoosesExists ==
  ASSUME NEW t, NEW kinds, NEW n \in Nat
  PROVE  \E f : ChoosesUpto(f, t, kinds, n)
<1> DEFINE Good == {m \in 0 .. n : \E f : ChoosesUpto(f, t, kinds, m)}
<1>1. 0 \in Good
  <2>1. ChoosesUpto([i \in 0 .. 0 |-> <<>>], t, kinds, 0)
    <3>1. \A i \in 0 .. 0 : i = 0
      OBVIOUS
    <3>2. QED
      BY <3>1 DEF ChoosesUpto
  <2>2. 0 \in 0 .. n
    OBVIOUS
  <2>3. QED
    BY <2>1, <2>2
<1>2. ASSUME NEW k \in 0 .. n - 1, k \in Good PROVE k + 1 \in Good
  <2>1. PICK f : ChoosesUpto(f, t, kinds, k)
    BY <1>2
  <2> DEFINE g == [i \in 0 .. k + 1 |-> IF i \in 0 .. k THEN f[i]
                                       ELSE Chosen(t, kinds, k + 1, f[k])]
  <2>2. \A i \in 0 .. k : f[i] = IF i = 0 THEN <<>> ELSE Chosen(t, kinds, i, f[i - 1])
    BY <2>1 DEF ChoosesUpto
  <2>3. \A i \in 0 .. k + 1 : i \in 0 .. k \/ i = k + 1
    OBVIOUS
  <2>4. \A i \in 0 .. k + 1 : i # 0 => i - 1 \in 0 .. k /\ i - 1 \in 0 .. k + 1
    OBVIOUS
  <2>5. k + 1 # 0 /\ k + 1 \notin 0 .. k /\ (k + 1) - 1 = k /\ k + 1 \in 0 .. n
    OBVIOUS
  <2>6. \A i \in 0 .. k + 1 :
          g[i] = IF i = 0 THEN <<>> ELSE Chosen(t, kinds, i, g[i - 1])
    <3>1. TAKE i \in 0 .. k + 1
    <3>2. CASE i = 0
      BY <2>2, <3>2
    <3>3. CASE i # 0 /\ i \in 0 .. k
      BY <2>2, <2>4, <3>3
    <3>4. CASE i = k + 1
      BY <2>4, <2>5, <3>4
    <3>5. QED
      BY <2>3, <3>2, <3>3, <3>4
  <2>7. g = [i \in 0 .. k + 1 |-> g[i]]
    OBVIOUS
  <2> HIDE DEF g
  <2>8. ChoosesUpto(g, t, kinds, k + 1)
    BY <2>6, <2>7 DEF ChoosesUpto
  <2>9. QED
    BY <2>5, <2>8
<1> HIDE DEF Good
<1>3. 0 .. n \subseteq Good
  BY <1>1, <1>2, UpTo
<1>4. n \in 0 .. n
  OBVIOUS
<1>5. QED
  BY <1>3, <1>4 DEF Good

\* stable_partition loses no record and adds none.
LEMMA OfKindsHas ==
  ASSUME NEW S, NEW t \in Seq(S), NEW kinds
  PROVE  /\ OfKinds(t, kinds) \in Seq(S)
         /\ ToSet(OfKinds(t, kinds)) = {r \in ToSet(t) : r.kind \in kinds}
<1> DEFINE n == Len(t)
           f == CHOOSE g : ChoosesUpto(g, t, kinds, n)
           Upto(m) == {i \in 1 .. m : t[i].kind \in kinds}
<1>1. n \in Nat /\ \A i \in 1 .. n : t[i] \in S
  BY LenProperties, ElementOfSeq
<1>2. ChoosesUpto(f, t, kinds, n)
  BY <1>1, ChoosesExists
<1>3. OfKinds(t, kinds) = f[n]
  BY DEF OfKinds, ChoosesUpto, Chosen
<1> HIDE DEF f, n
<1>4. \A i \in 0 .. n : f[i] = IF i = 0 THEN <<>> ELSE Chosen(t, kinds, i, f[i - 1])
  BY <1>2 DEF ChoosesUpto
<1> DEFINE Good == {m \in 0 .. n : f[m] \in Seq(S) /\ ToSet(f[m]) = {t[i] : i \in Upto(m)}}
<1>5. 0 \in Good
  <2>1. f[0] = <<>> /\ 0 \in 0 .. n /\ Upto(0) = {}
    BY <1>1, <1>4
  <2>2. ToSet(<<>>) = {} /\ <<>> \in Seq(S)
    BY EmptySeq DEF ToSet
  <2>3. QED
    BY <2>1, <2>2
<1>6. ASSUME NEW k \in 0 .. n - 1, k \in Good PROVE k + 1 \in Good
  <2>1. /\ k + 1 \in 0 .. n /\ k + 1 \in 1 .. n /\ (k + 1) - 1 = k /\ k + 1 # 0
    BY <1>1
  <2>2. f[k + 1] = Chosen(t, kinds, k + 1, f[k])
    BY <1>4, <2>1
  <2>3. 1 .. k + 1 = (1 .. k) \cup {k + 1}
    OBVIOUS
  <2>4. f[k] \in Seq(S) /\ ToSet(f[k]) = {t[i] : i \in Upto(k)} /\ t[k + 1] \in S
    BY <1>1, <1>6, <2>1
  <2>5. CASE t[k + 1].kind \in kinds
    <3>1. Upto(k + 1) = Upto(k) \cup {k + 1}
      BY <2>3, <2>5
    <3>2. f[k + 1] \in Seq(S) /\ ToSet(f[k + 1]) = ToSet(f[k]) \cup {t[k + 1]}
      BY <2>2, <2>4, <2>5, SetOfAppend DEF Chosen
    <3>3. QED
      BY <2>1, <2>4, <3>1, <3>2
  <2>6. CASE t[k + 1].kind \notin kinds
    <3>1. Upto(k + 1) = Upto(k)
      BY <2>3, <2>6
    <3>2. QED
      BY <2>1, <2>2, <2>4, <2>6, <3>1 DEF Chosen
  <2>7. QED
    BY <2>5, <2>6
<1> HIDE DEF Good
<1>7. 0 .. n \subseteq Good
  BY <1>1, <1>5, <1>6, UpTo
<1>8. n \in 0 .. n
  BY <1>1
<1>9. f[n] \in Seq(S) /\ ToSet(f[n]) = {t[i] : i \in Upto(n)}
  BY <1>7, <1>8 DEF Good
<1>10. ToSet(t) = {t[i] : i \in 1 .. n}
  BY SetOf DEF n
<1>11. QED
  BY <1>3, <1>9, <1>10

\* The same for FlattenSeq.
JoinsUpto(f, q, n) == f = [i \in 1 .. n |-> IF i = 1 THEN q[i] ELSE f[i - 1] \o q[i]]

\* There is such a function for every n.
LEMMA JoinsExists ==
  ASSUME NEW q, NEW n \in Nat
  PROVE  \E f : JoinsUpto(f, q, n)
<1> DEFINE Good == {m \in 0 .. n : \E f : JoinsUpto(f, q, m)}
<1>1. 0 \in Good
  <2>1. 1 .. 0 = {} /\ 0 \in 0 .. n
    OBVIOUS
  <2>2. JoinsUpto([i \in 1 .. 0 |-> <<>>], q, 0)
    BY <2>1 DEF JoinsUpto
  <2>3. QED
    BY <2>1, <2>2
<1>2. ASSUME NEW k \in 0 .. n - 1, k \in Good PROVE k + 1 \in Good
  <2>1. PICK f : JoinsUpto(f, q, k)
    BY <1>2
  <2> DEFINE g == [i \in 1 .. k + 1 |-> IF i \in 1 .. k THEN f[i]
                                       ELSE IF i = 1 THEN q[i] ELSE f[k] \o q[i]]
  <2>2. \A i \in 1 .. k : f[i] = IF i = 1 THEN q[i] ELSE f[i - 1] \o q[i]
    BY <2>1 DEF JoinsUpto
  <2>3. \A i \in 1 .. k + 1 : i \in 1 .. k \/ i = k + 1
    OBVIOUS
  <2>4. \A i \in 1 .. k + 1 : i # 1 => i - 1 \in 1 .. k /\ i - 1 \in 1 .. k + 1
    OBVIOUS
  <2>5. k + 1 \notin 1 .. k /\ (k + 1) - 1 = k /\ k + 1 \in 0 .. n
    OBVIOUS
  <2>6. \A i \in 1 .. k + 1 : g[i] = IF i = 1 THEN q[i] ELSE g[i - 1] \o q[i]
    <3>1. TAKE i \in 1 .. k + 1
    <3>2. CASE i \in 1 .. k
      BY <2>2, <2>4, <3>2
    <3>3. CASE i = k + 1
      BY <2>4, <2>5, <3>3
    <3>4. QED
      BY <2>3, <3>2, <3>3
  <2>7. g = [i \in 1 .. k + 1 |-> g[i]]
    OBVIOUS
  <2> HIDE DEF g
  <2>8. JoinsUpto(g, q, k + 1)
    BY <2>6, <2>7 DEF JoinsUpto
  <2>9. QED
    BY <2>5, <2>8
<1> HIDE DEF Good
<1>3. 0 .. n \subseteq Good
  BY <1>1, <1>2, UpTo
<1>4. n \in 0 .. n
  OBVIOUS
<1>5. QED
  BY <1>3, <1>4 DEF Good

\* Sequences over S one after the other are a sequence over S.
LEMMA FlattenedOver ==
  ASSUME NEW S, NEW q \in Seq(Seq(S))
  PROVE  FlattenSeq(q) \in Seq(S)
<1> DEFINE n == Len(q)
           f == CHOOSE g : JoinsUpto(g, q, n)
<1>1. n \in Nat /\ \A i \in 1 .. n : q[i] \in Seq(S)
  BY LenProperties, ElementOfSeq
<1>2. JoinsUpto(f, q, n)
  BY <1>1, JoinsExists
<1>3. CASE n = 0
  BY <1>3, EmptySeq DEF FlattenSeq
<1>4. CASE n # 0
  <2>1. FlattenSeq(q) = f[n]
    BY <1>4 DEF FlattenSeq, JoinsUpto
  <2> HIDE DEF f, n
  <2>2. \A i \in 1 .. n : f[i] = IF i = 1 THEN q[i] ELSE f[i - 1] \o q[i]
    BY <1>2 DEF JoinsUpto
  <2> DEFINE Good == {m \in 0 .. n : m # 0 => f[m] \in Seq(S)}
  <2>3. 0 \in Good
    BY <1>1
  <2>4. ASSUME NEW k \in 0 .. n - 1, k \in Good PROVE k + 1 \in Good
    <3>1. k + 1 \in 0 .. n /\ k + 1 \in 1 .. n /\ (k + 1) - 1 = k /\ (k + 1 = 1 <=> k = 0)
      BY <1>1
    <3>2. f[k + 1] \in Seq(S)
      <4>1. f[k + 1] = IF k + 1 = 1 THEN q[k + 1] ELSE f[k] \o q[k + 1]
        BY <2>2, <3>1
      <4>2. CASE k = 0
        BY <1>1, <3>1, <4>1, <4>2
      <4>3. CASE k # 0
        <5>1. f[k] \in Seq(S) /\ q[k + 1] \in Seq(S)
          BY <1>1, <2>4, <3>1, <4>3
        <5>2. QED
          BY <3>1, <4>1, <4>3, <5>1, ConcatProperties
      <4>4. QED
        BY <4>2, <4>3
    <3>3. QED
      BY <3>1, <3>2
  <2> HIDE DEF Good
  <2>5. 0 .. n \subseteq Good
    BY <1>1, <2>3, <2>4, UpTo
  <2>6. n \in 0 .. n
    BY <1>1
  <2>7. QED
    BY <1>4, <2>1, <2>5, <2>6 DEF Good
<1>5. QED
  BY <1>3, <1>4

-----------------------------------------------------------------------------
(***************************************************************************)
(* The windows of the log                                                  *)
(***************************************************************************)
Drafts == [on : BOOLEAN, all_stations : BOOLEAN, all_devices : BOOLEAN,
           stations : SUBSET StationList, rows : Seq(AllDevices), selected : SUBSET Nat]

\* What the dialog lists is of the stations that are chosen in it, and there is
\* no draft without a dialog.
DraftOfDialog ==
  /\ dialog => draft.rows = Rows(draft.stations)
  /\ ~dialog => draft = NoDraft
  /\ draft.selected \subseteq DOMAIN draft.rows

WindowTypes ==
  /\ alive \in BOOLEAN /\ window \in BOOLEAN /\ dialog \in BOOLEAN
  /\ filter_window \in {"null", "set"} /\ filtration_state_indicator \in BOOLEAN
  /\ settings \in Settings /\ draft \in Drafts /\ through \subseteq AllDevices
  /\ report \in [file : {"none", "part", "whole"}, told : SUBSET {"error", "built"}]
  /\ seen \in [left : BOOLEAN, refused : BOOLEAN, turned : BOOLEAN]

WindowInv ==
  /\ WindowTypes /\ DraftOfDialog
  /\ dialog => window
  /\ DialogKnown /\ ShownByFilter /\ IndicatorTrue /\ ReportTold

\* The stations' rows are devices.
LEMMA RowsAreDevices ==
  ASSUME NEW ss
  PROVE  Rows(ss) \in Seq(AllDevices)
<1> DEFINE q == [s \in StationList |-> IF s \in ss THEN DevicesOf[s] ELSE <<>>]
<1>1. DevicesOf \in Seq(Seq(AllDevices))
  BY DevicesAssumption
<1>2. /\ StationList = 1 .. Len(DevicesOf) /\ Len(DevicesOf) \in Nat
      /\ \A s \in StationList : DevicesOf[s] \in Seq(AllDevices)
  BY <1>1, LenProperties, ElementOfSeq DEF StationList
<1>3. <<>> \in Seq(AllDevices)
  BY EmptySeq
<1>4. q \in [1 .. Len(DevicesOf) -> Seq(AllDevices)]
  BY <1>2, <1>3
<1>5. q \in Seq(Seq(AllDevices))
  BY <1>2, <1>4
<1>6. QED
  BY <1>5, FlattenedOver DEF Rows

\* ... and rows are indexed by numbers.
LEMMA RowsIndexed ==
  ASSUME NEW ss
  PROVE  /\ DOMAIN Rows(ss) \subseteq Nat
         /\ \A i \in DOMAIN Rows(ss) : Rows(ss)[i] \in AllDevices
         /\ ToSet(Rows(ss)) \subseteq AllDevices
<1>1. Rows(ss) \in Seq(AllDevices)
  BY RowsAreDevices
<1>2. DOMAIN Rows(ss) = 1 .. Len(Rows(ss)) /\ Len(Rows(ss)) \in Nat
  BY <1>1, LenProperties
<1>3. \A i \in 1 .. Len(Rows(ss)) : Rows(ss)[i] \in AllDevices
  BY <1>1, ElementOfSeq
<1>4. ToSet(Rows(ss)) \subseteq AllDevices
  BY <1>1, SetOf
<1>5. QED
  BY <1>2, <1>3, <1>4

\* A filter passes devices.
LEMMA PassesDevices == \A f : Passes(f) \subseteq AllDevices
  BY RowsIndexed DEF Passes

\* What a dialog without a draft has is a draft.
LEMMA NoDraftIsDraft == NoDraft \in Drafts /\ NoDraft.rows = <<>> /\ NoDraft.selected = {}
<1>1. <<>> \in Seq(AllDevices)
  BY EmptySeq
<1>2. QED
  BY <1>1 DEF NoDraft, Drafts

\* A draft prepared for other stations is a draft.
LEMMA PreparedIsDraft ==
  ASSUME NEW d, NEW ss \in SUBSET StationList,
         d.on \in BOOLEAN, d.all_stations \in BOOLEAN, d.all_devices \in BOOLEAN,
         d = [on |-> d.on, all_stations |-> d.all_stations, all_devices |-> d.all_devices,
              stations |-> d.stations, rows |-> d.rows, selected |-> d.selected]
  PROVE  /\ Prepared(d, ss) \in Drafts
         /\ Prepared(d, ss).rows = Rows(ss) /\ Prepared(d, ss).stations = ss
         /\ Prepared(d, ss).selected \subseteq DOMAIN Prepared(d, ss).rows
<1> DEFINE rows == Rows(ss)
           selected == Preselected(rows)
           p == [on |-> d.on, all_stations |-> d.all_stations, all_devices |-> d.all_devices,
                 stations |-> ss, rows |-> rows, selected |-> selected]
<1>1. rows \in Seq(AllDevices) /\ DOMAIN rows \subseteq Nat
  BY RowsAreDevices, RowsIndexed
<1>2. selected \subseteq DOMAIN rows
  BY DEF Preselected
<1>3. Prepared(d, ss) = [d EXCEPT !.stations = ss, !.rows = rows, !.selected = selected]
  BY DEF Prepared
<1>4. selected \in SUBSET Nat
  BY <1>1, <1>2
<1> HIDE DEF rows, selected
<1>5. Prepared(d, ss) = p
  BY <1>3
<1>6. p \in Drafts
  BY <1>1, <1>4, Zenon DEF Drafts
<1>7. p.rows = rows /\ p.stations = ss /\ p.selected = selected
  OBVIOUS
<1>8. QED
  BY <1>2, <1>5, <1>6, <1>7 DEF rows

\* The state the program starts in.
LEMMA WindowInvInit == LogWindowInit => WindowInv
<1> SUFFICES ASSUME LogWindowInit PROVE WindowInv
  OBVIOUS
<1> USE DEF LogWindowInit
<1>1. settings \in Settings /\ through \subseteq AllDevices
  BY DEF Settings
<1>2. draft \in Drafts /\ draft.selected = {}
  BY NoDraftIsDraft
<1>3. Passes(settings) = AllDevices
  BY DEF Passes
<1>4. WindowTypes
  BY <1>1, <1>2 DEF WindowTypes, NoReport
<1>5. QED
  BY <1>1, <1>2, <1>3, <1>4 DEF WindowInv, DraftOfDialog, DialogKnown, ShownByFilter,
     IndicatorTrue, ReportTold, NoReport

\* Opening a log's window, and not choosing an archive.
LEMMA WindowInvOpens ==
  ASSUME WindowInv, ButtonMainLog \/ ArchiveNotChosen \/ \E loaded \in BOOLEAN : ButtonArchiveLog(loaded)
  PROVE  WindowInv'
<1> USE DEF WindowInv, WindowTypes
<1>1. /\ dialog' = FALSE /\ draft' = NoDraft /\ report' = NoReport
      /\ alive' = alive /\ filter_window' = filter_window
  BY DEF ButtonMainLog, ArchiveNotChosen, ButtonArchiveLog, Reopens
<1>2. draft' \in Drafts /\ DraftOfDialog'
  BY <1>1, NoDraftIsDraft DEF DraftOfDialog
<1>3. ReportTold' /\ report' \in [file : {"none", "part", "whole"}, told : SUBSET {"error", "built"}]
  BY <1>1 DEF ReportTold, NoReport
<1>4. CASE ButtonMainLog
  <2>1. seen' = [seen EXCEPT !.left = LeftBy, !.turned = FALSE]
    BY <1>4 DEF ButtonMainLog
  <2>2. LeftBy \in BOOLEAN
    BY DEF LeftBy
  <2>3. /\ seen' \in [left : BOOLEAN, refused : BOOLEAN, turned : BOOLEAN]
        /\ seen'.left = LeftBy /\ seen'.refused = seen.refused /\ ~seen'.turned
    BY <2>1, <2>2
  <2>4. /\ settings' = settings /\ through' = through /\ window' = TRUE
        /\ filtration_state_indicator' = settings.on /\ settings.on \in BOOLEAN
    BY <1>4 DEF ButtonMainLog, Settings
  <2>5. DialogKnown'
    BY <1>1, <2>3 DEF DialogKnown, LeftBy
  <2>6. ShownByFilter'
    BY <2>3, <2>4 DEF ShownByFilter, Passes
  <2>7. IndicatorTrue'
    BY <2>4 DEF IndicatorTrue
  <2>8. QED
    BY <1>1, <1>2, <1>3, <2>3, <2>4, <2>5, <2>6, <2>7
<1>5. CASE ArchiveNotChosen
  <2>1. seen' = [seen EXCEPT !.left = LeftBy, !.turned = FALSE]
    BY <1>5 DEF ArchiveNotChosen
  <2>2. LeftBy \in BOOLEAN
    BY DEF LeftBy
  <2>3. /\ seen' \in [left : BOOLEAN, refused : BOOLEAN, turned : BOOLEAN]
        /\ seen'.left = LeftBy /\ seen'.refused = seen.refused /\ ~seen'.turned
    BY <2>1, <2>2
  <2>4. /\ settings' = settings /\ through' = through /\ window' = FALSE
        /\ filtration_state_indicator' = FALSE
    BY <1>5 DEF ArchiveNotChosen
  <2>5. DialogKnown'
    BY <1>1, <2>3 DEF DialogKnown, LeftBy
  <2>6. ShownByFilter'
    BY <2>3, <2>4 DEF ShownByFilter, Passes
  <2>7. IndicatorTrue'
    BY <2>4 DEF IndicatorTrue
  <2>8. QED
    BY <1>1, <1>2, <1>3, <2>3, <2>4, <2>5, <2>6, <2>7
<1>6. CASE \E loaded \in BOOLEAN : ButtonArchiveLog(loaded)
  <2>0. PICK loaded \in BOOLEAN : ButtonArchiveLog(loaded)
    BY <1>6
  <2>1. seen' = [seen EXCEPT !.left = LeftBy, !.refused = FALSE]
    BY <2>0 DEF ButtonArchiveLog
  <2>2. LeftBy \in BOOLEAN
    BY DEF LeftBy
  <2>3. /\ seen' \in [left : BOOLEAN, refused : BOOLEAN, turned : BOOLEAN]
        /\ seen'.left = LeftBy
    BY <2>1, <2>2
  <2>4. /\ settings' = [settings EXCEPT !.on = FALSE] /\ through' = AllDevices
        /\ window' = loaded /\ filtration_state_indicator' = FALSE
    BY <2>0 DEF ButtonArchiveLog
  <2>5. settings' \in Settings /\ ~settings'.on
    BY <2>4 DEF Settings
  <2>6. DialogKnown'
    BY <1>1, <2>3 DEF DialogKnown, LeftBy
  <2>7. ShownByFilter'
    BY <2>4, <2>5 DEF ShownByFilter, Passes
  <2>8. IndicatorTrue'
    BY <2>4, <2>5 DEF IndicatorTrue, Settings
  <2>9. QED
    BY <1>1, <1>2, <1>3, <2>3, <2>4, <2>5, <2>6, <2>7, <2>8
<1>7. QED
  BY <1>4, <1>5, <1>6

\* Closing it, the month's turn, and a report.
LEMMA WindowInvOthers ==
  ASSUME WindowInv, ButtonExit \/ MonthTurns \/ \E to \in {"usb", "directory"} : ButtonReport(to)
  PROVE  WindowInv'
<1> USE DEF WindowInv, WindowTypes
<1>1. CASE ButtonExit
  <2> USE <1>1 DEF ButtonExit
  <2>1. draft' \in Drafts /\ DraftOfDialog'
    BY NoDraftIsDraft DEF DraftOfDialog
  <2>2. ReportTold' /\ report' \in [file : {"none", "part", "whole"}, told : SUBSET {"error", "built"}]
    BY DEF ReportTold, NoReport
  <2>3. /\ seen' \in [left : BOOLEAN, refused : BOOLEAN, turned : BOOLEAN]
        /\ seen'.refused = seen.refused
    OBVIOUS
  <2>4. ShownByFilter'
    BY <2>3 DEF ShownByFilter, Passes
  <2>5. DialogKnown' /\ IndicatorTrue'
    BY DEF DialogKnown, IndicatorTrue
  <2>6. QED
    BY <2>1, <2>2, <2>3, <2>4, <2>5
<1>2. CASE MonthTurns
  <2> USE <1>2 DEF MonthTurns
  <2>1. DraftOfDialog'
    BY DEF DraftOfDialog
  <2>2. ReportTold' /\ report' \in [file : {"none", "part", "whole"}, told : SUBSET {"error", "built"}]
    BY DEF ReportTold, NoReport
  <2>3. /\ seen' \in [left : BOOLEAN, refused : BOOLEAN, turned : BOOLEAN]
        /\ seen'.left = seen.left /\ (seen'.turned <=> (seen.turned \/ window))
    OBVIOUS
  <2>4. settings' \in Settings /\ ~settings'.on
    BY DEF Settings
  <2>5. ShownByFilter'
    BY <2>4 DEF ShownByFilter, Passes
  <2>6. DialogKnown'
    BY <2>3 DEF DialogKnown
  <2>7. IndicatorTrue'
    BY <2>3 DEF IndicatorTrue
  <2>8. QED
    BY <2>1, <2>2, <2>3, <2>4, <2>5, <2>6, <2>7
<1>3. CASE \E to \in {"usb", "directory"} : ButtonReport(to)
  <2>1. PICK to \in {"usb", "directory"} : ButtonReport(to)
    BY <1>3
  <2>2. alive' \in BOOLEAN
    BY <2>1 DEF ButtonReport
  <2>3. PICK f \in {"none", "part", "whole"}, lines \in SUBSET {"error", "built"} :
          Told(f, lines) /\ ("error" \in lines \/ f = "whole")
    BY <2>1, Zenon DEF ButtonReport, MadePartly
  <2>4. report' \in [file : {"none", "part", "whole"}, told : SUBSET {"error", "built"}]
        /\ ReportTold'
    BY <2>3 DEF Told, ReportTold
  <2>5. UNCHANGED <<log, window, dialog, filter_window, settings, draft,
                    filtration_state_indicator, through, seen>>
    BY <2>1 DEF ButtonReport
  <2>6. DraftOfDialog' /\ DialogKnown' /\ ShownByFilter' /\ IndicatorTrue'
    BY <2>5 DEF DraftOfDialog, DialogKnown, ShownByFilter, IndicatorTrue, Passes
  <2>7. QED
    BY <2>2, <2>4, <2>5, <2>6
<1>4. QED
  BY <1>1, <1>2, <1>3

\* The dialog is made.
LEMMA WindowInvFilter ==
  ASSUME WindowInv, ButtonFilter
  PROVE  WindowInv'
<1> USE DEF WindowInv, WindowTypes
<1>1. UNCHANGED <<log, window, filtration_state_indicator, settings, through>>
      /\ window /\ report' = NoReport
  BY DEF ButtonFilter
<1>2. ReportTold' /\ report' \in [file : {"none", "part", "whole"}, told : SUBSET {"error", "built"}]
  BY <1>1 DEF ReportTold, NoReport
<1>3. CASE alive' = FALSE /\ UNCHANGED <<dialog, filter_window, draft, seen>>
  <2>1. DraftOfDialog' /\ DialogKnown' /\ ShownByFilter' /\ IndicatorTrue'
    BY <1>1, <1>3 DEF DraftOfDialog, DialogKnown, ShownByFilter, IndicatorTrue, Passes
  <2>2. QED
    BY <1>1, <1>2, <1>3, <2>1
<1>4. CASE /\ dialog' = TRUE /\ filter_window' = "set"
           /\ draft' = Prepared([on |-> settings.on, all_stations |-> settings.all_stations,
                              all_devices |-> settings.all_devices, stations |-> {},
                              rows |-> <<>>, selected |-> {}], settings.stations)
           /\ seen' = [seen EXCEPT !.left = FALSE]
           /\ UNCHANGED alive
  <2> DEFINE d == [on |-> settings.on, all_stations |-> settings.all_stations,
                   all_devices |-> settings.all_devices, stations |-> {},
                   rows |-> <<>>, selected |-> {}]
  <2>1. /\ settings.on \in BOOLEAN /\ settings.all_stations \in BOOLEAN
        /\ settings.all_devices \in BOOLEAN /\ settings.stations \in SUBSET StationList
    BY DEF Settings
  <2>2. /\ d.on \in BOOLEAN /\ d.all_stations \in BOOLEAN /\ d.all_devices \in BOOLEAN
        /\ d = [on |-> d.on, all_stations |-> d.all_stations, all_devices |-> d.all_devices,
                stations |-> d.stations, rows |-> d.rows, selected |-> d.selected]
    BY <2>1
  <2> HIDE DEF d
  <2>3. /\ Prepared(d, settings.stations) \in Drafts
        /\ Prepared(d, settings.stations).rows = Rows(settings.stations)
        /\ Prepared(d, settings.stations).stations = settings.stations
        /\ Prepared(d, settings.stations).selected
             \subseteq DOMAIN Prepared(d, settings.stations).rows
    BY <2>1, <2>2, PreparedIsDraft
  <2>4. draft' = Prepared(d, settings.stations)
    BY <1>4 DEF d
  <2>5. draft' \in Drafts /\ DraftOfDialog'
    BY <1>4, <2>3, <2>4 DEF DraftOfDialog
  <2>6. /\ seen' \in [left : BOOLEAN, refused : BOOLEAN, turned : BOOLEAN]
        /\ seen'.refused = seen.refused /\ seen'.turned = seen.turned
    BY <1>4
  <2>7. DialogKnown' /\ ShownByFilter' /\ IndicatorTrue'
    BY <1>1, <1>4, <2>6 DEF DialogKnown, ShownByFilter, IndicatorTrue, Passes
  <2>8. QED
    BY <1>1, <1>2, <1>4, <2>5, <2>6, <2>7
<1>5. QED
  BY <1>3, <1>4 DEF ButtonFilter

\* A choice in the dialog leaves everything else as it is.
LEMMA WindowInvDraft ==
  ASSUME WindowInv, NEW d \in Drafts, InDialog(d),
         d.rows = Rows(d.stations), d.selected \subseteq DOMAIN d.rows
  PROVE  WindowInv'
<1> USE DEF WindowInv, WindowTypes, InDialog
<1>1. ReportTold' /\ report' \in [file : {"none", "part", "whole"}, told : SUBSET {"error", "built"}]
  BY DEF ReportTold, NoReport
<1>2. DraftOfDialog'
  BY DEF DraftOfDialog
<1>3. DialogKnown' /\ ShownByFilter' /\ IndicatorTrue'
  BY DEF DialogKnown, ShownByFilter, IndicatorTrue, Passes
<1>4. QED
  BY <1>1, <1>2, <1>3

\* The toggles, the stations and the devices.
LEMMA WindowInvChoices ==
  ASSUME WindowInv,
         \/ ToggleOn \/ ToggleAllStations \/ ToggleAllDevices
         \/ \E ss \in SUBSET StationList : SelectionOnStations(ss)
         \/ \E rs \in SUBSET DOMAIN draft.rows : SelectionOnDevices(rs)
  PROVE  WindowInv'
<1>1. /\ draft \in Drafts /\ draft.selected \subseteq DOMAIN draft.rows
      /\ dialog => draft.rows = Rows(draft.stations)
  BY DEF WindowInv, WindowTypes, DraftOfDialog
<1>2. CASE ToggleOn
  <2> DEFINE d == [draft EXCEPT !.on = ~@]
  <2>1. InDialog(d) /\ dialog
    BY <1>2 DEF ToggleOn, InDialog
  <2>2. /\ d \in Drafts /\ d.rows = draft.rows /\ d.stations = draft.stations
        /\ d.selected = draft.selected
    BY <1>1 DEF Drafts
  <2> HIDE DEF d
  <2>3. QED
    BY <1>1, <2>1, <2>2, WindowInvDraft
<1>3. CASE ToggleAllStations
  <2> DEFINE d == [draft EXCEPT !.all_stations = ~@]
  <2>1. InDialog(d) /\ dialog
    BY <1>3 DEF ToggleAllStations, InDialog
  <2>2. /\ d \in Drafts /\ d.rows = draft.rows /\ d.stations = draft.stations
        /\ d.selected = draft.selected
    BY <1>1 DEF Drafts
  <2> HIDE DEF d
  <2>3. QED
    BY <1>1, <2>1, <2>2, WindowInvDraft
<1>4. CASE ToggleAllDevices
  <2> DEFINE d == [draft EXCEPT !.all_devices = ~@]
  <2>1. InDialog(d) /\ dialog
    BY <1>4 DEF ToggleAllDevices, InDialog
  <2>2. /\ d \in Drafts /\ d.rows = draft.rows /\ d.stations = draft.stations
        /\ d.selected = draft.selected
    BY <1>1 DEF Drafts
  <2> HIDE DEF d
  <2>3. QED
    BY <1>1, <2>1, <2>2, WindowInvDraft
<1>5. ASSUME NEW ss \in SUBSET StationList, SelectionOnStations(ss) PROVE WindowInv'
  <2> DEFINE d == Prepared(draft, ss)
  <2>1. InDialog(d)
    BY <1>5 DEF SelectionOnStations
  <2>2. /\ draft.on \in BOOLEAN /\ draft.all_stations \in BOOLEAN
        /\ draft.all_devices \in BOOLEAN
        /\ draft = [on |-> draft.on, all_stations |-> draft.all_stations,
                    all_devices |-> draft.all_devices, stations |-> draft.stations,
                    rows |-> draft.rows, selected |-> draft.selected]
    BY <1>1 DEF Drafts
  <2>3. d \in Drafts /\ d.rows = Rows(ss) /\ d.stations = ss /\ d.selected \subseteq DOMAIN d.rows
    BY <2>2, PreparedIsDraft
  <2> HIDE DEF d
  <2>4. QED
    BY <2>1, <2>3, WindowInvDraft
<1>6. ASSUME NEW rs \in SUBSET DOMAIN draft.rows, SelectionOnDevices(rs) PROVE WindowInv'
  <2> DEFINE d == [draft EXCEPT !.selected = rs]
  <2>1. InDialog(d) /\ dialog
    BY <1>6 DEF SelectionOnDevices, InDialog
  <2>2. DOMAIN draft.rows \subseteq Nat
    BY <1>1, <2>1, RowsIndexed
  <2>3. /\ d \in Drafts /\ d.rows = draft.rows /\ d.stations = draft.stations
        /\ d.selected = rs
    <3>1. rs \in SUBSET Nat
      BY <2>2
    <3>2. QED
      BY <1>1, <3>1 DEF Drafts
  <2> HIDE DEF d
  <2>4. QED
    BY <1>1, <2>1, <2>3, WindowInvDraft
<1>7. QED
  BY <1>2, <1>3, <1>4, <1>5, <1>6

\* What OK takes from the dialog is settings.
LEMMA TakenIsSettings ==
  ASSUME WindowInv, dialog
  PROVE  /\ Taken \in Settings /\ Taken.on = draft.on
         /\ Taken.all_stations = draft.all_stations /\ Taken.all_devices = draft.all_devices
         /\ Taken.stations = draft.stations
         /\ Taken.devices = {draft.rows[i] : i \in draft.selected}
<1>1. /\ draft \in Drafts /\ draft.selected \subseteq DOMAIN draft.rows
      /\ draft.rows = Rows(draft.stations)
  BY DEF WindowInv, WindowTypes, DraftOfDialog
<1> DEFINE devices == {draft.rows[i] : i \in draft.selected}
<1>2. \A i \in DOMAIN draft.rows : draft.rows[i] \in AllDevices
  BY <1>1, RowsIndexed
<1>3. devices \in SUBSET AllDevices
  BY <1>1, <1>2
<1>4. /\ draft.on \in BOOLEAN /\ draft.all_stations \in BOOLEAN
      /\ draft.all_devices \in BOOLEAN /\ draft.stations \in SUBSET StationList
  BY <1>1 DEF Drafts
<1>5. Taken = [on |-> draft.on, all_stations |-> draft.all_stations,
               all_devices |-> draft.all_devices, stations |-> draft.stations,
               devices |-> devices]
  BY <1>1 DEF Taken, devices_ids
<1> HIDE DEF devices
<1>6. Taken \in Settings
  BY <1>3, <1>4, <1>5, Zenon DEF Settings
<1>7. QED
  BY <1>5, <1>6 DEF devices

\* OK and Cancel.
LEMMA WindowInvClosed ==
  ASSUME WindowInv, CancelInDialog \/ \E bad \in BOOLEAN : OkInDialog(bad)
  PROVE  WindowInv'
<1> USE DEF WindowInv, WindowTypes
<1>1. /\ dialog /\ dialog' = FALSE /\ draft' = NoDraft /\ report' = NoReport
      /\ UNCHANGED <<log, alive, window>>
  BY DEF CancelInDialog, OkInDialog
<1>2. draft' \in Drafts /\ DraftOfDialog'
  BY <1>1, NoDraftIsDraft DEF DraftOfDialog
<1>3. ReportTold' /\ report' \in [file : {"none", "part", "whole"}, told : SUBSET {"error", "built"}]
  BY <1>1 DEF ReportTold, NoReport
<1>4. CASE CancelInDialog
  <2>1. /\ filter_window' = "null"
        /\ UNCHANGED <<filtration_state_indicator, settings, through, seen>>
    BY <1>4 DEF CancelInDialog
  <2>2. DialogKnown' /\ ShownByFilter' /\ IndicatorTrue'
    BY <1>1, <2>1 DEF DialogKnown, ShownByFilter, IndicatorTrue, Passes
  <2>3. QED
    BY <1>1, <1>2, <1>3, <2>1, <2>2
<1>5. ASSUME NEW bad \in BOOLEAN, OkInDialog(bad) PROVE WindowInv'
  <2>1. settings' = Taken /\ filtration_state_indicator' = draft.on
    BY <1>5 DEF OkInDialog
  <2>2. settings' \in Settings /\ settings'.on = draft.on /\ draft.on \in BOOLEAN
    BY <1>1, <2>1, TakenIsSettings DEF Drafts
  <2>3. CASE Refuses(Taken) \/ (draft.on /\ bad)
    <3>1. /\ seen' = [seen EXCEPT !.left = TRUE, !.refused = TRUE, !.turned = FALSE]
          /\ UNCHANGED <<through, filter_window>>
      BY <1>5, <2>3 DEF OkInDialog
    <3>2. /\ seen' \in [left : BOOLEAN, refused : BOOLEAN, turned : BOOLEAN]
          /\ seen'.left /\ seen'.refused
      BY <3>1
    <3>3. DialogKnown' /\ ShownByFilter' /\ IndicatorTrue'
      BY <1>1, <2>1, <2>2, <3>2 DEF DialogKnown, ShownByFilter, IndicatorTrue
    <3>4. QED
      BY <1>1, <1>2, <1>3, <2>1, <2>2, <3>1, <3>2, <3>3
  <2>4. CASE ~(Refuses(Taken) \/ (draft.on /\ bad))
    <3>1. /\ seen' = [seen EXCEPT !.refused = FALSE, !.turned = FALSE]
          /\ through' = Passes(settings') /\ filter_window' = "null"
      BY <1>5, <2>4 DEF OkInDialog, Partition
    <3>2. seen' \in [left : BOOLEAN, refused : BOOLEAN, turned : BOOLEAN]
      BY <3>1
    <3>3. DialogKnown' /\ IndicatorTrue'
      BY <1>1, <2>1, <2>2, <3>1 DEF DialogKnown, IndicatorTrue
    <3>4. ShownByFilter'
      BY <3>1 DEF ShownByFilter, Passes
    <3>5. through' \subseteq AllDevices
      BY <3>1, PassesDevices
    <3>6. QED
      BY <1>1, <1>2, <1>3, <2>1, <2>2, <3>1, <3>2, <3>3, <3>4, <3>5
  <2>5. QED
    BY <2>3, <2>4
<1>6. QED
  BY <1>4, <1>5

\* Every step of the windows keeps the invariant.
LEMMA WindowInvStep ==
  ASSUME WindowInv, [LogWindowNext]_logwindow
  PROVE  WindowInv'
<1>1. CASE LogWindowNext
  BY <1>1, WindowInvOpens, WindowInvOthers, WindowInvFilter, WindowInvChoices,
     WindowInvClosed DEF LogWindowNext
<1>2. CASE UNCHANGED logwindow
  BY <1>2 DEF logwindow, WindowInv, WindowTypes, DraftOfDialog, DialogKnown,
     ShownByFilter, IndicatorTrue, ReportTold, Passes
<1>3. QED
  BY <1>1, <1>2

\* The invariant is what the runs check of the windows, and more.
LEMMA WindowInvSound == WindowInv => WindowSound
  BY DEF WindowInv, WindowTypes, WindowSound, DraftOfDialog

\* What OK accepts is what was chosen.
ShownAsChosen ==
  (window' /\ dialog /\ ~dialog' /\ settings' # settings /\ settings'.on
     /\ ~seen'.refused)
  => through' = IF draft.all_stations THEN AllDevices
                ELSE {draft.rows[i] : i \in IF draft.all_devices
                        THEN DOMAIN draft.rows ELSE draft.selected}

\* Only OK closes the dialog with other settings.
LEMMA OnlyOkSets ==
  ASSUME WindowInv, LogWindowNext, dialog, ~dialog', settings' # settings, settings'.on
  PROVE  \E bad \in BOOLEAN : OkInDialog(bad)
<1>1. ASSUME NEW loaded \in BOOLEAN, ButtonArchiveLog(loaded) PROVE FALSE
  <2>1. settings' = [settings EXCEPT !.on = FALSE]
    BY <1>1 DEF ButtonArchiveLog
  <2>2. ~settings'.on
    BY <2>1 DEF WindowInv, WindowTypes, Settings
  <2>3. QED
    BY <2>2
<1>2. ~ButtonMainLog /\ ~ArchiveNotChosen /\ ~ButtonExit /\ ~MonthTurns /\ ~ButtonFilter
  BY DEF ButtonMainLog, ArchiveNotChosen, ButtonExit, MonthTurns, ButtonFilter
<1>3. ~ToggleOn /\ ~ToggleAllStations /\ ~ToggleAllDevices /\ ~CancelInDialog
  BY DEF ToggleOn, ToggleAllStations, ToggleAllDevices, InDialog, CancelInDialog
<1>4. /\ \A ss \in SUBSET StationList : ~SelectionOnStations(ss)
      /\ \A rs \in SUBSET DOMAIN draft.rows : ~SelectionOnDevices(rs)
  BY DEF SelectionOnStations, SelectionOnDevices, InDialog
<1>5. \A to \in {"usb", "directory"} : ~ButtonReport(to)
  BY DEF ButtonReport
<1>6. QED
  BY <1>1, <1>2, <1>3, <1>4, <1>5 DEF LogWindowNext

\* One step of it.
LEMMA ShownAsChosenStep ==
  ASSUME WindowInv, [LogWindowNext]_logwindow
  PROVE  ShownAsChosen
<1> SUFFICES ASSUME window', dialog, ~dialog', settings' # settings, settings'.on,
                    ~seen'.refused
             PROVE  through' = IF draft.all_stations THEN AllDevices
                      ELSE {draft.rows[i] : i \in IF draft.all_devices
                              THEN DOMAIN draft.rows ELSE draft.selected}
  BY DEF ShownAsChosen
<1>1. LogWindowNext
  BY DEF logwindow
<1>2. PICK bad \in BOOLEAN : OkInDialog(bad)
  BY <1>1, OnlyOkSets
<1>3. settings' = Taken
  BY <1>2 DEF OkInDialog
<1>4. ~(Refuses(Taken) \/ (draft.on /\ bad))
  <2>1. SUFFICES ASSUME Refuses(Taken) \/ (draft.on /\ bad) PROVE FALSE
    OBVIOUS
  <2>2. seen' = [seen EXCEPT !.left = TRUE, !.refused = TRUE, !.turned = FALSE]
    BY <1>2, <2>1 DEF OkInDialog
  <2>3. seen'.refused
    BY <2>2 DEF WindowInv, WindowTypes
  <2>4. QED
    BY <2>3
<1>5. through' = Passes(Taken)
  BY <1>2, <1>3, <1>4 DEF OkInDialog, Partition
<1>6. /\ Taken.on /\ Taken.all_stations = draft.all_stations
      /\ Taken.all_devices = draft.all_devices /\ Taken.stations = draft.stations
      /\ Taken.devices = {draft.rows[i] : i \in draft.selected}
  BY <1>3, TakenIsSettings
<1>7. /\ draft.rows = Rows(draft.stations) /\ draft.selected \subseteq DOMAIN draft.rows
      /\ draft.all_stations \in BOOLEAN /\ draft.all_devices \in BOOLEAN
  BY DEF WindowInv, WindowTypes, DraftOfDialog, Drafts
<1>8. CASE draft.all_stations
  BY <1>5, <1>6, <1>8 DEF Passes
<1>9. CASE ~draft.all_stations
  <2>1. through' = {d \in ToSet(draft.rows) : draft.all_devices \/ d \in Taken.devices}
    BY <1>5, <1>6, <1>7, <1>9 DEF Passes
  <2>2. ToSet(draft.rows) = {draft.rows[i] : i \in DOMAIN draft.rows}
    BY DEF ToSet
  <2>3. CASE draft.all_devices
    BY <1>9, <2>1, <2>2, <2>3
  <2>4. CASE ~draft.all_devices
    BY <1>6, <1>7, <1>9, <2>1, <2>2, <2>4
  <2>5. QED
    BY <2>3, <2>4
<1>10. QED
  BY <1>7, <1>8, <1>9

-----------------------------------------------------------------------------
(***************************************************************************)
(* The list and its files                                                  *)
(***************************************************************************)

\* The elements of the list.
Elements == ToSet(shown) \cup ToSet(hidden)

\* Ids that grow with the time.
Growing(S) == \A a, b \in S : a.n < b.n => a.id < b.id

Files == [state : {"missing", "whole", "short", "torn"}, content : Seq(Records),
          month : 1 .. MaxMonth]

ListTypes ==
  /\ running \in BOOLEAN /\ pc \in {"idle", "rotated"}
  /\ shown \in Seq(Records) /\ hidden \in Seq(Records)
  /\ filter \in Filters
  /\ records_count \in Nat /\ last_saved_time \in Months
  /\ file \in Files
  /\ archives \in [Months -> SUBSET (1 .. MaxRecords)]
  /\ month \in 1 .. MaxMonth /\ received \in 0 .. MaxRecords
  /\ history \in Histories

\* Nothing is in memory while the program does not run.
Stopped ==
  ~running => /\ shown = <<>> /\ hidden = <<>> /\ filter = Off /\ pc = "idle"
              /\ last_saved_time = 0 /\ ~history.unsaved

\* No id is greater than the number of messages that came.
Numbered ==
  /\ records_count <= received
  /\ \A r \in Elements \cup ToSet(file.content) : r.n <= received /\ r.id <= received

\* The next id is greater than all that are there.
Increasing ==
  ~history.regressed =>
    /\ Growing(Elements) /\ Growing(ToSet(file.content))
    /\ \A r \in Elements : r.id <= records_count

\* What a running program read from the file, or wrote to it, is in its list or
\* in the archive of a month that is closed.
ReadIsKept ==
  running /\ file.state = "whole" =>
    \A r \in ToSet(file.content) :
      \/ \E e \in Elements : e.n = r.n
      \/ \E m \in Months : m < last_saved_time /\ r.n \in archives[m]

\* Archives are of months that are over; unless the program ended between
\* closing a month and saving the log, they are of months before the log's.
MonthsClosed ==
  /\ last_saved_time <= month /\ file.month <= month
  /\ \A m \in Months \ {0} : archives[m] # {} =>
       /\ m < month
       /\ ~history.died /\ last_saved_time # 0 => m < last_saved_time
       /\ ~history.died /\ ~history.unsaved /\ file.state = "whole" => m < file.month

ListInv ==
  /\ ListTypes /\ Stopped /\ Numbered /\ Increasing /\ ReadIsKept /\ MonthsClosed
  /\ FilterHolds

\* The list is its two parts.
LEMMA ListHas ==
  ASSUME ListTypes
  PROVE  List \in Seq(Records) /\ ToSet(List) = Elements /\ Elements \subseteq Records
  BY SetOfConcat, SetOf DEF ListTypes, List, Elements

\* The invariant is what the runs check of the list, and more.
LEMMA ListInvSound == ListInv => ListSound
<1> SUFFICES ASSUME ListInv PROVE ListSound
  OBVIOUS
<1> USE DEF ListInv, ListTypes
<1>1. ToSet(List) = Elements /\ Elements \subseteq Records
  BY ListHas
<1>2. ToSet(file.content) \subseteq Records
  <2>1. file.content \in Seq(Records)
    BY DEF Files
  <2>2. QED
    BY <2>1, SetOf
<1>3. records_count \in 0 .. (2 * MaxRecords)
  <2>1. records_count <= received /\ received <= MaxRecords /\ MaxRecords \in Nat
    BY BoundsAssumption DEF Numbered
  <2>2. QED
    BY <2>1
<1>4. file.state \in {"missing", "whole", "short", "torn"} /\ file.month \in 1 .. MaxMonth
  BY DEF Files
<1>5. TypeOK
  BY <1>1, <1>2, <1>3, <1>4 DEF TypeOK
<1>6. IdsGrow
  BY <1>1 DEF IdsGrow, Increasing, Growing
<1>7. QED
  BY <1>5, <1>6 DEF ListSound

\* The state the program starts in.
LEMMA ListInvInit == Init => ListInv
<1> SUFFICES ASSUME Init PROVE ListInv
  OBVIOUS
<1> USE DEF Init
<1>1. ToSet(<<>>) = {} /\ <<>> \in Seq(Records)
  BY EmptySeq DEF ToSet
<1>2. Elements = {} /\ ToSet(file.content) = {}
  BY <1>1 DEF Elements
<1>3. 0 \in Months /\ 1 \in 1 .. MaxMonth /\ 0 \in 0 .. MaxRecords
  BY BoundsAssumption DEF Months
<1>4. ListTypes
  BY <1>1, <1>3 DEF ListTypes, Files, Filters, Off, Histories
<1>5. Stopped /\ Numbered /\ Increasing /\ ReadIsKept /\ FilterHolds
  BY <1>2 DEF Stopped, Numbered, Increasing, Growing, ReadIsKept, FilterHolds
<1>6. MonthsClosed
  BY DEF MonthsClosed
<1>7. QED
  BY <1>4, <1>5, <1>6 DEF ListInv

\* A new record is the one with the greatest number and the greatest id.
LEMMA ListInvMessage ==
  ASSUME ListInv, NEW kind \in Kinds, Message(kind)
  PROVE  ListInv'
<1> DEFINE r == [n |-> received + 1, id |-> records_count + 1, kind |-> kind]
<1> USE DEF ListInv
<1>1. /\ running /\ pc = "idle" /\ received < MaxRecords
      /\ received' = received + 1 /\ records_count' = records_count + 1
      /\ Insert(r)
      /\ UNCHANGED <<running, filter, last_saved_time, pc, file, archives, month, history>>
  BY DEF Message
<1>2. /\ received \in Nat /\ records_count \in Nat /\ records_count <= received
      /\ received + 1 \in 0 .. MaxRecords /\ MaxRecords \in Nat
  BY <1>1, BoundsAssumption DEF ListTypes, Numbered
<1>3. r \in Records /\ r.n = received + 1 /\ r.id = records_count + 1
  <2>1. received + 1 \in 1 .. MaxRecords /\ records_count + 1 \in 1 .. (2 * MaxRecords)
    BY <1>2
  <2>2. QED
    BY <2>1 DEF Records
<1> HIDE DEF r
<1>4. shown \in Seq(Records) /\ hidden \in Seq(Records) /\ Elements \subseteq Records
  BY ListHas DEF ListTypes
<1>5. \/ /\ shown' = Append(shown, r) /\ hidden' = hidden
         /\ hidden = <<>> \/ (filter.on /\ Matches(r))
      \/ /\ hidden' = Append(hidden, r) /\ shown' = shown
         /\ hidden # <<>> /\ ~(filter.on /\ Matches(r))
  <2>1. List # <<>> \/ hidden = <<>>
    <3>1. List = <<>> => hidden = <<>>
      BY <1>4, ConcatEqualIffEmpty DEF List
    <3>2. QED
      BY <3>1
  <2>2. QED
    BY <1>1, <2>1 DEF Insert
<1>6. /\ ToSet(Append(shown, r)) = ToSet(shown) \cup {r} /\ Append(shown, r) \in Seq(Records)
      /\ ToSet(Append(hidden, r)) = ToSet(hidden) \cup {r} /\ Append(hidden, r) \in Seq(Records)
  BY <1>3, <1>4, SetOfAppend
<1>7. /\ shown' \in Seq(Records) /\ hidden' \in Seq(Records)
      /\ Elements' = Elements \cup {r}
  BY <1>4, <1>5, <1>6 DEF Elements
<1>8. ListTypes'
  BY <1>1, <1>2, <1>7 DEF ListTypes
<1>9. Stopped' /\ MonthsClosed'
  BY <1>1 DEF Stopped, MonthsClosed
<1>10. ToSet(file'.content) = ToSet(file.content) /\ ToSet(file.content) \subseteq Records
  <2>1. file.content \in Seq(Records)
    BY DEF ListTypes, Files
  <2>2. QED
    BY <1>1, <2>1, SetOf
<1>11. \A e \in Records : e.n \in Nat /\ e.id \in Nat
  BY DEF Records
<1>12. Numbered'
  <2>1. records_count' <= received'
    BY <1>1, <1>2
  <2>2. ASSUME NEW e \in Elements' \cup ToSet(file'.content)
        PROVE  e.n <= received' /\ e.id <= received'
    <3>1. CASE e = r
      BY <1>1, <1>2, <1>3, <3>1
    <3>2. CASE e \in Elements \cup ToSet(file.content)
      <4>1. e.n <= received /\ e.id <= received /\ e.n \in Nat /\ e.id \in Nat
        BY <1>4, <1>10, <1>11, <3>2 DEF Numbered
      <4>2. QED
        BY <1>1, <1>2, <4>1
    <3>3. QED
      BY <1>7, <1>10, <3>1, <3>2
  <2>3. QED
    BY <2>1, <2>2 DEF Numbered
<1>13. Increasing'
  <2>1. SUFFICES ASSUME ~history.regressed
                 PROVE  /\ Growing(Elements') /\ Growing(ToSet(file'.content))
                        /\ \A e \in Elements' : e.id <= records_count'
    BY <1>1 DEF Increasing
  <2>2. /\ Growing(Elements) /\ Growing(ToSet(file.content))
        /\ \A e \in Elements : e.id <= records_count /\ e.n <= received
    BY <2>1 DEF Increasing, Numbered
  <2>3. ASSUME NEW e \in Elements' PROVE e.id <= records_count'
    BY <1>1, <1>2, <1>3, <1>4, <1>7, <1>11, <2>2, <2>3
  <2>4. ASSUME NEW a \in Elements', NEW b \in Elements', a.n < b.n PROVE a.id < b.id
    <3>1. CASE a \in Elements /\ b \in Elements
      BY <2>2, <2>4, <3>1 DEF Growing
    <3>2. CASE a \in Elements /\ b = r
      BY <1>2, <1>3, <1>4, <1>11, <2>2, <3>2
    <3>3. CASE a = r
      <4>1. b.n <= received + 1 /\ b.n \in Nat
        BY <1>2, <1>3, <1>4, <1>7, <1>11, <2>2
      <4>2. QED
        BY <1>2, <1>3, <2>4, <3>3, <4>1
    <3>4. QED
      BY <1>7, <3>1, <3>2, <3>3
  <2>5. QED
    BY <1>10, <2>2, <2>3, <2>4 DEF Growing
<1>14. ReadIsKept'
  BY <1>1, <1>7, <1>10 DEF ReadIsKept
<1>15. FilterHolds'
  <2>1. SUFFICES ASSUME history.accepted, hidden' # <<>>
                 PROVE  /\ filter.on
                        /\ \A e \in ToSet(shown') : e.kind \in filter.kinds
                        /\ \A e \in ToSet(hidden') : e.kind \notin filter.kinds
    BY <1>1 DEF FilterHolds, Matches
  <2>2. CASE /\ shown' = Append(shown, r) /\ hidden' = hidden
             /\ hidden = <<>> \/ (filter.on /\ Matches(r))
    BY <1>6, <2>1, <2>2 DEF FilterHolds, Matches
  <2>3. CASE /\ hidden' = Append(hidden, r) /\ shown' = shown
             /\ hidden # <<>> /\ ~(filter.on /\ Matches(r))
    BY <1>6, <2>1, <2>3 DEF FilterHolds, Matches
  <2>4. QED
    BY <1>5, <2>2, <2>3
<1>16. QED
  BY <1>8, <1>9, <1>12, <1>13, <1>14, <1>15

\* The filter chooses of the list what is shown, and loses nothing of it.
LEMMA Partitioned ==
  ASSUME ListTypes, NEW f \in Filters, SetFiltering(f)
  PROVE  /\ shown' \in Seq(Records) /\ hidden' \in Seq(Records)
         /\ Elements' = Elements
         /\ hidden' # <<>> =>
              /\ f.on
              /\ \A r \in ToSet(shown') : r.kind \in f.kinds
              /\ \A r \in ToSet(hidden') : r.kind \notin f.kinds
<1>1. PICK t \in Sortings(List) :
        IF f.on
        THEN shown' = OfKinds(t, f.kinds) /\ hidden' = OfKinds(t, Kinds \ f.kinds)
        ELSE shown' = t /\ hidden' = <<>>
  BY DEF SetFiltering
<1>2. List \in Seq(Records) /\ ToSet(List) = Elements /\ Elements \subseteq Records
  BY ListHas
<1>3. t \in SetToSeqs(ToSet(List))
  BY DEF Sortings
<1>4. t \in Seq(Records) /\ ToSet(t) = Elements
  BY <1>2, <1>3, SetOfPermutation
<1>5. \A e \in Elements : e.kind \in Kinds
  BY <1>2 DEF Records
<1>6. CASE f.on
  <2>1. /\ OfKinds(t, f.kinds) \in Seq(Records)
        /\ ToSet(OfKinds(t, f.kinds)) = {e \in Elements : e.kind \in f.kinds}
    BY <1>4, OfKindsHas
  <2>2. /\ OfKinds(t, Kinds \ f.kinds) \in Seq(Records)
        /\ ToSet(OfKinds(t, Kinds \ f.kinds)) = {e \in Elements : e.kind \in Kinds \ f.kinds}
    BY <1>4, OfKindsHas
  <2>3. /\ ToSet(shown') = {e \in Elements : e.kind \in f.kinds}
        /\ ToSet(hidden') = {e \in Elements : e.kind \in Kinds \ f.kinds}
    BY <1>1, <1>6, <2>1, <2>2
  <2>4. ToSet(shown') \cup ToSet(hidden') = Elements
    BY <1>5, <2>3
  <2>5. QED
    BY <1>1, <1>6, <2>1, <2>2, <2>3, <2>4 DEF Elements
<1>7. CASE ~f.on
  <2>1. <<>> \in Seq(Records) /\ ToSet(<<>>) = {}
    BY EmptySeq DEF ToSet
  <2>2. QED
    BY <1>1, <1>4, <1>7, <2>1 DEF Elements
<1>8. QED
  BY <1>6, <1>7

\* What is said of the list but for its filter is said of its elements.
LEMMA ListInvSameElements ==
  ASSUME ListInv, Elements' = Elements,
         UNCHANGED <<running, records_count, last_saved_time, file, archives, month,
                     received>>,
         history'.regressed = history.regressed, history'.died = history.died,
         history'.unsaved = history.unsaved
  PROVE  Numbered' /\ Increasing' /\ ReadIsKept' /\ MonthsClosed'
  BY DEF ListInv, Numbered, Increasing, ReadIsKept, MonthsClosed

\* OK in the filter's window.
LEMMA ListInvButtonOk ==
  ASSUME ListInv, NEW f \in Filters, ButtonOk(f)
  PROVE  ListInv'
<1> USE DEF ListInv
<1>1. /\ running /\ pc = "idle" /\ filter' = f
      /\ UNCHANGED <<running, records_count, last_saved_time, pc, file, archives,
                     month, received>>
  BY DEF ButtonOk
<1>2. history \in Histories
  BY DEF ListTypes
<1>3. CASE f.on /\ f.kinds = {}
  <2>1. UNCHANGED <<shown, hidden>> /\ history' = [history EXCEPT !.accepted = FALSE]
    BY <1>3 DEF ButtonOk
  <2>2. /\ history' \in Histories /\ ~history'.accepted
        /\ history'.regressed = history.regressed /\ history'.died = history.died
        /\ history'.unsaved = history.unsaved
    BY <1>2, <2>1 DEF Histories
  <2>3. Elements' = Elements
    BY <2>1 DEF Elements
  <2>4. Numbered' /\ Increasing' /\ ReadIsKept' /\ MonthsClosed'
    BY <1>1, <2>2, <2>3, ListInvSameElements
  <2>5. ListTypes' /\ Stopped' /\ FilterHolds'
    BY <1>1, <2>1, <2>2 DEF ListTypes, Stopped, FilterHolds
  <2>6. QED
    BY <2>4, <2>5
<1>4. CASE ~(f.on /\ f.kinds = {})
  <2>1. SetFiltering(f) /\ history' = [history EXCEPT !.accepted = TRUE]
    BY <1>4 DEF ButtonOk
  <2>2. /\ history' \in Histories
        /\ history'.regressed = history.regressed /\ history'.died = history.died
        /\ history'.unsaved = history.unsaved
    BY <1>2, <2>1 DEF Histories
  <2>3. /\ shown' \in Seq(Records) /\ hidden' \in Seq(Records)
        /\ Elements' = Elements
        /\ hidden' # <<>> =>
              /\ f.on
              /\ \A r \in ToSet(shown') : r.kind \in f.kinds
              /\ \A r \in ToSet(hidden') : r.kind \notin f.kinds
    BY <2>1, Partitioned
  <2>4. Numbered' /\ Increasing' /\ ReadIsKept' /\ MonthsClosed'
    BY <1>1, <2>2, <2>3, ListInvSameElements
  <2>5. ListTypes' /\ Stopped'
    BY <1>1, <2>2, <2>3 DEF ListTypes, Stopped
  <2>6. FilterHolds'
    BY <1>1, <2>3 DEF FilterHolds, Matches
  <2>7. QED
    BY <2>4, <2>5, <2>6
<1>5. QED
  BY <1>3, <1>4

\* Filters that are asked for are filters.
LEMMA FiltersAskedFor == Off \in Filters /\ \A ks \in SUBSET Kinds : [on |-> TRUE, kinds |-> ks] \in Filters
  BY DEF Off, Filters

\* Before the months' end the numbers differ.
LEMMA MonthOverLater ==
  ASSUME ListTypes, last_saved_time <= month, MonthIsOver
  PROVE  last_saved_time < month
<1>1. last_saved_time # month
  BY DEF MonthIsOver
<1>2. last_saved_time \in Int /\ month \in Int
  BY DEF ListTypes, Months
<1>3. QED
  BY <1>1, <1>2

\* The month is closed: the list goes to its archive.
LEMMA ListInvRotate ==
  ASSUME ListInv, Rotate
  PROVE  ListInv'
<1> USE DEF ListInv
<1>1. /\ running /\ pc = "idle" /\ MonthIsOver
      /\ archives' = [archives EXCEPT ![last_saved_time] = Serials(List)]
      /\ shown' = <<>> /\ hidden' = <<>> /\ filter' = Off
      /\ last_saved_time' = month /\ pc' = "rotated"
      /\ history' = [history EXCEPT !.accepted = TRUE, !.unsaved = TRUE]
      /\ UNCHANGED <<running, records_count, file, month, received>>
  BY DEF Rotate, ClosesMonth
<1>2. /\ history' \in Histories /\ history'.unsaved
      /\ history'.regressed = history.regressed /\ history'.died = history.died
  BY <1>1 DEF ListTypes, Histories
<1>3. <<>> \in Seq(Records) /\ ToSet(<<>>) = {}
  BY EmptySeq DEF ToSet
<1>4. Elements' = {}
  BY <1>1, <1>3 DEF Elements
<1>5. ToSet(List) = Elements /\ Elements \subseteq Records
  BY ListHas
<1>6. Serials(List) \subseteq 1 .. MaxRecords
  BY <1>5 DEF Serials, Records
<1>7. /\ last_saved_time \in Months /\ month \in Months /\ month \in 1 .. MaxMonth
      /\ archives \in [Months -> SUBSET (1 .. MaxRecords)]
  BY BoundsAssumption DEF ListTypes, Months
<1>8. last_saved_time < month
  BY <1>1, MonthOverLater DEF MonthsClosed
<1>9. archives' \in [Months -> SUBSET (1 .. MaxRecords)]
  BY <1>1, <1>6, <1>7
<1>10. ListTypes'
  BY <1>1, <1>2, <1>3, <1>7, <1>9, FiltersAskedFor DEF ListTypes
<1>11. Stopped' /\ FilterHolds'
  BY <1>1 DEF Stopped, FilterHolds
<1>12. Numbered' /\ Increasing'
  BY <1>1, <1>2, <1>4 DEF Numbered, Increasing, Growing
<1>13. ReadIsKept'
  <2>1. SUFFICES ASSUME file.state = "whole", NEW r \in ToSet(file.content)
                 PROVE  \E m \in Months : m < month /\ r.n \in archives'[m]
    BY <1>1 DEF ReadIsKept
  <2>2. CASE \E e \in Elements : e.n = r.n
    <3>1. r.n \in archives'[last_saved_time]
      BY <1>1, <1>5, <1>7, <2>2 DEF Serials
    <3>2. QED
      BY <1>7, <1>8, <3>1
  <2>3. ASSUME NEW m \in Months, m < last_saved_time, r.n \in archives[m]
        PROVE  m < month /\ r.n \in archives'[m]
    <3>1. m \in Int /\ last_saved_time \in Int /\ month \in Int
      BY <1>7 DEF Months
    <3>2. m # last_saved_time /\ m < month
      BY <1>8, <2>3, <3>1
    <3>3. QED
      BY <1>1, <1>7, <2>3, <3>2
  <2>4. QED
    BY <1>1, <2>1, <2>2, <2>3 DEF ReadIsKept
<1>14. MonthsClosed'
  <2>1. last_saved_time' <= month' /\ file'.month <= month'
    BY <1>1, <1>7 DEF MonthsClosed
  <2>2. ASSUME NEW m \in Months \ {0}, archives'[m] # {} PROVE m < month
    <3>1. CASE m = last_saved_time
      BY <1>8, <3>1
    <3>2. CASE m # last_saved_time
      BY <1>1, <1>7, <2>2, <3>2 DEF MonthsClosed
    <3>3. QED
      BY <3>1, <3>2
  <2>3. QED
    BY <1>1, <1>2, <2>1, <2>2 DEF MonthsClosed
<1>15. QED
  BY <1>10, <1>11, <1>12, <1>13, <1>14

\* The archive could not be written, or the program died while writing it: the
\* records of older archives are where they were.
LEMMA ArchiveEmptied ==
  ASSUME ListInv, archives' = [archives EXCEPT ![last_saved_time] = {}]
  PROVE  /\ archives' \in [Months -> SUBSET (1 .. MaxRecords)]
         /\ \A m \in Months : m < last_saved_time => archives'[m] = archives[m]
         /\ \A m \in Months : archives'[m] # {} => archives'[m] = archives[m]
<1>1. last_saved_time \in Months /\ archives \in [Months -> SUBSET (1 .. MaxRecords)]
  BY DEF ListInv, ListTypes
<1>2. \A m \in Months : archives'[m] = IF m = last_saved_time THEN {} ELSE archives[m]
  BY <1>1
<1>3. archives' \in [Months -> SUBSET (1 .. MaxRecords)]
  BY <1>1
<1>4. \A m \in Months : m < last_saved_time => m # last_saved_time
  BY <1>1 DEF Months
<1>5. QED
  BY <1>2, <1>3, <1>4

\* A minute without a month's end, and a month's end whose archive fails.
LEMMA ListInvNotRotated ==
  ASSUME ListInv, RotateNotDue \/ RotateFails
  PROVE  ListInv'
<1> USE DEF ListInv
<1>1. /\ running /\ pc' = "rotated"
      /\ UNCHANGED <<running, memory, file, month, received, history>>
  BY DEF RotateNotDue, RotateFails
<1>2. UNCHANGED <<shown, hidden, filter, records_count, last_saved_time>>
  BY <1>1 DEF memory
<1>3. Elements' = Elements
  BY <1>2 DEF Elements
<1>4. archives' = archives \/ archives' = [archives EXCEPT ![last_saved_time] = {}]
  BY DEF RotateNotDue, RotateFails
<1>5. /\ archives' \in [Months -> SUBSET (1 .. MaxRecords)]
      /\ \A m \in Months : m < last_saved_time => archives'[m] = archives[m]
      /\ \A m \in Months : archives'[m] # {} => archives'[m] = archives[m]
  BY <1>4, ArchiveEmptied DEF ListTypes
<1>6. ListTypes' /\ Stopped' /\ FilterHolds'
  BY <1>1, <1>2, <1>5 DEF ListTypes, Stopped, FilterHolds, Matches
<1>7. Numbered' /\ Increasing'
  BY <1>1, <1>2, <1>3 DEF Numbered, Increasing
<1>8. ReadIsKept'
  BY <1>1, <1>2, <1>3, <1>5 DEF ReadIsKept
<1>9. MonthsClosed'
  BY <1>1, <1>2, <1>5 DEF MonthsClosed
<1>10. QED
  BY <1>6, <1>7, <1>8, <1>9

\* What a file may become.
FileFits(f) ==
  /\ f \in Files
  /\ \A r \in ToSet(f.content) : r.n <= received /\ r.id <= received
  /\ ~history.regressed => Growing(ToSet(f.content))
  /\ f.month <= month

\* The file as it is, one cut short, and a saved one.
LEMMA FilesFit ==
  ASSUME ListInv
  PROVE  /\ FileFits(file)
         /\ \A s \in {"short", "whole", "torn"} :
              FileFits([state |-> s, content |-> <<>>, month |-> month])
         /\ FileFits([state |-> "whole", content |-> Saved, month |-> month])
         /\ ToSet(Saved) = Elements
<1>1. month \in 1 .. MaxMonth /\ month <= month
  BY DEF ListInv, ListTypes
<1>2. <<>> \in Seq(Records) /\ ToSet(<<>>) = {}
  BY EmptySeq DEF ToSet
<1>3. List \in Seq(Records) /\ ToSet(List) = Elements /\ Elements \subseteq Records
  BY ListHas DEF ListInv
<1>4. FileFits(file)
  BY DEF FileFits, ListInv, ListTypes, Numbered, Increasing, MonthsClosed
<1>5. ASSUME NEW s \in {"short", "whole", "torn"}
      PROVE  FileFits([state |-> s, content |-> <<>>, month |-> month])
  <2> DEFINE f == [state |-> s, content |-> <<>>, month |-> month]
  <2>1. f \in Files /\ f.month = month /\ f.content = <<>>
    BY <1>1, <1>2 DEF Files
  <2> HIDE DEF f
  <2>2. FileFits(f)
    BY <1>1, <1>2, <2>1 DEF FileFits, Growing
  <2>3. QED
    BY <2>2 DEF f
<1>6. FileFits([state |-> "whole", content |-> Saved, month |-> month])
  <2> DEFINE f == [state |-> "whole", content |-> Saved, month |-> month]
  <2>1. f \in Files /\ f.month = month /\ f.content = List
    BY <1>1, <1>3 DEF Files, Saved
  <2> HIDE DEF f
  <2>2. FileFits(f)
    BY <1>1, <1>3, <2>1 DEF FileFits, ListInv, Numbered, Increasing
  <2>3. QED
    BY <2>2 DEF f
<1>7. ToSet(Saved) = Elements
  BY <1>3 DEF Saved
<1>8. QED
  BY <1>4, <1>5, <1>6, <1>7

\* A file that was cut short, or left, fits.
LEMMA CutShortFits ==
  ASSUME ListInv, NEW f, CutShort(f)
  PROVE  FileFits(f) /\ (f = file \/ (f.content = <<>> /\ f.month = month))
<1>1. CASE f = file
  BY <1>1, FilesFit
<1>2. CASE \E s \in {"short", "whole", "torn"} :
             f = [state |-> s, content |-> <<>>, month |-> month]
  BY <1>2, FilesFit
<1>3. QED
  BY <1>1, <1>2 DEF CutShort

\* The log is saved, or not wholly.
LEMMA ListInvSave ==
  ASSUME ListInv, Save \/ SaveFails
  PROVE  ListInv'
<1> USE DEF ListInv
<1>1. /\ running /\ pc' = "idle"
      /\ UNCHANGED <<running, memory, archives, month, received>>
      /\ history'.regressed = history.regressed /\ history'.died = history.died
      /\ history'.accepted = history.accepted /\ history' \in Histories
      /\ \/ history'.unsaved = history.unsaved
         \/ file' = [state |-> "whole", content |-> Saved, month |-> month]
  BY DEF Save, SaveTo, SaveFails, ListTypes, Histories
<1>2. UNCHANGED <<shown, hidden, filter, records_count, last_saved_time>>
  BY <1>1 DEF memory
<1>3. Elements' = Elements
  BY <1>2 DEF Elements
<1>4. \/ file' = [state |-> "whole", content |-> Saved, month |-> month]
      \/ CutShort(file')
  BY DEF Save, SaveTo, SaveFails
<1>5. /\ FileFits(file')
      /\ file' = file \/ file'.month = month
      /\ file' = file \/ ToSet(file'.content) \subseteq Elements
  <2>1. CASE file' = [state |-> "whole", content |-> Saved, month |-> month]
    BY <2>1, FilesFit
  <2>2. CASE CutShort(file')
    <3>1. ToSet(<<>>) = {}
      BY DEF ToSet
    <3>2. QED
      BY <2>2, <3>1, CutShortFits
  <2>3. QED
    BY <1>4, <2>1, <2>2
<1>6. file' # file => file'.month = month
  BY <1>5
<1>7. ListTypes' /\ Stopped' /\ FilterHolds'
  BY <1>1, <1>2, <1>5 DEF ListTypes, Stopped, FilterHolds, Matches, FileFits
<1>8. Numbered' /\ Increasing'
  BY <1>1, <1>2, <1>3, <1>5 DEF Numbered, Increasing, FileFits
<1>9. ReadIsKept'
  BY <1>1, <1>2, <1>3, <1>5 DEF ReadIsKept
<1>10. MonthsClosed'
  <2>1. last_saved_time' <= month' /\ file'.month <= month'
    BY <1>1, <1>2, <1>5 DEF MonthsClosed, FileFits
  <2>2. ASSUME NEW m \in Months \ {0}, archives'[m] # {}
        PROVE  /\ m < month'
               /\ ~history'.died /\ last_saved_time' # 0 => m < last_saved_time'
               /\ ~history'.died /\ ~history'.unsaved /\ file'.state = "whole"
                    => m < file'.month
    <3>1. /\ m < month
          /\ ~history.died /\ last_saved_time # 0 => m < last_saved_time
          /\ ~history.died /\ ~history.unsaved /\ file.state = "whole" => m < file.month
      BY <1>1, <2>2 DEF MonthsClosed
    <3>2. [state |-> "whole", content |-> Saved, month |-> month].month = month
      OBVIOUS
    <3>3. history'.unsaved = history.unsaved \/ file'.month = month
      BY <1>1, <3>2
    <3>4. QED
      BY <1>1, <1>2, <1>6, <3>1, <3>3
  <2>3. QED
    BY <2>1, <2>2 DEF MonthsClosed
<1>11. QED
  BY <1>7, <1>8, <1>9, <1>10

\* The end of the program, whatever it leaves on the disk.
LEMMA ListInvEnds ==
  ASSUME ListInv, Ends, FileFits(file'),
         archives' \in [Months -> SUBSET (1 .. MaxRecords)],
         \A m \in Months : archives'[m] # {} => archives'[m] = archives[m],
         file' # file => file'.month = month
  PROVE  ListInv'
<1> USE DEF ListInv
<1>1. /\ running' = FALSE /\ shown' = <<>> /\ hidden' = <<>> /\ filter' = Off
      /\ records_count' = 0 /\ last_saved_time' = 0 /\ pc' = "idle"
      /\ history' = [history EXCEPT !.accepted = TRUE, !.unsaved = FALSE,
                                    !.died = @ \/ history.unsaved]
      /\ UNCHANGED <<month, received>>
  BY DEF Ends
<1>2. /\ history' \in Histories /\ ~history'.unsaved
      /\ history'.regressed = history.regressed
      /\ history'.died <=> (history.died \/ history.unsaved)
  BY <1>1 DEF ListTypes, Histories
<1>3. <<>> \in Seq(Records) /\ ToSet(<<>>) = {} /\ 0 \in Months
  BY EmptySeq, BoundsAssumption DEF ToSet, Months
<1>4. Elements' = {}
  BY <1>1, <1>3 DEF Elements
<1>5. ListTypes' /\ Stopped' /\ FilterHolds'
  BY <1>1, <1>2, <1>3, FiltersAskedFor DEF ListTypes, Stopped, FilterHolds, FileFits
<1>6. received \in Nat
  BY BoundsAssumption DEF ListTypes
<1>7. Numbered' /\ Increasing'
  BY <1>1, <1>2, <1>4, <1>6 DEF Numbered, Increasing, Growing, FileFits
<1>8. ReadIsKept'
  BY <1>1 DEF ReadIsKept
<1>9. MonthsClosed'
  <2>1. last_saved_time' <= month' /\ file'.month <= month'
    BY <1>1 DEF FileFits, ListTypes
  <2>2. ASSUME NEW m \in Months \ {0}, archives'[m] # {}
        PROVE  m < month' /\ (~history'.died /\ file'.state = "whole" => m < file'.month)
    BY <1>1, <1>2, <2>2 DEF MonthsClosed
  <2>3. QED
    BY <1>1, <2>1, <2>2 DEF MonthsClosed
<1>10. QED
  BY <1>5, <1>7, <1>8, <1>9

\* The exit, and the ways to die.
LEMMA ListInvStops ==
  ASSUME ListInv, Exit \/ Crash \/ CrashInSave \/ CrashInRotate
  PROVE  ListInv'
<1>1. archives \in [Months -> SUBSET (1 .. MaxRecords)]
  BY DEF ListInv, ListTypes
<1>2. CASE Exit
  <2>1. /\ Ends /\ archives' = archives
        /\ file' = [state |-> "whole", content |-> Saved, month |-> month]
    BY <1>2 DEF Exit, SaveTo
  <2>2. FileFits(file') /\ file'.month = month
    BY <2>1, FilesFit
  <2>3. QED
    BY <1>1, <2>1, <2>2, ListInvEnds
<1>3. CASE Crash
  <2>1. Ends /\ archives' = archives /\ file' = file
    BY <1>3 DEF Crash
  <2>2. QED
    BY <1>1, <2>1, FilesFit, ListInvEnds
<1>4. CASE CrashInSave
  <2>1. Ends /\ archives' = archives /\ CutShort(file')
    BY <1>4 DEF CrashInSave
  <2>2. FileFits(file') /\ (file' # file => file'.month = month)
    BY <2>1, CutShortFits
  <2>3. QED
    BY <1>1, <2>1, <2>2, ListInvEnds
<1>5. CASE CrashInRotate
  <2>1. Ends /\ file' = file /\ archives' = [archives EXCEPT ![last_saved_time] = {}]
    BY <1>5 DEF CrashInRotate
  <2>2. QED
    BY <2>1, FilesFit, ArchiveEmptied, ListInvEnds
<1>6. QED
  BY <1>2, <1>3, <1>4, <1>5

\* What is loaded, and what the file is afterwards.
LEMMA Loaded ==
  ASSUME ListInv, Start
  PROVE  \E loaded \in Seq(Records) :
           /\ loaded = IF file.state = "whole" THEN file.content ELSE <<>>
           /\ shown' = loaded /\ hidden' = <<>> /\ Elements' = ToSet(loaded)
           /\ ToSet(loaded) \subseteq ToSet(file.content)
           /\ records_count' \in Nat /\ records_count' <= received
           /\ history' \in Histories
           /\ history'.accepted = history.accepted /\ history'.died = history.died
           /\ history'.unsaved = history.unsaved
           /\ ~history'.regressed =>
                ~history.regressed /\ \A r \in ToSet(loaded) : r.id <= records_count'
           /\ FileFits(file')
           /\ file'.state = "whole" => file'.content = loaded
           /\ ToSet(file'.content) \subseteq ToSet(file.content)
           /\ file' = file \/ (file'.month = month /\ file.state = "missing")
<1> DEFINE loaded == IF file.state = "whole" THEN file.content ELSE <<>>
<1>1. /\ ~running /\ shown' = loaded /\ records_count' = Counter(loaded)
      /\ history' = [history EXCEPT
                       !.regressed = @ \/ \E r \in ToSet(loaded) : r.id > Last(loaded).id]
      /\ file' = IF file.state = "missing"
                 THEN [state |-> "whole", content |-> <<>>, month |-> month] ELSE file
      /\ UNCHANGED <<hidden, filter, pc, archives, month, received>>
  BY DEF Start
<1>2. hidden = <<>> /\ file \in Files /\ received \in Nat /\ history \in Histories
  BY <1>1, BoundsAssumption DEF ListInv, ListTypes, Stopped
<1>3. <<>> \in Seq(Records) /\ ToSet(<<>>) = {}
  BY EmptySeq DEF ToSet
<1>4. /\ loaded \in Seq(Records) /\ ToSet(loaded) \subseteq ToSet(file.content)
      /\ ToSet(loaded) \subseteq Records
  <2>1. file.content \in Seq(Records)
    BY <1>2 DEF Files
  <2>2. loaded \in Seq(Records) /\ ToSet(loaded) \subseteq ToSet(file.content)
    BY <1>3, <2>1
  <2>3. QED
    BY <2>2, SetOf
<1>5. Elements' = ToSet(loaded)
  BY <1>1, <1>2, <1>3 DEF Elements
<1>6. /\ file.state = "missing" =>
           file' = [state |-> "whole", content |-> <<>>, month |-> month] /\ loaded = <<>>
      /\ file.state # "missing" => file' = file
      /\ file.state = "whole" => loaded = file.content
  BY <1>1
<1> HIDE DEF loaded
<1>7. loaded # <<>> => Last(loaded) \in ToSet(loaded)
  <2>1. SUFFICES ASSUME loaded # <<>> PROVE Last(loaded) \in ToSet(loaded)
    OBVIOUS
  <2>2. Len(loaded) \in 1 .. Len(loaded)
    BY <1>4, <2>1, EmptySeq
  <2>3. QED
    BY <1>4, <2>2 DEF Last, ToSet
<1>8. \A r \in ToSet(loaded) : r.id \in Nat /\ r.id <= received
  BY <1>4 DEF ListInv, Numbered, Records
<1>9. /\ records_count' \in Nat /\ records_count' <= received
      /\ loaded # <<>> => records_count' = Last(loaded).id
  <2>1. CASE loaded = <<>>
    BY <1>1, <1>2, <2>1 DEF Counter
  <2>2. CASE loaded # <<>>
    BY <1>1, <1>7, <1>8, <2>2 DEF Counter
  <2>3. QED
    BY <2>1, <2>2
<1>10. /\ history' \in Histories
       /\ history'.accepted = history.accepted /\ history'.died = history.died
       /\ history'.unsaved = history.unsaved
       /\ history'.regressed =
            (history.regressed \/ \E r \in ToSet(loaded) : r.id > Last(loaded).id)
  BY <1>1, <1>2 DEF Histories
<1>11. ~history'.regressed =>
          ~history.regressed /\ \A r \in ToSet(loaded) : r.id <= records_count'
  <2>1. SUFFICES ASSUME ~history'.regressed
                 PROVE  ~history.regressed /\ \A r \in ToSet(loaded) : r.id <= records_count'
    OBVIOUS
  <2>2. ~history.regressed /\ \A r \in ToSet(loaded) : ~(r.id > Last(loaded).id)
    BY <1>10, <2>1
  <2>3. ASSUME NEW r \in ToSet(loaded) PROVE r.id <= records_count'
    <3>1. loaded # <<>>
      BY <1>3
    <3>2. ~(r.id > records_count')
      BY <1>9, <2>2, <3>1
    <3>3. QED
      BY <1>8, <1>9, <3>2
  <2>4. QED
    BY <2>2, <2>3
<1>12. /\ FileFits(file')
       /\ file'.state = "whole" => file'.content = loaded
       /\ ToSet(file'.content) \subseteq ToSet(file.content)
       /\ file' = file \/ (file'.month = month /\ file.state = "missing")
  <2>1. CASE file.state = "missing"
    <3>1. file' = [state |-> "whole", content |-> <<>>, month |-> month]
      BY <1>6, <2>1
    <3>2. FileFits(file')
      BY <3>1, FilesFit
    <3>3. file'.content = <<>> /\ file'.month = month
      BY <3>1
    <3>4. QED
      BY <1>3, <1>6, <2>1, <3>2, <3>3
  <2>2. CASE file.state # "missing"
    BY <1>6, <2>2, FilesFit
  <2>3. QED
    BY <2>1, <2>2
<1>13. loaded = IF file.state = "whole" THEN file.content ELSE <<>>
  BY DEF loaded
<1>14. shown' = loaded /\ hidden' = <<>>
  BY <1>1, <1>2
<1>15. QED
  BY <1>4, <1>5, <1>9, <1>10, <1>11, <1>12, <1>13, <1>14

\* The program starts from what the file has.
LEMMA ListInvStart ==
  ASSUME ListInv, Start
  PROVE  ListInv'
<1> USE DEF ListInv
<1>1. PICK loaded \in Seq(Records) :
           /\ loaded = IF file.state = "whole" THEN file.content ELSE <<>>
           /\ shown' = loaded /\ hidden' = <<>> /\ Elements' = ToSet(loaded)
           /\ ToSet(loaded) \subseteq ToSet(file.content)
           /\ records_count' \in Nat /\ records_count' <= received
           /\ history' \in Histories
           /\ history'.accepted = history.accepted /\ history'.died = history.died
           /\ history'.unsaved = history.unsaved
           /\ ~history'.regressed =>
                ~history.regressed /\ \A r \in ToSet(loaded) : r.id <= records_count'
           /\ FileFits(file')
           /\ file'.state = "whole" => file'.content = loaded
           /\ ToSet(file'.content) \subseteq ToSet(file.content)
           /\ file' = file \/ (file'.month = month /\ file.state = "missing")
  BY Loaded
<1>2. /\ ~running /\ running' = TRUE
      /\ last_saved_time' = IF file.state = "whole" THEN file.month ELSE 0
      /\ UNCHANGED <<hidden, filter, pc, archives, month, received>>
  BY DEF Start
<1>3. ~history.unsaved
  BY <1>2 DEF Stopped
<1>4. file \in Files /\ 0 \in Months /\ 1 .. MaxMonth \subseteq Months /\ <<>> \in Seq(Records)
  BY BoundsAssumption, EmptySeq DEF ListTypes, Months
<1>5. last_saved_time' \in Months
  BY <1>2, <1>4 DEF Files
<1>6. ListTypes'
  <2>1. running' \in BOOLEAN /\ pc' \in {"idle", "rotated"} /\ hidden' \in Seq(Records)
    BY <1>1, <1>2, <1>4 DEF ListTypes
  <2>2. shown' \in Seq(Records) /\ file' \in Files /\ history' \in Histories
    BY <1>1 DEF FileFits
  <2>3. QED
    BY <1>1, <1>2, <1>5, <2>1, <2>2 DEF ListTypes
<1>7. Stopped' /\ FilterHolds'
  BY <1>1, <1>2 DEF Stopped, FilterHolds
<1>8. Numbered'
  BY <1>1, <1>2 DEF Numbered
<1>9. Increasing'
  BY <1>1 DEF Increasing, Growing, FileFits
<1>10. ReadIsKept'
  BY <1>1 DEF ReadIsKept
<1>11. MonthsClosed'
  <2>1. last_saved_time' <= month' /\ file'.month <= month'
    <3>1. month \in Nat
      BY DEF ListTypes
    <3>2. QED
      BY <1>1, <1>2, <3>1 DEF MonthsClosed, FileFits
  <2>2. ASSUME NEW m \in Months \ {0}, archives'[m] # {}
        PROVE  /\ m < month'
               /\ ~history'.died /\ last_saved_time' # 0 => m < last_saved_time'
               /\ ~history'.died /\ ~history'.unsaved /\ file'.state = "whole"
                    => m < file'.month
    <3>1. /\ m < month
          /\ ~history.died /\ file.state = "whole" => m < file.month
      BY <1>2, <1>3, <2>2 DEF MonthsClosed
    <3>2. QED
      BY <1>1, <1>2, <3>1
  <2>3. QED
    BY <2>1, <2>2 DEF MonthsClosed
<1>12. QED
  BY <1>6, <1>7, <1>8, <1>9, <1>10, <1>11

\* A torn file is taken away, and the months pass.
LEMMA ListInvAround ==
  ASSUME ListInv, TornFileRemoved \/ MonthPasses
  PROVE  ListInv'
<1> USE DEF ListInv
<1>1. /\ UNCHANGED <<running, shown, hidden, filter, records_count, last_saved_time, pc,
                     archives, received, history>>
      /\ file'.content = file.content /\ file'.month = file.month /\ file' \in Files
      /\ file' = file \/ file'.state = "missing"
      /\ month' \in 1 .. MaxMonth /\ month <= month'
  <2>1. month \in 1 .. MaxMonth /\ file \in Files
    BY DEF ListTypes
  <2>2. CASE TornFileRemoved
    <3>1. file' = [file EXCEPT !.state = "missing"] /\ month' = month
          /\ UNCHANGED <<running, shown, hidden, filter, records_count, last_saved_time, pc,
                         archives, received, history>>
      BY <2>2 DEF TornFileRemoved, memory
    <3>2. /\ file' \in Files /\ file'.state = "missing"
          /\ file'.content = file.content /\ file'.month = file.month
      BY <2>1, <3>1 DEF Files
    <3>3. QED
      BY <2>1, <3>1, <3>2
  <2>3. CASE MonthPasses
    <3>1. month < MaxMonth /\ month' = month + 1 /\ file' = file
          /\ UNCHANGED <<running, shown, hidden, filter, records_count, last_saved_time, pc,
                         archives, received, history>>
      BY <2>3 DEF MonthPasses, memory
    <3>2. month' \in 1 .. MaxMonth /\ month <= month'
      BY <2>1, <3>1, BoundsAssumption
    <3>3. QED
      BY <2>1, <3>1, <3>2
  <2>4. QED
    BY <2>2, <2>3
<1>2. Elements' = Elements
  BY <1>1 DEF Elements
<1>3. ListTypes' /\ Stopped' /\ FilterHolds'
  BY <1>1 DEF ListTypes, Stopped, FilterHolds, Matches
<1>4. Numbered' /\ Increasing' /\ ReadIsKept'
  BY <1>1, <1>2 DEF Numbered, Increasing, ReadIsKept
<1>5. MonthsClosed'
  <2>1. file.month \in Int /\ month \in Int /\ month' \in Int /\ last_saved_time \in Int
        /\ \A m \in Months : m \in Int
    BY <1>1 DEF ListTypes, Files, Months
  <2>2. last_saved_time' <= month' /\ file'.month <= month'
    BY <1>1, <2>1 DEF MonthsClosed
  <2>3. ASSUME NEW m \in Months \ {0}, archives'[m] # {}
        PROVE  /\ m < month'
               /\ ~history'.died /\ last_saved_time' # 0 => m < last_saved_time'
               /\ ~history'.died /\ ~history'.unsaved /\ file'.state = "whole"
                    => m < file'.month
    <3>1. /\ m < month
          /\ ~history.died /\ last_saved_time # 0 => m < last_saved_time
          /\ ~history.died /\ ~history.unsaved /\ file.state = "whole" => m < file.month
      BY <1>1, <2>3 DEF MonthsClosed
    <3>2. QED
      BY <1>1, <2>1, <3>1
  <2>4. QED
    BY <2>2, <2>3 DEF MonthsClosed
<1>6. QED
  BY <1>3, <1>4, <1>5

\* Every step keeps the invariant of the list.
LEMMA ListInvStep == ListInv /\ [Next]_vars => ListInv'
<1> SUFFICES ASSUME ListInv, [Next]_vars PROVE ListInv'
  OBVIOUS
<1>1. CASE UNCHANGED vars
  <2>1. UNCHANGED <<running, shown, hidden, filter, records_count, last_saved_time, pc, file,
                    archives, month, received, history>>
    BY <1>1 DEF vars
  <2>2. Elements' = Elements
    BY <2>1 DEF Elements
  <2>3. ListTypes' /\ Stopped' /\ FilterHolds'
    BY <2>1 DEF ListInv, ListTypes, Stopped, FilterHolds, Matches
  <2>4. Numbered' /\ Increasing' /\ ReadIsKept' /\ MonthsClosed'
    BY <2>1, <2>2 DEF ListInv, Numbered, Increasing, ReadIsKept, MonthsClosed
  <2>5. QED
    BY <2>3, <2>4 DEF ListInv
<1>2. CASE \E k \in Kinds : Message(k)
  BY <1>2, ListInvMessage
<1>3. CASE ButtonOk(Off)
  BY <1>3, ListInvButtonOk, FiltersAskedFor
<1>4. CASE \E ks \in SUBSET Kinds : ButtonOk([on |-> TRUE, kinds |-> ks])
  BY <1>4, ListInvButtonOk, FiltersAskedFor
<1>5. CASE RotateNotDue \/ RotateFails
  BY <1>5, ListInvNotRotated
<1>6. CASE Rotate
  BY <1>6, ListInvRotate
<1>7. CASE Save \/ SaveFails
  BY <1>7, ListInvSave
<1>8. CASE Exit \/ Crash \/ CrashInSave \/ CrashInRotate
  BY <1>8, ListInvStops
<1>9. CASE Start
  BY <1>9, ListInvStart
<1>10. CASE TornFileRemoved \/ MonthPasses
  BY <1>10, ListInvAround
<1>11. QED
  BY <1>1, <1>2, <1>3, <1>4, <1>5, <1>6, <1>7, <1>8, <1>9, <1>10 DEF Next

\* The records on disk.
LEMMA OnDiskHas ==
  ASSUME NEW n
  PROVE  n \in OnDisk <=>
           \/ \E m \in Months : n \in archives[m]
           \/ file.state = "whole" /\ \E r \in ToSet(file.content) : r.n = n
<1>1. n \in UNION {archives[m] : m \in Months} <=> \E m \in Months : n \in archives[m]
  OBVIOUS
<1>2. n \in Serials(file.content) <=> \E r \in ToSet(file.content) : r.n = n
  BY DEF Serials
<1>3. QED
  BY <1>1, <1>2 DEF OnDisk

\* What a step does to the file: it leaves it, or there was none to lose
\* something of, or its writing was cut short, or the list was saved.
LEMMA FileChanges ==
  ASSUME ListInv, Next
  PROVE  \/ file' = file
         \/ file.state # "whole"
         \/ CutOff
         \/ running /\ file' = [state |-> "whole", content |-> Saved, month |-> month]
<1>1. ASSUME CutShort(file')
      PROVE  \/ file' = file
             \/ CutOff
             \/ file' = [state |-> "whole", content |-> Saved, month |-> month]
  <2>1. CASE file' = file
    BY <2>1
  <2>2. ASSUME NEW s \in {"short", "whole", "torn"}, file' # file,
               file' = [state |-> s, content |-> <<>>, month |-> month]
        PROVE  \/ CutOff
               \/ file' = [state |-> "whole", content |-> Saved, month |-> month]
    <3>1. file'.state = s /\ file'.content = <<>>
      BY <2>2
    <3>2. CASE s # "whole" \/ List # <<>>
      BY <2>2, <3>1, <3>2 DEF CutOff
    <3>3. CASE s = "whole" /\ List = <<>>
      BY <2>2, <3>3 DEF Saved
    <3>4. QED
      BY <3>2, <3>3
  <2>3. QED
    BY <1>1, <2>1, <2>2 DEF CutShort
<1>2. CASE Save
  BY <1>2 DEF Save, SaveTo
<1>3. CASE SaveFails
  BY <1>1, <1>3 DEF SaveFails
<1>4. CASE Exit
  BY <1>4 DEF Exit, SaveTo
<1>5. CASE CrashInSave
  BY <1>1, <1>5 DEF CrashInSave
<1>6. CASE Start
  BY <1>6 DEF Start
<1>7. CASE TornFileRemoved
  BY <1>7 DEF TornFileRemoved
<1>8. CASE \E k \in Kinds : Message(k)
  BY <1>8 DEF Message
<1>9. CASE \E f \in Filters : ButtonOk(f)
  BY <1>9 DEF ButtonOk
<1>10. CASE RotateNotDue \/ RotateFails \/ Rotate
  BY <1>10 DEF RotateNotDue, RotateFails, Rotate
<1>11. CASE Crash \/ CrashInRotate \/ MonthPasses
  BY <1>11 DEF Crash, CrashInRotate, MonthPasses
<1>12. QED
  BY <1>2, <1>3, <1>4, <1>5, <1>6, <1>7, <1>8, <1>9, <1>10, <1>11, FiltersAskedFor DEF Next

\* A step writes the archive of the month that is over, and no other.
LEMMA ArchivesChange ==
  ASSUME ListInv, Next
  PROVE  \A m \in Months : archives'[m] # archives[m] => running /\ m = last_saved_time
<1>1. archives \in [Months -> SUBSET (1 .. MaxRecords)]
  BY DEF ListInv, ListTypes
<1>2. CASE Save \/ SaveFails \/ Exit \/ CrashInSave \/ Start \/ TornFileRemoved
  BY <1>2 DEF Save, SaveFails, Exit, CrashInSave, Start, TornFileRemoved
<1>3. CASE \E k \in Kinds : Message(k)
  BY <1>3 DEF Message
<1>4. CASE \E f \in Filters : ButtonOk(f)
  BY <1>4 DEF ButtonOk
<1>5. CASE RotateNotDue \/ Crash \/ MonthPasses
  BY <1>5 DEF RotateNotDue, Crash, MonthPasses
<1>6. CASE RotateFails \/ CrashInRotate
  <2>1. running /\ archives' = [archives EXCEPT ![last_saved_time] = {}]
    BY <1>6 DEF RotateFails, CrashInRotate
  <2>2. QED
    BY <1>1, <2>1
<1>7. CASE Rotate
  <2>1. running /\ archives' = [archives EXCEPT ![last_saved_time] = Serials(List)]
    BY <1>7 DEF Rotate
  <2>2. QED
    BY <1>1, <2>1
<1>8. QED
  BY <1>2, <1>3, <1>4, <1>5, <1>6, <1>7, FiltersAskedFor DEF Next

\* A record on disk stays there, but for a write that is cut short or an
\* archive that loses records.
DiskKept ==
  \/ OnDisk \subseteq OnDisk'
  \/ CutOff
  \/ \E m \in Months : ~(archives[m] \subseteq archives'[m])

\* No step loses a record of a file that is whole, and of archives that keep
\* theirs.
LEMMA DiskKeptStep ==
  ASSUME ListInv, [Next]_vars
  PROVE  DiskKept
<1>1. CASE UNCHANGED vars
  <2>1. archives' = archives /\ file' = file
    BY <1>1 DEF vars
  <2>2. QED
    BY <2>1 DEF DiskKept, OnDisk
<1>2. CASE Next
  <2>1. SUFFICES ASSUME ~CutOff,
                        \A m \in Months : archives[m] \subseteq archives'[m]
                 PROVE  OnDisk \subseteq OnDisk'
    BY DEF DiskKept
  <2>2. \/ file' = file
        \/ file.state # "whole"
        \/ running /\ file' = [state |-> "whole", content |-> Saved, month |-> month]
    BY <1>2, <2>1, FileChanges
  <2>3. ASSUME NEW n \in OnDisk PROVE n \in OnDisk'
    <3>1. n \in OnDisk' <=>
            \/ \E m \in Months : n \in archives'[m]
            \/ file'.state = "whole" /\ \E r \in ToSet(file'.content) : r.n = n
      <4>1. n \in UNION {archives'[m] : m \in Months} <=> \E m \in Months : n \in archives'[m]
        OBVIOUS
      <4>2. n \in Serials(file'.content) <=> \E r \in ToSet(file'.content) : r.n = n
        BY DEF Serials
      <4>3. QED
        BY <4>1, <4>2 DEF OnDisk, Serials
    <3>2. CASE \E m \in Months : n \in archives[m]
      BY <2>1, <3>1, <3>2
    <3>3. CASE file.state = "whole" /\ \E r \in ToSet(file.content) : r.n = n
      <4>1. CASE file' = file
        BY <3>1, <3>3, <4>1
      <4>2. CASE running /\ file' = [state |-> "whole", content |-> Saved, month |-> month]
        <5>1. ToSet(file'.content) = Elements /\ file'.state = "whole"
          BY <4>2, FilesFit
        <5>2. \/ \E e \in Elements : e.n = n
              \/ \E m \in Months : n \in archives[m]
          BY <3>3, <4>2 DEF ListInv, ReadIsKept
        <5>3. QED
          BY <2>1, <3>1, <5>1, <5>2
      <4>3. QED
        BY <2>2, <3>3, <4>1, <4>2
    <3>4. QED
      BY <2>3, <3>2, <3>3, OnDiskHas
  <2>4. QED
    BY <2>3
<1>3. QED
  BY <1>1, <1>2

\* A step of the program does not write the archive of a month again, unless
\* the program ended between closing a month and saving the main log.
WrittenOnce ==
  \A m \in Months \ {0} :
    archives[m] # {} /\ archives'[m] # archives[m] => history.died

\* The month that is over has no archive yet.
LEMMA WrittenOnceStep ==
  ASSUME ListInv, [Next]_vars
  PROVE  WrittenOnce
<1>1. CASE UNCHANGED vars
  BY <1>1 DEF vars, WrittenOnce
<1>2. CASE Next
  <2>1. SUFFICES ASSUME NEW m \in Months \ {0}, archives[m] # {},
                        archives'[m] # archives[m], ~history.died
                 PROVE  FALSE
    BY Zenon DEF WrittenOnce
  <2>2. m = last_saved_time
    BY <1>2, <2>1, ArchivesChange
  <2>3. m < last_saved_time
    BY <2>1, <2>2 DEF ListInv, MonthsClosed
  <2>4. m \in Int
    BY DEF Months
  <2>5. QED
    BY <2>2, <2>3, <2>4
<1>3. QED
  BY <1>1, <1>2

\* The small instance's steps: of the list, or of the windows.
LEMMA MCSteps ==
  ASSUME [MCNext]_<<vars, logwindow, watched>>
  PROVE  [Next]_vars /\ [LogWindowNext]_logwindow
<1>1. CASE MCNext
  BY <1>1 DEF MCNext
<1>2. CASE UNCHANGED <<vars, logwindow, watched>>
  BY <1>2
<1>3. QED
  BY <1>1, <1>2

LogInv == ListInv /\ WindowInv

\* What the run starts in, and what its steps keep.
LEMMA LogInvHolds == MCSpec => []LogInv
<1>1. MCInit => LogInv
  BY ListInvInit, WindowInvInit DEF MCInit, LogInv
<1>2. LogInv /\ [MCNext]_<<vars, logwindow, watched>> => LogInv'
  BY MCSteps, ListInvStep, WindowInvStep DEF LogInv
<1>3. QED
  BY <1>1, <1>2, PTL DEF MCSpec

\* The list in memory with its filter and its order of time, and the windows
\* with the log's pointers, agree in every state: as long as the list hides
\* something, the filter that was accepted tells what is shown, whatever was
\* logged since; the ids grow with the time; the report tells what it wrote.
THEOREM LogIsSound == MCSpec => []LogSound
<1>1. LogInv => LogSound
  BY ListInvSound, WindowInvSound DEF LogInv, LogSound
<1>2. QED
  BY <1>1, LogInvHolds, PTL

\* Whatever month passes, write fails, or crash comes in a rotation or a save:
\* a record on disk leaves it only with a write of the main log that was cut
\* short or with an archive that is written again - never with a save that ends,
\* of an empty list either -, and the archive of a month is written once unless
\* the program ended between closing the month and saving the main log.
THEOREM FilesAreSound == MCSpec => FilesSound
<1>1. LogInv /\ [MCNext]_<<vars, logwindow, watched>> => [DiskKept]_vars /\ [WrittenOnce]_vars
  BY MCSteps, DiskKeptStep, WrittenOnceStep DEF LogInv
<1>2. MCSpec => [][DiskKept]_vars /\ [][WrittenOnce]_vars
  BY <1>1, LogInvHolds, PTL DEF MCSpec
<1>3. ([][DiskKept]_vars) => DiskKeeps
  BY PTL DEF DiskKept, DiskKeeps
<1>4. ([][WrittenOnce]_vars) => ArchivedOnce
  BY PTL DEF WrittenOnce, ArchivedOnce
<1>5. QED
  BY <1>2, <1>3, <1>4, PTL DEF FilesSound

\* What OK in the filter's dialog accepts is what the user chose there: the
\* rows that are marked in the list of devices, or all of them, or everything
\* if the stations were not to be looked at.
THEOREM WhatIsChosenIsShown == MCSpec => ChosenIsShown
<1>1. LogInv /\ [MCNext]_<<vars, logwindow, watched>> => [ShownAsChosen]_logwindow
  BY MCSteps, ShownAsChosenStep DEF LogInv
<1>2. MCSpec => [][ShownAsChosen]_logwindow
  BY <1>1, LogInvHolds, PTL DEF MCSpec
<1>3. ([][ShownAsChosen]_logwindow) => ChosenIsShown
  BY PTL DEF ShownAsChosen, ChosenIsShown
<1>4. QED
  BY <1>2, <1>3, PTL

-----------------------------------------------------------------------------
(***************************************************************************)
(* What the storage and the generator keep                                 *)
(***************************************************************************)

\* What the storage is told of a channel, the failures counted, and the calls
\* that took a channel too many.
StorageCounts ==
  /\ vague \in Nat
  /\ message_to_send.channel \in Channels \cup {0}
  /\ stage \in {"pid", "tid"} => message_to_send = Nothing
  /\ stage # "ended" => failures_count <= MAX_FAILURES_COUNT

StorageInv == StorageSound /\ StorageCounts

Messages == {"none", "header", "A", "B", "P", "FREED", "FREED P", "ERROR"} \cup Checks

\* The command that stands when the automaton is in a state.
CommandOf(state) == IF state = "CALL_CONTINUE" THEN "OCCUPATE_P" ELSE Code(state)

GeneratorTypes ==
  /\ storage \in {"pid", "tid", "serving", "ended"} /\ generator \in {"start", "runs", "done"}
  /\ failures \in 0 .. (STORAGE_MAX_FAILURES + 1) /\ turn \in 0 .. 5
  /\ mock_counter \in 0 .. (MOCK_MAX_COUNTER + 1)
  /\ A0_state \in States /\ x1 \in BOOLEAN /\ x2 \in BOOLEAN /\ x3 \in BOOLEAN
  /\ held \subseteq {"A", "B", "P"}
  /\ message \in Messages
  /\ call.ended_by \in {"none", "FREE_A", "FREE_B"} /\ call.checked \in BOOLEAN
  /\ call.stuck \in BOOLEAN /\ call.broken \in BOOLEAN
  /\ call = [ended_by |-> call.ended_by, checked |-> call.checked, stuck |-> call.stuck,
             broken |-> call.broken]
  /\ storage # "ended" => failures <= STORAGE_MAX_FAILURES

\* What the flags are in each state.
FlagsOfState ==
  /\ A0_state = "OCCUPATE_CH_B_SIDE_A" => ~x1 /\ ~x2
  /\ A0_state = "OCCUPATE_CH_B_SIDE_B" => x1 /\ ~x2
  /\ A0_state = "OCCUPATE_CALL_POINTER" => x1 /\ x2
  /\ A0_state = "CALL_CONTINUE" => x1 /\ x2 /\ x3
  /\ A0_state = "FREE_CH_B_SIDE_A" => x1
  /\ A0_state = "FREE_CH_B_SIDE_B" => x1 /\ x2 /\ x3
  /\ A0_state = "FREE_CALL_POINTER" => ~x1 /\ ~x2 /\ x3

\* What is asked, and what is answered, belongs to the state.
RequestOfState ==
  /\ command_to_storage.code = CommandOf(A0_state)
  /\ message = "none" =>
       \/ request.code = CommandOf(A0_state)
       \/ request = Check /\ A0_state = "CALL_CONTINUE"
AnswerOfState ==
  /\ message = "A" => A0_state = "OCCUPATE_CH_B_SIDE_A"
  /\ message = "B" => A0_state = "OCCUPATE_CH_B_SIDE_B"
  /\ message = "P" => A0_state \in {"OCCUPATE_CALL_POINTER", "CALL_CONTINUE"}
  /\ message = "FREED" => A0_state \in Frees
  /\ message = "FREED P" => A0_state = "FREE_CALL_POINTER"
  /\ message = "ERROR" => A0_state \notin {"OCCUPATE_CALL_POINTER", "CALL_CONTINUE"}
  /\ message \in Checks => A0_state = "CALL_CONTINUE"

\* How a call whose messages all arrived has ended, and what it has.
EndedBy ==
  /\ A0_state \notin Frees \cup {"FREE_CALL_POINTER"} => call.ended_by = "none"
  /\ A0_state = "FREE_CH_B_SIDE_B" => call.ended_by = "FREE_B"
  /\ A0_state = "FREE_CH_B_SIDE_A" =>
       /\ call.ended_by # "none" => x3
       /\ call.ended_by # "FREE_A" => ~x2
HasA ==
  "A" \in held <=>
    \/ A0_state = "OCCUPATE_CH_B_SIDE_A" /\ message = "A"
    \/ A0_state \in {"OCCUPATE_CH_B_SIDE_B", "OCCUPATE_CALL_POINTER", "CALL_CONTINUE",
                     "FREE_CH_B_SIDE_B"}
    \/ A0_state = "FREE_CH_B_SIDE_A" /\ message # "FREED" /\ (call.ended_by = "FREE_A" => x2)
HasB ==
  "B" \in held <=>
    \/ A0_state = "OCCUPATE_CH_B_SIDE_B" /\ message = "B"
    \/ A0_state \in {"OCCUPATE_CALL_POINTER", "CALL_CONTINUE"}
    \/ A0_state = "FREE_CH_B_SIDE_B" /\ message # "FREED"
    \/ A0_state \in {"FREE_CH_B_SIDE_A", "FREE_CALL_POINTER"} /\ call.ended_by = "FREE_A"
HasP ==
  /\ A0_state # "FREE_CALL_POINTER" =>
       ("P" \in held <=>
          \/ A0_state = "OCCUPATE_CALL_POINTER" /\ message = "P"
          \/ A0_state = "CALL_CONTINUE"
          \/ A0_state \in Frees /\ call.ended_by # "none")
  /\ A0_state = "FREE_CALL_POINTER" /\ "P" \in held =>
       /\ message = "FREED P" => call.checked
       /\ message = "ERROR" => call.stuck
Pointed ==
  /\ A0_state = "CALL_CONTINUE" => call.checked
  /\ A0_state \in {"OCCUPATE_CALL_POINTER", "FREE_CALL_POINTER"} /\ message = "none" =>
       request.at = current_call_pointer
  /\ "P" \in held /\ ~call.checked => current_call_pointer = pointer_at

\* While the storage registers, nothing is asked of it yet.
Registering ==
  storage \in {"pid", "tid"} =>
    A0_state = "OCCUPATE_CH_B_SIDE_A" /\ message \in {"header", "none"}

Unbroken ==
  ~call.broken =>
    /\ message = "header" => A0_state = "OCCUPATE_CH_B_SIDE_A"
    /\ EndedBy /\ HasA /\ HasB /\ HasP /\ Pointed

GeneratorInv ==
  /\ GeneratorTypes /\ FlagsOfState /\ RequestOfState /\ AnswerOfState /\ Registering
  /\ Unbroken
-----------------------------------------------------------------------------
(***************************************************************************)
(* Trunk groups and channels                                               *)
(***************************************************************************)

\* Where the trunk groups that may lead a call go.
LEMMA Outgoing ==
  /\ TrunkGroups = 1 .. 6
  /\ \A g \in TrunkGroups : TRUNK_GROUP[g].inout \in {2, 3} => g \in {2, 3, 5, 6}
  /\ TRUNK_GROUP[2].direction = 1 /\ TRUNK_GROUP[3].direction = 1
  /\ TRUNK_GROUP[5].direction = 2 /\ TRUNK_GROUP[6].direction = 2
  /\ TRUNK_GROUP[2].slzsl = 1 /\ TRUNK_GROUP[3].slzsl = 2
  /\ TRUNK_GROUP[5].slzsl = 1 /\ TRUNK_GROUP[6].slzsl = 2
<1>1. TrunkGroups = 1 .. 6
  BY DEF TrunkGroups, TRUNK_GROUP
<1>2. \A g \in 1 .. 6 : TRUNK_GROUP[g].inout \in {2, 3} => g \in {2, 3, 5, 6}
  <2>1. TRUNK_GROUP[1].inout = 1 /\ TRUNK_GROUP[4].inout = 1
    BY DEF TRUNK_GROUP
  <2>2. \A g \in 1 .. 6 : g \in {1, 2, 3, 4, 5, 6}
    OBVIOUS
  <2>3. QED
    BY <2>1, <2>2
<1>3. /\ TRUNK_GROUP[2].direction = 1 /\ TRUNK_GROUP[3].direction = 1
      /\ TRUNK_GROUP[5].direction = 2 /\ TRUNK_GROUP[6].direction = 2
  BY DEF TRUNK_GROUP
<1>4. /\ TRUNK_GROUP[2].slzsl = 1 /\ TRUNK_GROUP[3].slzsl = 2
      /\ TRUNK_GROUP[5].slzsl = 1 /\ TRUNK_GROUP[6].slzsl = 2
  BY DEF TRUNK_GROUP
<1>5. QED
  BY <1>1, <1>2, <1>3, <1>4

\* The channels of the trunk groups are apart, and their numbers are not 0.
LEMMA ChannelsHas ==
  /\ \A g \in TrunkGroups :
       /\ ChannelsOf[g] \subseteq Nat \ {0} /\ ChannelsOf[g] \subseteq Channels
       /\ IsFiniteSet(ChannelsOf[g]) /\ b_total(g) \in Nat /\ b_total(g) > 1
       /\ first_channel_b_id(g) \in ChannelsOf[g]
  /\ \A g, h \in TrunkGroups : g # h => ChannelsOf[g] \cap ChannelsOf[h] = {}
  /\ \A c \in Channels : \E g \in TrunkGroups : c \in ChannelsOf[g]
  /\ 0 \notin Channels /\ Channels \subseteq Nat /\ IsFiniteSet(Channels)
<1>1. ASSUME NEW g \in TrunkGroups
      PROVE  /\ ChannelsOf[g] \subseteq Nat \ {0}
             /\ IsFiniteSet(ChannelsOf[g]) /\ b_total(g) \in Nat /\ b_total(g) > 1
             /\ first_channel_b_id(g) \in ChannelsOf[g]
  <2>1. ChannelsOf[g] \subseteq Nat \ {0}
    BY ChannelsAssumption
  <2>2. IsFiniteSet(ChannelsOf[g]) /\ Cardinality(ChannelsOf[g]) > 1
    BY ChannelsAssumption
  <2>3. Cardinality(ChannelsOf[g]) \in Nat /\ ChannelsOf[g] # {}
    BY <2>2, FS_CardinalityType, FS_EmptySet
  <2>4. \E x \in ChannelsOf[g] : \A y \in ChannelsOf[g] : x <= y
    BY <2>1, <2>3, Least
  <2>5. first_channel_b_id(g) \in ChannelsOf[g]
    BY <2>4 DEF first_channel_b_id, Min
  <2>6. QED
    BY <2>1, <2>2, <2>3, <2>5 DEF b_total
<1>2. \A g, h \in TrunkGroups : g # h => ChannelsOf[g] \cap ChannelsOf[h] = {}
  BY ChannelsAssumption
<1>3. \A c : c \in Channels <=> \E g \in TrunkGroups : c \in ChannelsOf[g]
  BY DEF Channels
<1>4. IsFiniteSet(Channels)
  <2>1. Channels = ChannelsOf[1] \cup ChannelsOf[2] \cup ChannelsOf[3]
                     \cup ChannelsOf[4] \cup ChannelsOf[5] \cup ChannelsOf[6]
    <3>1. \A g : g \in 1 .. 6 <=> g \in {1, 2, 3, 4, 5, 6}
      OBVIOUS
    <3>2. QED
      BY <1>3, <3>1, Outgoing
  <2>2. /\ IsFiniteSet(ChannelsOf[1]) /\ IsFiniteSet(ChannelsOf[2]) /\ IsFiniteSet(ChannelsOf[3])
        /\ IsFiniteSet(ChannelsOf[4]) /\ IsFiniteSet(ChannelsOf[5]) /\ IsFiniteSet(ChannelsOf[6])
    BY <1>1, Outgoing
  <2>3. IsFiniteSet(ChannelsOf[1] \cup ChannelsOf[2] \cup ChannelsOf[3])
    BY <2>2, FS_Union
  <2>4. IsFiniteSet(ChannelsOf[1] \cup ChannelsOf[2] \cup ChannelsOf[3]
                     \cup ChannelsOf[4] \cup ChannelsOf[5])
    BY <2>2, <2>3, FS_Union
  <2>5. QED
    BY <2>1, <2>2, <2>4, FS_Union
<1>5. QED
  BY <1>1, <1>2, <1>3, <1>4

\* A call for side B.
SideB == {r \in Bodies : r.code = "OCCUPATE_CHANNEL_B_SIDE_B"}

\* It has a destination, and what local or long distance means.
LEMMA SideBHas ==
  ASSUME NEW r \in SideB
  PROVE  r.destination \in Destinations /\ r.mg \in 0 .. 2
<1>1. CASE r \in [code : {"OCCUPATE_CHANNEL_B_SIDE_B"}, destination : Destinations, mg : 0 .. 2,
                  priority : Priorities, isdn : {0, 3}]
  BY <1>1
<1>2. CASE r \in [code : {"OCCUPATE_CHANNEL_B_SIDE_A", "FREE_CHANNEL_B",
                          "OCCUPATE_CALL_POINTER", "FREE_CALL_POINTER"}, channel : Asked]
  BY <1>2 DEF SideB
<1>3. CASE r \in [code : {"QUERY_STATE_OF_CHANNEL_B", "ANY OTHER", "NO BODY"}]
  BY <1>3 DEF SideB
<1>4. QED
  BY <1>1, <1>2, <1>3 DEF SideB, Bodies

\* Two trunk groups lead a call that is neither local nor long distance, and one
\* any other.
LEMMA EligibleFew ==
  ASSUME NEW r \in SideB, Eligible(r) # {}
  PROVE  /\ Eligible(r) \subseteq TrunkGroups /\ Max(Eligible(r)) \in Eligible(r)
         /\ \E h \in TrunkGroups : Eligible(r) \subseteq {Max(Eligible(r)), h}
         /\ r.mg # 2 => Eligible(r) = {Max(Eligible(r))}
<1> DEFINE E == Eligible(r)
           d == r.destination % 256
<1>1. d \in {1, 2, 3}
  <2>1. \A n \in Destinations : n % 256 \in {1, 2, 3}
    <3>1. 1 % 256 = 1 /\ 2 % 256 = 2 /\ 3 % 256 = 3 /\ 257 % 256 = 1
      OBVIOUS
    <3>2. QED
      BY <3>1 DEF Destinations
  <2>2. QED
    BY <2>1, SideBHas
<1>2. E \subseteq TrunkGroups
  BY DEF Eligible
<1>3. \A g \in E : TRUNK_GROUP[g].direction = d /\ TRUNK_GROUP[g].inout \in {2, 3}
  <2>1. SUFFICES ASSUME NEW g \in E
                 PROVE  TRUNK_GROUP[g].direction = d /\ TRUNK_GROUP[g].inout \in {2, 3}
    OBVIOUS
  <2>2. /\ TRUNK_GROUP[g].direction \in {q.direction : q \in {e \in DIRECTION_DESTINATION :
                                                              e.destination = d}}
        /\ TRUNK_GROUP[g].inout \in {2, 3}
    BY DEF Eligible
  <2>3. \A q \in DIRECTION_DESTINATION : q.direction = q.destination
    BY DEF DIRECTION_DESTINATION
  <2>4. QED
    BY <2>2, <2>3
<1>4. \A g \in E : /\ r.mg = 1 => TRUNK_GROUP[g].slzsl \in {2, 3}
                   /\ r.mg = 0 => TRUNK_GROUP[g].slzsl \in {1, 3}
  BY DEF Eligible
<1> HIDE DEF E, d
<1>5. E \subseteq {2, 3, 5, 6}
  BY <1>2, <1>3, Outgoing
<1>6. E \subseteq {2, 3} \/ E \subseteq {5, 6}
  BY <1>1, <1>3, <1>5, Outgoing
<1>7. r.mg # 2 => E = {2} \/ E = {3} \/ E = {5} \/ E = {6}
  <2>1. SUFFICES ASSUME r.mg # 2 PROVE E = {2} \/ E = {3} \/ E = {5} \/ E = {6}
    OBVIOUS
  <2>2. r.mg = 0 \/ r.mg = 1
    BY <2>1, SideBHas
  <2>3. E # {}
    BY DEF E
  <2>4. CASE r.mg = 0
    BY <1>4, <1>6, <2>3, <2>4, Outgoing
  <2>5. CASE r.mg = 1
    BY <1>4, <1>6, <2>3, <2>5, Outgoing
  <2>6. QED
    BY <2>2, <2>4, <2>5
<1>8. \E x \in E : \A y \in E : x >= y
  <2>1. E # {}
    BY DEF E
  <2>2. ASSUME NEW a \in Nat, E \subseteq {a, a + 1} PROVE \E x \in E : \A y \in E : x >= y
    <3>1. CASE a + 1 \in E
      <4>1. \A y \in E : a + 1 >= y
        BY <2>2
      <4>2. QED
        BY <3>1, <4>1
    <3>2. CASE a + 1 \notin E
      <4>1. \A y \in E : y = a
        BY <2>2, <3>2
      <4>2. a \in E
        BY <2>1, <4>1
      <4>3. a >= a
        OBVIOUS
      <4>4. QED
        BY <4>1, <4>2, <4>3
    <3>3. QED
      BY <3>1, <3>2
  <2>3. E \subseteq {2, 2 + 1} \/ E \subseteq {5, 5 + 1}
    BY <1>6
  <2>4. QED
    BY <2>2, <2>3
<1>9. Max(E) \in E
  BY <1>8 DEF Max
<1>10. \E h \in TrunkGroups : E \subseteq {Max(E), h}
  <2>1. {2, 3, 5, 6} \subseteq TrunkGroups
    BY Outgoing
  <2>2. QED
    BY <1>6, <1>9, <2>1
<1>11. r.mg # 2 => E = {Max(E)}
  BY <1>7, <1>9
<1>12. QED
  BY <1>2, <1>9, <1>10, <1>11 DEF E

-----------------------------------------------------------------------------
(***************************************************************************)
(* Channels are given                                                      *)
(***************************************************************************)

\* The next free channel of a trunk group that has one is not its first one,
\* and nobody has it.
LEMMA NextFreeHas ==
  ASSUME NEW g \in TrunkGroups, Searched(g) # {}
  PROVE  NextFree(g) \in Searched(g)
<1> DEFINE behind == {c \in Searched(g) : c > last_occupied_channel_b[g]}
           S == IF behind = {} THEN Searched(g) ELSE behind
<1>1. Searched(g) \subseteq Nat
  BY ChannelsHas DEF Searched
<1>2. S \subseteq Searched(g) /\ S # {}
  OBVIOUS
<1> HIDE DEF S
<1>3. \E x \in S : \A y \in S : x <= y
  BY <1>1, <1>2, Least
<1>4. Min(S) \in S
  BY <1>3 DEF Min
<1>5. NextFree(g) = Min(S)
  BY DEF NextFree, S
<1>6. QED
  BY <1>2, <1>4, <1>5

\* What a call takes.
LEMMA TakesHas ==
  ASSUME NEW r \in SideB, Eligible(r) # {}, \A g \in Eligible(r) : Searched(g) # {}
  PROVE  /\ \A g \in Eligible(r) : Takes(r) \cap ChannelsOf[g] = {NextFree(g)}
         /\ \A g \in TrunkGroups \ Eligible(r) : Takes(r) \cap ChannelsOf[g] = {}
         /\ \A g \in Eligible(r) : /\ NextFree(g) \in ChannelsOf[g] \ {first_channel_b_id(g)}
                                   /\ holder[NextFree(g)] = Free
         /\ \A c \in Takes(r) : c \in Channels /\ holder[c] = Free
<1>1. Eligible(r) \subseteq TrunkGroups
  BY EligibleFew
<1>2. \A g \in Eligible(r) : /\ NextFree(g) \in ChannelsOf[g] \ {first_channel_b_id(g)}
                             /\ holder[NextFree(g)] = Free
  <2>1. ASSUME NEW g \in Eligible(r) PROVE NextFree(g) \in Searched(g)
    BY <1>1, NextFreeHas
  <2>2. QED
    BY <2>1 DEF Searched
<1>3. \A g \in Eligible(r) : NextFree(g) \in Channels
  BY <1>1, <1>2, ChannelsHas
<1>4. \A c : c \in Takes(r) <=> \E g \in Eligible(r) : c = NextFree(g)
  BY DEF Takes
<1>5. \A h \in TrunkGroups, g \in Eligible(r) : NextFree(g) \in ChannelsOf[h] => g = h
  BY <1>1, <1>2, ChannelsHas
<1>6. ASSUME NEW g \in Eligible(r) PROVE Takes(r) \cap ChannelsOf[g] = {NextFree(g)}
  BY <1>1, <1>2, <1>4, <1>5
<1>7. ASSUME NEW g \in TrunkGroups \ Eligible(r) PROVE Takes(r) \cap ChannelsOf[g] = {}
  BY <1>4, <1>5
<1>8. QED
  BY <1>2, <1>3, <1>4, <1>6, <1>7

\* The counters when channels are taken: the same channels are held as before,
\* and the taken ones; the first one is never taken, so that a trunk group is
\* never full and the counter never stops short.
LEMMA OccupyCounts ==
  ASSUME StorageInv, NEW r \in SideB, NEW client \in Clients, Eligible(r) # {},
         \A g \in Eligible(r) : Searched(g) # {},
         Occupy(Takes(r), client)
  PROVE  UsedCounted'
<1> DEFINE taken == Takes(r)
<1>1. /\ holder' = [c \in Channels |-> IF c \in taken THEN client ELSE holder[c]]
      /\ b_used' = Used(taken)
      /\ last_occupied_channel_b' = [g \in TrunkGroups |->
           IF taken \cap ChannelsOf[g] = {} THEN last_occupied_channel_b[g]
           ELSE Min(taken \cap ChannelsOf[g])]
      /\ overuse' = [g \in TrunkGroups |->
           IF overuse[g] = 0 /\ Overused(g, Used(taken)[g]) THEN 1 ELSE overuse[g]]
  BY DEF Occupy
<1>2. client # Free
  BY DEF Clients, UIDs, Free
<1>3. ASSUME NEW g \in TrunkGroups
      PROVE  /\ b_used'[g] = Cardinality(Occupied(g)')
             /\ first_channel_b_id(g) \notin Occupied(g)'
             /\ last_occupied_channel_b'[g] \in Occupied(g)' \cup {0}
  <2>1. /\ b_used[g] = Cardinality(Occupied(g))
        /\ first_channel_b_id(g) \notin Occupied(g)
        /\ last_occupied_channel_b[g] \in Occupied(g) \cup {0}
    BY DEF StorageInv, StorageSound, UsedCounted
  <2>2. /\ ChannelsOf[g] \subseteq Channels /\ IsFiniteSet(ChannelsOf[g])
        /\ b_total(g) \in Nat /\ b_total(g) > 1 /\ first_channel_b_id(g) \in ChannelsOf[g]
    BY ChannelsHas
  <2>3. Occupied(g)' = Occupied(g) \cup (taken \cap ChannelsOf[g])
    <3>1. Occupied(g)' = {c \in ChannelsOf[g] : holder'[c] # Free}
      BY DEF Occupied
    <3>2. \A c \in ChannelsOf[g] : holder'[c] = IF c \in taken THEN client ELSE holder[c]
      BY <1>1, <2>2
    <3>3. QED
      BY <1>2, <3>1, <3>2 DEF Occupied
  <2>4. Used(taken)[g] = IF taken \cap ChannelsOf[g] # {} /\ b_used[g] < b_total(g)
                         THEN b_used[g] + 1 ELSE b_used[g]
    BY DEF Used
  <2>5. /\ IsFiniteSet(Occupied(g)) /\ Cardinality(Occupied(g)) \in Nat
        /\ Cardinality(Occupied(g)) < b_total(g)
    <3>1. /\ IsFiniteSet(Occupied(g)) /\ Cardinality(Occupied(g)) <= Cardinality(ChannelsOf[g])
          /\ Cardinality(ChannelsOf[g]) = Cardinality(Occupied(g)) => ChannelsOf[g] = Occupied(g)
      <4>1. Occupied(g) \in SUBSET ChannelsOf[g]
        BY DEF Occupied
      <4>2. QED
        BY <2>2, <4>1, FS_Subset
    <3>2. Cardinality(Occupied(g)) \in Nat
      BY <3>1, FS_CardinalityType
    <3>3. Cardinality(ChannelsOf[g]) # Cardinality(Occupied(g))
      BY <2>1, <2>2, <3>1
    <3>4. QED
      BY <2>2, <3>1, <3>2, <3>3 DEF b_total
  <2>6. CASE g \in Eligible(r)
    <3>1. taken \cap ChannelsOf[g] = {NextFree(g)}
      BY <2>6, TakesHas
    <3>2. NextFree(g) \in ChannelsOf[g] \ {first_channel_b_id(g)} /\ holder[NextFree(g)] = Free
      BY <2>6, TakesHas
    <3>3. NextFree(g) \notin Occupied(g)
      BY <3>2 DEF Occupied
    <3>4. Cardinality(Occupied(g)') = Cardinality(Occupied(g)) + 1
      <4>1. Cardinality(Occupied(g) \cup {NextFree(g)}) = Cardinality(Occupied(g)) + 1
        BY <2>5, <3>3, FS_AddElement
      <4>2. Occupied(g)' = Occupied(g) \cup {NextFree(g)}
        BY <2>3, <3>1
      <4>3. QED
        BY <4>1, <4>2
    <3>5. Used(taken)[g] = b_used[g] + 1
      <4>1. {NextFree(g)} # {}
        OBVIOUS
      <4>2. QED
        BY <2>1, <2>4, <2>5, <3>1, <4>1
    <3>6. last_occupied_channel_b'[g] = NextFree(g)
      <4>1. last_occupied_channel_b'[g] = Min({NextFree(g)})
        BY <1>1, <3>1
      <4>2. NextFree(g) \in Nat
        BY <3>2, ChannelsHas
      <4>3. \E x \in {NextFree(g)} : \A y \in {NextFree(g)} : x <= y
        BY <4>2
      <4>4. Min({NextFree(g)}) \in {NextFree(g)}
        BY <4>3 DEF Min
      <4>5. QED
        BY <4>1, <4>4
    <3>7. NextFree(g) \in Occupied(g)' /\ first_channel_b_id(g) \notin Occupied(g)'
      BY <2>1, <2>3, <3>1, <3>2
    <3>8. QED
      BY <1>1, <2>1, <3>4, <3>5, <3>6, <3>7
  <2>7. CASE g \notin Eligible(r)
    <3>1. taken \cap ChannelsOf[g] = {}
      BY <2>7, TakesHas
    <3>2. Occupied(g)' = Occupied(g) /\ Used(taken)[g] = b_used[g]
      BY <2>3, <2>4, <3>1
    <3>3. last_occupied_channel_b'[g] = last_occupied_channel_b[g]
      BY <1>1, <3>1
    <3>4. b_used'[g] = b_used[g]
      BY <1>1, <3>2
    <3>5. QED
      BY <2>1, <3>2, <3>3, <3>4
  <2>8. QED
    BY <2>6, <2>7
<1>4. QED
  BY <1>3 DEF UsedCounted, first_channel_b_id

\* The database after a request, and what its answer says of it: the types, the
\* counters, nothing is taken away, and a channel newly held is the one that is
\* told, but for one of a call that is neither local nor long distance.
DatabaseTyped ==
  /\ holder \in [Channels -> Clients \cup {Free}]
  /\ b_used \in [TrunkGroups -> Nat] /\ overuse \in [TrunkGroups -> 0 .. 1]
  /\ last_occupied_channel_b \in [TrunkGroups -> Channels \cup {0}]
  /\ counter \in 0 .. (MaxCounter + 1)

GivenKept == \A c \in Channels : holder[c] # Free => holder'[c] = holder[c]

\* A channel that the answer names was free, and is the client's.
NamedNew(client) ==
  message_to_send'.channel # 0 =>
    holder[message_to_send'.channel] = Free /\ holder'[message_to_send'.channel] = client

ToldBut(mg) ==
  \/ database' = database
  \/ /\ database' # database
     /\ \A c \in Channels : holder'[c] # Free /\ holder[c] = Free =>
          c = message_to_send'.channel \/ mg = 2
     /\ \E x \in Channels : \A c \in Channels :
          holder'[c] # Free /\ holder[c] = Free => c \in {message_to_send'.channel, x}

\* The types of the database are among the types.
LEMMA StorageInvTyped == StorageInv => DatabaseTyped
  BY DEF StorageInv, StorageSound, StorageTypes, DatabaseTyped

\* Channels are given.
LEMMA OccupyGives ==
  ASSUME StorageInv, NEW r \in SideB, NEW client \in Clients, Eligible(r) # {},
         \A g \in Eligible(r) : Searched(g) # {},
         Occupy(Takes(r), client), message_to_send'.channel = Named(r),
         counter' = counter
  PROVE  /\ DatabaseTyped' /\ UsedCounted' /\ GivenKept /\ ToldBut(r.mg)
         /\ message_to_send'.channel \in Channels /\ NamedNew(client)
<1> DEFINE taken == Takes(r)
<1>1. /\ holder' = [c \in Channels |-> IF c \in taken THEN client ELSE holder[c]]
      /\ b_used' = Used(taken)
      /\ last_occupied_channel_b' = [g \in TrunkGroups |->
           IF taken \cap ChannelsOf[g] = {} THEN last_occupied_channel_b[g]
           ELSE Min(taken \cap ChannelsOf[g])]
      /\ overuse' = [g \in TrunkGroups |->
           IF overuse[g] = 0 /\ Overused(g, Used(taken)[g]) THEN 1 ELSE overuse[g]]
  BY DEF Occupy
<1>2. client # Free /\ client \in Clients
  BY DEF Clients, UIDs, Free
<1>3. DatabaseTyped /\ UsedCounted
  BY StorageInvTyped DEF StorageInv, StorageSound
<1>4. UsedCounted'
  BY OccupyCounts
<1>5. \A c \in taken : c \in Channels /\ holder[c] = Free
  BY TakesHas
<1>6. holder' \in [Channels -> Clients \cup {Free}]
  BY <1>1, <1>2, <1>3 DEF DatabaseTyped
<1>7. b_used' \in [TrunkGroups -> Nat]
  <2>1. Used(taken) = [g \in TrunkGroups |->
          IF taken \cap ChannelsOf[g] # {} /\ b_used[g] < b_total(g)
          THEN b_used[g] + 1 ELSE b_used[g]]
    BY DEF Used
  <2>2. \A g \in TrunkGroups : b_used[g] \in Nat
    BY <1>3 DEF DatabaseTyped
  <2>3. QED
    BY <1>1, <2>1, <2>2
<1>8. overuse' \in [TrunkGroups -> 0 .. 1]
  <2>1. \A g \in TrunkGroups : overuse[g] \in 0 .. 1
    BY <1>3 DEF DatabaseTyped
  <2>2. 1 \in 0 .. 1
    OBVIOUS
  <2>3. QED
    BY <1>1, <2>1, <2>2
<1>9. last_occupied_channel_b' \in [TrunkGroups -> Channels \cup {0}]
  <2>1. ASSUME NEW g \in TrunkGroups PROVE last_occupied_channel_b'[g] \in Channels \cup {0}
    <3>1. last_occupied_channel_b'[g] \in Occupied(g)' \cup {0}
      BY <1>4 DEF UsedCounted, first_channel_b_id
    <3>2. Occupied(g)' \subseteq Channels
      BY ChannelsHas DEF Occupied
    <3>3. QED
      BY <3>1, <3>2
  <2>2. \E f : last_occupied_channel_b' = [g \in TrunkGroups |-> f[g]]
    <3> DEFINE f == [g \in TrunkGroups |->
           IF taken \cap ChannelsOf[g] = {} THEN last_occupied_channel_b[g]
           ELSE Min(taken \cap ChannelsOf[g])]
    <3>1. last_occupied_channel_b' = f /\ f = [g \in TrunkGroups |-> f[g]]
      BY <1>1
    <3>2. QED
      BY <3>1
  <2>3. QED
    BY <2>1, <2>2
<1>10. GivenKept
  BY <1>1, <1>5 DEF GivenKept
<1>11. \A c \in Channels : holder'[c] # Free /\ holder[c] = Free => c \in taken
  BY <1>1
<1>12. \A g \in Eligible(r) : NextFree(g) \in taken
  BY DEF Takes
<1>13. Max(Eligible(r)) \in Eligible(r)
  BY EligibleFew
<1>14. message_to_send'.channel \in taken
  BY <1>12, <1>13 DEF Named
<1>15. database' # database
  <2>1. holder'[message_to_send'.channel] = client /\ holder[message_to_send'.channel] = Free
    BY <1>1, <1>5, <1>14
  <2>2. holder' # holder
    BY <1>2, <2>1
  <2>3. QED
    BY <2>2 DEF database
<1>16. r.mg # 2 => taken = {message_to_send'.channel}
  <2>1. SUFFICES ASSUME r.mg # 2 PROVE taken = {message_to_send'.channel}
    OBVIOUS
  <2>2. Eligible(r) = {Max(Eligible(r))}
    BY <2>1, EligibleFew
  <2>3. QED
    BY <2>2 DEF Takes, Named
<1>17. \E x \in Channels : taken \subseteq {message_to_send'.channel, x}
  <2>1. PICK h \in TrunkGroups : Eligible(r) \subseteq {Max(Eligible(r)), h}
    BY EligibleFew
  <2>2. taken \subseteq {message_to_send'.channel, NextFree(h)}
    BY <2>1 DEF Takes, Named
  <2>3. CASE NextFree(h) \in Channels
    BY <2>2, <2>3
  <2>4. CASE NextFree(h) \notin Channels
    <3>1. taken \subseteq {message_to_send'.channel, message_to_send'.channel}
      BY <1>5, <2>2, <2>4
    <3>2. QED
      BY <1>5, <1>14, <3>1
  <2>5. QED
    BY <2>3, <2>4
<1>18. ToldBut(r.mg)
  BY <1>11, <1>15, <1>16, <1>17 DEF ToldBut
<1>19. DatabaseTyped'
  BY <1>1, <1>3, <1>6, <1>7, <1>8, <1>9 DEF DatabaseTyped
<1>20. NamedNew(client)
  BY <1>1, <1>5, <1>14 DEF NamedNew
<1>21. QED
  BY <1>4, <1>5, <1>10, <1>14, <1>18, <1>19, <1>20

\* A request that leaves the database as it is, but for the wrapper's counter.
LEMMA NothingGiven ==
  ASSUME StorageInv, UNCHANGED database, counter' \in 0 .. (MaxCounter + 1), NEW mg
  PROVE  DatabaseTyped' /\ UsedCounted' /\ GivenKept /\ ToldBut(mg)
<1>1. UNCHANGED <<holder, b_used, last_occupied_channel_b, overuse>>
  BY DEF database
<1>2. DatabaseTyped'
  BY <1>1, StorageInvTyped DEF DatabaseTyped
<1>3. UsedCounted'
  BY <1>1 DEF StorageInv, StorageSound, UsedCounted, Occupied
<1>4. QED
  BY <1>1, <1>2, <1>3 DEF GivenKept, ToldBut

\* Whatever the request is, and whoever sends it.
LEMMA ProcessGives ==
  ASSUME StorageInv, NEW client \in Clients, NEW r \in Bodies, ~NeverEnds(client, r),
         Process(client, r)
  PROVE  /\ DatabaseTyped' /\ UsedCounted' /\ GivenKept /\ ToldBut(r.mg)
         /\ message_to_send'.channel \in Channels \cup {0} /\ NamedNew(client)
         /\ Refused(client, r) => message_to_send'.code = "COMMON_UNKNOWN_COMMAND"
<1>1. counter \in 0 .. (MaxCounter + 1)
  BY StorageInvTyped DEF DatabaseTyped
<1>2. ASSUME NEW code, Refuse(code)
      PROVE  /\ UNCHANGED database /\ counter' = counter
             /\ message_to_send'.channel = 0 /\ message_to_send'.code = code
  BY <1>2 DEF Refuse, Answer
<1>3. ASSUME NEW c, NEW code, ByCoordinates(c, code)
      PROVE  /\ UNCHANGED database /\ counter' = counter /\ message_to_send'.channel = 0
  BY <1>3 DEF ByCoordinates, Answer
<1>4. ASSUME UNCHANGED database, counter' = counter, message_to_send'.channel = 0
      PROVE  /\ DatabaseTyped' /\ UsedCounted' /\ GivenKept /\ ToldBut(r.mg)
             /\ message_to_send'.channel \in Channels \cup {0} /\ NamedNew(client)
  BY <1>1, <1>4, NothingGiven DEF NamedNew
<1>5. CASE Refused(client, r)
  BY <1>2, <1>4, <1>5 DEF Process
<1>6. CASE ~Refused(client, r) /\ client.uid = "CALL_CONTROL"
  <2>1. CallControl(r, client)
    BY <1>6 DEF Process
  <2>2. CASE r.code = "OCCUPATE_CHANNEL_B_SIDE_B"
    <3>1. call_control_occupate_channel_side_b(r, client) /\ r \in SideB
      BY <2>1, <2>2 DEF CallControl, SideB
    <3>2. CASE Eligible(r) = {}
      <4>1. UNCHANGED database /\ counter' = counter /\ message_to_send'.channel = 0
        BY <3>1, <3>2 DEF call_control_occupate_channel_side_b, Answer
      <4>2. QED
        BY <1>4, <1>6, <4>1
    <3>3. CASE Eligible(r) # {}
      <4>1. Occupy(Takes(r), client) /\ counter' = counter /\ message_to_send'.channel = Named(r)
        BY <3>1, <3>3 DEF call_control_occupate_channel_side_b
      <4>2. \A g \in Eligible(r) : Searched(g) # {}
        BY <1>6, <2>2 DEF NeverEnds
      <4>3. /\ DatabaseTyped' /\ UsedCounted' /\ GivenKept /\ ToldBut(r.mg)
            /\ message_to_send'.channel \in Channels /\ NamedNew(client)
        BY <3>1, <3>3, <4>1, <4>2, OccupyGives
      <4>4. QED
        BY <1>6, <4>3
    <3>4. QED
      BY <3>2, <3>3
  <2>3. CASE r.code # "OCCUPATE_CHANNEL_B_SIDE_B"
    <3>1. \/ \E c, code : ByCoordinates(c, code)
          \/ Refuse("UNKNOWN_COMMAND")
      <4>1. CASE r.code = "OCCUPATE_CHANNEL_B_SIDE_A"
        BY <2>1, <4>1 DEF CallControl, call_control_occupate_channel_side_a
      <4>2. CASE r.code = "FREE_CHANNEL_B"
        BY <2>1, <4>2 DEF CallControl, call_control_free_channel
      <4>3. CASE r.code = "OCCUPATE_CALL_POINTER"
        BY <2>1, <4>3 DEF CallControl, call_control_occupate_call_pointer
      <4>4. CASE r.code = "FREE_CALL_POINTER"
        BY <2>1, <4>4 DEF CallControl, call_control_free_call_pointer
      <4>5. CASE r.code \notin {"OCCUPATE_CHANNEL_B_SIDE_A", "FREE_CHANNEL_B",
                                "OCCUPATE_CALL_POINTER", "FREE_CALL_POINTER"}
        BY <2>1, <2>3, <4>5 DEF CallControl
      <4>6. QED
        BY <4>1, <4>2, <4>3, <4>4, <4>5
    <3>2. UNCHANGED database /\ counter' = counter /\ message_to_send'.channel = 0
      BY <1>2, <1>3, <3>1
    <3>3. QED
      BY <1>4, <1>6, <3>2
  <2>4. QED
    BY <2>2, <2>3
<1>7. CASE ~Refused(client, r) /\ client.uid # "CALL_CONTROL"
  <2>1. ProcControl(r)
    BY <1>7 DEF Process
  <2>2. CASE r.code = "QUERY_STATE_OF_CHANNEL_B"
    <3>1. CheckChannel
      BY <2>1, <2>2 DEF ProcControl
    <3> DEFINE before == IF counter > MaxCounter THEN 0 ELSE counter
    <3>2. counter' = before + 1 /\ UNCHANGED database /\ message_to_send'.channel = 0
      BY <3>1 DEF CheckChannel, Answer
    <3>3. before \in 0 .. MaxCounter
      BY <1>1, CountersAssumption
    <3> HIDE DEF before
    <3>4. counter' \in 0 .. (MaxCounter + 1)
      BY <3>2, <3>3, CountersAssumption
    <3>5. QED
      BY <1>7, <3>2, <3>4, NothingGiven DEF NamedNew
  <2>3. CASE r.code # "QUERY_STATE_OF_CHANNEL_B"
    <3>1. Refuse("UNKNOWN_COMMAND")
      BY <2>1, <2>3 DEF ProcControl
    <3>2. QED
      BY <1>2, <1>4, <1>7, <3>1
  <2>4. QED
    BY <2>2, <2>3
<1>8. QED
  BY <1>5, <1>6, <1>7

-----------------------------------------------------------------------------
(***************************************************************************)
(* The storage's steps                                                     *)
(***************************************************************************)

\* Channels whose holder has not been told of them.
Untold ==
  {c \in Channels : holder[c] # Free /\ c \notin told \cup lost \cup {message_to_send.channel}}

\* No more of them than calls that got a channel too many.
LEMMA HoldersToldHas ==
  /\ HoldersTold <=> Cardinality(Untold) <= vague
  /\ IsFiniteSet(Untold) /\ Cardinality(Untold) \in Nat
<1>1. HoldersTold <=> Cardinality(Untold) <= vague
  BY DEF HoldersTold, Untold
<1>2. Untold \in SUBSET Channels
  BY DEF Untold
<1>3. IsFiniteSet(Untold)
  BY <1>2, ChannelsHas, FS_Subset
<1>4. QED
  BY <1>1, <1>3, FS_CardinalityType

\* The same of the next state.
LEMMA HoldersToldNext ==
  ASSUME HoldersTold, vague \in Nat, vague' \in Nat,
         \/ vague' = vague /\ Untold' \subseteq Untold
         \/ vague' = vague + 1 /\ \E x \in Channels : Untold' \subseteq Untold \cup {x}
  PROVE  HoldersTold'
<1>1. HoldersTold' <=> Cardinality(Untold') <= vague'
  BY DEF HoldersTold, Untold
<1>2. Cardinality(Untold) <= vague /\ IsFiniteSet(Untold) /\ Cardinality(Untold) \in Nat
  BY HoldersToldHas
<1>3. Untold' \in SUBSET Channels
  BY DEF Untold, Channels, TrunkGroups, TRUNK_GROUP
<1>4. IsFiniteSet(Untold') /\ Cardinality(Untold') \in Nat
  BY <1>3, ChannelsHas, FS_Subset, FS_CardinalityType
<1>5. CASE vague' = vague /\ Untold' \subseteq Untold
  <2>1. Cardinality(Untold') <= Cardinality(Untold)
    BY <1>2, <1>5, FS_Subset
  <2>2. QED
    BY <1>1, <1>2, <1>4, <1>5, <2>1
<1>6. CASE vague' = vague + 1 /\ \E x \in Channels : Untold' \subseteq Untold \cup {x}
  <2>1. PICK x \in Channels : Untold' \subseteq Untold \cup {x}
    BY <1>6
  <2>2. /\ IsFiniteSet(Untold \cup {x})
        /\ Cardinality(Untold \cup {x}) = IF x \in Untold THEN Cardinality(Untold)
                                          ELSE Cardinality(Untold) + 1
    BY <1>2, FS_AddElement
  <2>3. Cardinality(Untold') <= Cardinality(Untold \cup {x})
    BY <2>1, <2>2, FS_Subset
  <2>4. Cardinality(Untold \cup {x}) <= Cardinality(Untold) + 1 /\ Cardinality(Untold \cup {x}) \in Nat
    BY <1>2, <2>2
  <2>5. QED
    BY <1>1, <1>2, <1>4, <1>6, <2>3, <2>4
<1>7. QED
  BY <1>5, <1>6

\* The state the storage starts in.
LEMMA StorageInvInit == StorageInit => StorageInv
<1> SUFFICES ASSUME StorageInit PROVE StorageInv
  OBVIOUS
<1> USE DEF StorageInit
<1>1. header.to = NoAddress /\ message_to_send = Nothing /\ message_to_send.channel = 0
  BY DEF DataQuery, Nothing
<1>2. 0 \in 0 .. (MAX_FAILURES_COUNT + 1) /\ 0 \in 0 .. (MaxCounter + 1) /\ 0 <= MAX_FAILURES_COUNT
  BY CountersAssumption
<1>3. /\ holder \in [Channels -> Clients \cup {Free}]
      /\ b_used \in [TrunkGroups -> Nat] /\ overuse \in [TrunkGroups -> 0 .. 1]
      /\ last_occupied_channel_b \in [TrunkGroups -> Channels \cup {0}]
  <2>1. 0 \in 0 .. 1
    OBVIOUS
  <2>2. QED
    BY <2>1
<1>4. StorageTypes
  BY <1>1, <1>2, <1>3 DEF StorageTypes
<1>5. UsedCounted
  <2>1. ASSUME NEW g \in TrunkGroups PROVE Occupied(g) = {}
    BY ChannelsHas DEF Occupied
  <2>2. Cardinality({}) = 0
    BY FS_EmptySet
  <2>3. QED
    BY <2>1, <2>2 DEF UsedCounted
<1>6. HoldersTold
  <2>1. Untold = {}
    BY DEF Untold
  <2>2. Cardinality(Untold) = 0
    BY <2>1, FS_EmptySet
  <2>3. QED
    BY <2>2, HoldersToldHas
<1>7. StopsWithOneFree /\ Addressed
  BY DEF StopsWithOneFree, Addressed
<1>8. StorageCounts
  BY <1>1, <1>2 DEF StorageCounts
<1>9. QED
  BY <1>4, <1>5, <1>6, <1>7, <1>8 DEF StorageInv, StorageSound

\* The answers that were sent are of channels.
LEMMA SentChannels ==
  ASSUME StorageInv
  PROVE  /\ Sent(told) \subseteq Channels /\ told \subseteq Sent(told)
         /\ Sent(lost) \subseteq Channels /\ lost \subseteq Sent(lost)
         /\ \A c \in Channels : c = message_to_send.channel =>
              c \in Sent(told) /\ c \in Sent(lost)
<1>1. message_to_send.channel \in Channels \cup {0} /\ told \subseteq Channels /\ lost \subseteq Channels
  BY DEF StorageInv, StorageCounts, StorageSound, StorageTypes
<1>2. 0 \notin Channels
  BY ChannelsHas
<1>3. QED
  BY <1>1, <1>2 DEF Sent

\* What is said of the database is said of it when it is left alone.
LEMMA DatabaseLeft ==
  ASSUME StorageInv, UNCHANGED <<database, counter>>
  PROVE  DatabaseTyped' /\ UsedCounted' /\ GivenKept
<1>1. UNCHANGED <<holder, b_used, last_occupied_channel_b, overuse, counter>>
  BY DEF database
<1>2. QED
  BY <1>1, StorageInvTyped DEF DatabaseTyped, StorageInv, StorageSound, UsedCounted, Occupied,
                               GivenKept

\* Registering, and failing to.
LEMMA StorageInvRegisters ==
  ASSUME StorageInv, Register \/ RegisterFails \/ UNCHANGED storagevars
  PROVE  StorageInv' /\ GivenKept
<1>1. /\ UNCHANGED <<header, message_to_send, failures_count, asked>>
      /\ UNCHANGED <<told, lost, vague>> /\ UNCHANGED <<database, counter>>
      /\ \/ stage' = stage
         \/ stage \in {"pid", "tid"} /\ stage' \in {"tid", "serving", "ended"}
  BY DEF Register, RegisterFails, storagevars, manager, outcome
<1>2. UNCHANGED <<holder, b_used, last_occupied_channel_b, overuse>>
  BY <1>1 DEF database
<1>3. DatabaseTyped' /\ UsedCounted' /\ GivenKept
  BY <1>1, DatabaseLeft
<1>4. StorageTypes'
  BY <1>1, <1>2 DEF StorageInv, StorageSound, StorageTypes
<1>5. StopsWithOneFree'
  <2>1. SUFFICES ASSUME stage' = "searching"
                 PROVE  \E g \in Eligible(asked.body)' :
                          (ChannelsOf[g] \ Occupied(g) = {first_channel_b_id(g)})'
    BY DEF StopsWithOneFree
  <2>2. stage = "searching"
    BY <1>1, <2>1
  <2>3. Eligible(asked.body)' = Eligible(asked.body)
    BY <1>1, <1>2 DEF Eligible
  <2>4. \A g : Occupied(g)' = Occupied(g)
    BY <1>2 DEF Occupied
  <2>5. PICK g \in Eligible(asked.body) : ChannelsOf[g] \ Occupied(g) = {first_channel_b_id(g)}
    BY <2>2 DEF StorageInv, StorageSound, StopsWithOneFree
  <2>6. (ChannelsOf[g] \ Occupied(g) = {first_channel_b_id(g)})'
    BY <2>4, <2>5 DEF first_channel_b_id
  <2>7. QED
    BY <2>3, <2>5, <2>6
<1>6. Addressed'
  BY <1>1 DEF StorageInv, StorageSound, StorageCounts, Addressed
<1>7. HoldersTold'
  BY <1>1, <1>2 DEF StorageInv, StorageSound, HoldersTold
<1>8. StorageCounts'
  BY <1>1 DEF StorageInv, StorageCounts
<1>9. QED
  BY <1>3, <1>4, <1>5, <1>6, <1>7, <1>8 DEF StorageInv, StorageSound

\* A message is not sent.
LEMMA StorageInvSendFails ==
  ASSUME StorageInv, SendFails
  PROVE  StorageInv' /\ GivenKept
<1>1. /\ stage = "serving" /\ failures_count' = failures_count + 1
      /\ stage' = IF failures_count' > MAX_FAILURES_COUNT THEN "ended" ELSE stage
      /\ lost' = Sent(lost) /\ header' = DataQuery /\ message_to_send' = Nothing
      /\ UNCHANGED <<database, counter>> /\ UNCHANGED <<told, vague>>
  BY DEF SendFails
<1>2. UNCHANGED <<holder, b_used, last_occupied_channel_b, overuse>>
  BY <1>1 DEF database
<1>3. DatabaseTyped' /\ UsedCounted' /\ GivenKept
  BY <1>1, DatabaseLeft
<1>4. /\ header'.to = NoAddress /\ message_to_send'.channel = 0
      /\ stage' \in {"serving", "ended"}
  BY <1>1 DEF DataQuery, Nothing
<1>5. /\ failures_count' \in 0 .. (MAX_FAILURES_COUNT + 1)
      /\ stage' # "ended" => failures_count' <= MAX_FAILURES_COUNT
  <2>1. failures_count \in 0 .. (MAX_FAILURES_COUNT + 1) /\ failures_count <= MAX_FAILURES_COUNT
    BY <1>1 DEF StorageInv, StorageSound, StorageTypes, StorageCounts
  <2>2. failures_count' \in 0 .. (MAX_FAILURES_COUNT + 1)
    BY <1>1, <2>1, CountersAssumption
  <2>3. ~(failures_count' > MAX_FAILURES_COUNT) => failures_count' <= MAX_FAILURES_COUNT
    BY <2>2, CountersAssumption
  <2>4. QED
    BY <1>1, <2>2, <2>3
<1>6. told' \cup lost' \subseteq Channels
  BY <1>1, SentChannels DEF StorageInv, StorageSound, StorageTypes
<1>7. StorageTypes'
  BY <1>3, <1>4, <1>5, <1>6 DEF StorageTypes, DatabaseTyped
<1>8. StopsWithOneFree' /\ Addressed'
  BY <1>1, <1>4 DEF StopsWithOneFree, Addressed, Nothing
<1>9. StorageCounts'
  BY <1>1, <1>4, <1>5 DEF StorageInv, StorageCounts
<1>10. HoldersTold'
  <2>1. Untold' \subseteq Untold
    <3>1. \A c \in Channels : c \in told \cup lost \cup {message_to_send.channel} =>
                                c \in told' \cup lost' \cup {message_to_send'.channel}
      BY <1>1, SentChannels
    <3>2. QED
      BY <1>2, <3>1 DEF Untold
  <2>2. QED
    BY <1>1, <2>1, HoldersToldNext DEF StorageInv, StorageSound, StorageCounts
<1>11. QED
  BY <1>3, <1>7, <1>8, <1>9, <1>10 DEF StorageInv, StorageSound

\* A request is asked that is never answered: a trunk group it may take has
\* nothing left but its first channel.
LEMMA StorageInvLoop ==
  ASSUME StorageInv, NEW client \in Clients, NEW flags \in Flags, NEW r \in Bodies,
         Loop(client, flags, r)
  PROVE  StorageInv' /\ GivenKept
<1>1. /\ stage = "serving" /\ NeverEnds(client, r) /\ stage' = "searching"
      /\ told' = Sent(told) /\ message_to_send' = Nothing
      /\ header' = [type |-> "DATA_QUERY", flags |-> flags, from |-> client, to |-> Depository]
      /\ asked' = [from |-> client, flags |-> flags, body |-> r]
      /\ UNCHANGED <<failures_count, lost, vague>> /\ UNCHANGED <<database, counter>>
  BY DEF Loop
<1>2. UNCHANGED <<holder, b_used, last_occupied_channel_b, overuse>>
  BY <1>1 DEF database
<1>3. DatabaseTyped' /\ UsedCounted' /\ GivenKept
  BY <1>1, DatabaseLeft
<1>4. header'.to = Depository /\ message_to_send'.channel = 0 /\ asked'.body = r
  BY <1>1 DEF Nothing
<1>5. failures_count \in 0 .. (MAX_FAILURES_COUNT + 1) /\ failures_count <= MAX_FAILURES_COUNT
  BY <1>1 DEF StorageInv, StorageSound, StorageTypes, StorageCounts
<1>6. told' \cup lost' \subseteq Channels
  BY <1>1, SentChannels DEF StorageInv, StorageSound, StorageTypes
<1>7. StorageTypes'
  BY <1>1, <1>3, <1>4, <1>5, <1>6 DEF StorageTypes, DatabaseTyped
<1>8. StopsWithOneFree'
  <2>1. PICK g \in Eligible(r) : Searched(g) = {}
    BY <1>1 DEF NeverEnds
  <2>2. g \in TrunkGroups
    BY <2>1 DEF Eligible
  <2>3. first_channel_b_id(g) \in ChannelsOf[g] /\ first_channel_b_id(g) \notin Occupied(g)
    BY <2>2, ChannelsHas DEF StorageInv, StorageSound, UsedCounted
  <2>4. \A c \in ChannelsOf[g] : c # first_channel_b_id(g) => c \in Occupied(g)
    BY <2>1 DEF Searched, Occupied
  <2>5. ChannelsOf[g] \ Occupied(g) = {first_channel_b_id(g)}
    BY <2>3, <2>4
  <2>6. (ChannelsOf[g] \ Occupied(g) = {first_channel_b_id(g)})'
    BY <1>2, <2>5 DEF Occupied, first_channel_b_id
  <2>7. g \in Eligible(asked.body)'
    BY <1>2, <1>4, <2>1 DEF Eligible
  <2>8. QED
    BY <2>6, <2>7 DEF StopsWithOneFree
<1>9. Addressed'
  BY <1>1 DEF Addressed
<1>10. StorageCounts'
  BY <1>1, <1>4, <1>5 DEF StorageInv, StorageCounts
<1>11. HoldersTold'
  <2>1. Untold' \subseteq Untold
    <3>1. \A c \in Channels : c \in told \cup lost \cup {message_to_send.channel} =>
                                c \in told' \cup lost' \cup {message_to_send'.channel}
      BY <1>1, SentChannels
    <3>2. QED
      BY <1>2, <3>1 DEF Untold
  <2>2. QED
    BY <1>1, <2>1, HoldersToldNext DEF StorageInv, StorageSound, StorageCounts
<1>12. QED
  BY <1>3, <1>7, <1>8, <1>9, <1>10, <1>11 DEF StorageInv, StorageSound

\* A request is answered.
LEMMA StorageInvExchange ==
  ASSUME StorageInv, NEW client \in Clients, NEW flags \in Flags, NEW r \in Bodies,
         Exchange(client, flags, r)
  PROVE  StorageInv' /\ GivenKept
<1> DEFINE refused == Refused(client, r)
<1>1. /\ stage = "serving" /\ ~NeverEnds(client, r)
      /\ told' = Sent(told) /\ Process(client, r)
      /\ header' = Returned(client, flags, refused)
      /\ asked' = [from |-> client, flags |-> flags, body |-> Nobody.body]
      /\ vague' = IF database' # database /\ r.mg = 2 THEN vague + 1 ELSE vague
      /\ UNCHANGED <<stage, failures_count, lost>>
  BY DEF Exchange
<1>2. /\ DatabaseTyped' /\ UsedCounted' /\ GivenKept /\ ToldBut(r.mg)
      /\ message_to_send'.channel \in Channels \cup {0}
      /\ refused => message_to_send'.code = "COMMON_UNKNOWN_COMMAND"
  BY <1>1, ProcessGives
<1>3. failures_count \in 0 .. (MAX_FAILURES_COUNT + 1) /\ failures_count <= MAX_FAILURES_COUNT
  BY <1>1 DEF StorageInv, StorageSound, StorageTypes, StorageCounts
<1>4. told' \cup lost' \subseteq Channels
  BY <1>1, SentChannels DEF StorageInv, StorageSound, StorageTypes
<1>5. /\ header'.to = client /\ header'.from = Depository
      /\ header'.flags = IF refused THEN (flags \ {"BLOCK_UID"}) \cup {"WAIT_MSG"}
           ELSE {"WAIT_MSG"} \cup {f \in {"DEST_TID_STATIC"} : "SRC_TID_STATIC" \in flags}
      /\ asked'.from = client /\ asked'.flags = flags
  BY <1>1 DEF Returned
<1>6. StorageTypes'
  BY <1>1, <1>2, <1>3, <1>4, <1>5 DEF StorageTypes, DatabaseTyped
<1>7. StopsWithOneFree'
  BY <1>1 DEF StopsWithOneFree
<1>8. Addressed'
  <2>1. ~refused => ("DEST_TID_STATIC" \in header'.flags <=> "SRC_TID_STATIC" \in flags)
    BY <1>5
  <2>2. QED
    BY <1>2, <1>5, <2>1 DEF Addressed
<1>9. vague \in Nat /\ vague' \in Nat
  BY <1>1 DEF StorageInv, StorageCounts
<1>10. StorageCounts'
  BY <1>1, <1>2, <1>3, <1>9 DEF StorageCounts
<1>11. HoldersTold'
  <2>1. \A c \in Channels : c \in told \cup lost \cup {message_to_send.channel} =>
                              c \in told' \cup lost' \cup {message_to_send'.channel}
    BY <1>1, SentChannels
  <2>2. CASE database' = database
    <3>1. vague' = vague /\ holder' = holder
      BY <1>1, <2>2 DEF database
    <3>2. Untold' \subseteq Untold
      BY <2>1, <3>1 DEF Untold
    <3>3. QED
      BY <1>9, <3>1, <3>2, HoldersToldNext DEF StorageInv, StorageSound
  <2>3. CASE database' # database
    <3>1. /\ \A c \in Channels : holder'[c] # Free /\ holder[c] = Free =>
               c = message_to_send'.channel \/ r.mg = 2
          /\ \E x \in Channels : \A c \in Channels :
               holder'[c] # Free /\ holder[c] = Free => c \in {message_to_send'.channel, x}
      BY <1>2, <2>3 DEF ToldBut
    <3>2. CASE r.mg = 2
      <4>1. vague' = vague + 1
        BY <1>1, <2>3, <3>2
      <4>2. PICK x \in Channels : \A c \in Channels :
               holder'[c] # Free /\ holder[c] = Free => c \in {message_to_send'.channel, x}
        BY <3>1
      <4>3. Untold' \subseteq Untold \cup {x}
        BY <2>1, <4>2 DEF Untold
      <4>4. QED
        BY <1>9, <4>1, <4>3, HoldersToldNext DEF StorageInv, StorageSound
    <3>3. CASE r.mg # 2
      <4>1. vague' = vague
        BY <1>1, <3>3
      <4>2. Untold' \subseteq Untold
        BY <2>1, <3>1, <3>3 DEF Untold
      <4>3. QED
        BY <1>9, <4>1, <4>2, HoldersToldNext DEF StorageInv, StorageSound
    <3>4. QED
      BY <3>2, <3>3
  <2>4. QED
    BY <2>2, <2>3
<1>12. QED
  BY <1>2, <1>6, <1>7, <1>8, <1>10, <1>11 DEF StorageInv, StorageSound

\* Every step of the storage.
LEMMA StorageInvStep ==
  ASSUME StorageInv, [StorageNext]_storagevars
  PROVE  StorageInv' /\ GivenKept
<1>1. CASE Register \/ RegisterFails \/ UNCHANGED storagevars
  BY <1>1, StorageInvRegisters
<1>2. CASE SendFails
  BY <1>2, StorageInvSendFails
<1>3. CASE \E client \in Clients, flags \in Flags, r \in Bodies : Exchange(client, flags, r)
  BY <1>3, StorageInvExchange
<1>4. CASE \E client \in Clients, flags \in Flags, r \in Bodies : Loop(client, flags, r)
  BY <1>4, StorageInvLoop
<1>5. QED
  BY <1>1, <1>2, <1>3, <1>4 DEF StorageNext

\* Each channel is named once, and what was named is held still.
GivenInv == GivenOnce /\ \A c \in told \cup lost : holder[c] # Free

\* The channel of an answer joins those of the answers that were sent, or that
\* were dropped.
LEMMA NamedBefore ==
  ASSUME StorageInv, GivenInv
  PROVE  /\ \A c \in Sent(told) \cup Sent(lost) : c \in Channels /\ holder[c] # Free
         /\ Sent(told) \cap lost = {} /\ told \cap Sent(lost) = {}
<1>1. header.to \in Clients \cup {NoAddress, Depository} /\ told \cup lost \subseteq Channels
      /\ message_to_send.channel \in Channels \cup {0}
  BY DEF StorageInv, StorageSound, StorageTypes, StorageCounts
<1>2. header.to # Free
  BY <1>1 DEF Clients, UIDs, NoAddress, Depository, Free
<1>3. message_to_send.channel # 0 =>
        /\ holder[message_to_send.channel] # Free
        /\ message_to_send.channel \notin told \cup lost
  BY <1>2 DEF GivenInv, GivenOnce
<1>4. /\ \A c \in told \cup lost : holder[c] # Free
      /\ told \cap lost = {}
  BY DEF GivenInv, GivenOnce
<1>5. QED
  BY <1>1, <1>3, <1>4 DEF Sent

\* Every step names a channel that was free, or none.
LEMMA GivenInvStep ==
  ASSUME StorageInv, GivenInv, [StorageNext]_storagevars
  PROVE  GivenInv'
<1>1. CASE Register \/ RegisterFails \/ UNCHANGED storagevars
  <2>1. UNCHANGED <<header, message_to_send, holder, told, lost>>
    BY <1>1 DEF Register, RegisterFails, storagevars, manager, database, outcome
  <2>2. QED
    BY <2>1 DEF GivenInv, GivenOnce
<1>2. CASE SendFails
  <2>1. /\ message_to_send'.channel = 0 /\ holder' = holder
        /\ told' = told /\ lost' = Sent(lost)
    BY <1>2 DEF SendFails, database, Nothing
  <2>2. told' \cap lost' = {} /\ \A c \in told' \cup lost' : holder'[c] # Free
    BY <2>1, NamedBefore DEF GivenInv
  <2>3. QED
    BY <2>1, <2>2 DEF GivenInv, GivenOnce
<1>3. CASE \E client \in Clients, flags \in Flags, r \in Bodies : Loop(client, flags, r)
  <2>1. /\ message_to_send'.channel = 0 /\ holder' = holder
        /\ told' = Sent(told) /\ lost' = lost
    BY <1>3 DEF Loop, database, Nothing
  <2>2. told' \cap lost' = {} /\ \A c \in told' \cup lost' : holder'[c] # Free
    BY <2>1, NamedBefore DEF GivenInv
  <2>3. QED
    BY <2>1, <2>2 DEF GivenInv, GivenOnce
<1>4. CASE \E client \in Clients, flags \in Flags, r \in Bodies : Exchange(client, flags, r)
  <2>1. PICK client \in Clients, flags \in Flags, r \in Bodies : Exchange(client, flags, r)
    BY <1>4
  <2>2. GivenKept /\ NamedNew(client)
    BY <2>1, ProcessGives DEF Exchange
  <2>3. header'.to = client /\ told' = Sent(told) /\ lost' = lost
    BY <2>1 DEF Exchange, Returned
  <2>4. told' \cap lost' = {}
    BY <2>3, NamedBefore
  <2>5. \A c \in told' \cup lost' : holder[c] # Free /\ holder'[c] # Free
    BY <2>2, <2>3, NamedBefore DEF GivenKept, GivenInv, StorageInv, StorageSound, StorageTypes
  <2>6. ASSUME message_to_send'.channel # 0
        PROVE  /\ holder'[message_to_send'.channel] = header'.to
               /\ message_to_send'.channel \notin told' \cup lost'
    BY <2>2, <2>3, <2>5, <2>6 DEF NamedNew
  <2>7. QED
    BY <2>4, <2>5, <2>6 DEF GivenInv, GivenOnce
<1>5. QED
  BY <1>1, <1>2, <1>3, <1>4 DEF StorageNext

-----------------------------------------------------------------------------
(***************************************************************************)
(* The generator's automaton                                               *)
(***************************************************************************)

\* Where each state leads, and the command of each.
LEMMA Targets ==
  ASSUME NEW event, NEW y1 \in BOOLEAN, NEW y2 \in BOOLEAN, NEW y3 \in BOOLEAN
  PROVE  /\ A0_state = "OCCUPATE_CH_B_SIDE_A" =>
              Target(event, y1, y2, y3) = IF y1 THEN "OCCUPATE_CH_B_SIDE_B" ELSE A0_state
         /\ A0_state = "OCCUPATE_CH_B_SIDE_B" =>
              Target(event, y1, y2, y3) = IF y2 THEN "OCCUPATE_CALL_POINTER" ELSE "FREE_CH_B_SIDE_A"
         /\ A0_state = "OCCUPATE_CALL_POINTER" =>
              Target(event, y1, y2, y3) = IF y3 THEN "CALL_CONTINUE" ELSE "FREE_CH_B_SIDE_A"
         /\ A0_state = "CALL_CONTINUE" =>
              /\ event = "END_A" => Target(event, y1, y2, y3) = "FREE_CH_B_SIDE_A"
              /\ event = "CHANGED" => Target(event, y1, y2, y3) = A0_state
         /\ A0_state = "FREE_CH_B_SIDE_A" =>
              Target(event, y1, y2, y3) =
                IF y1 THEN A0_state
                ELSE IF y2 THEN "FREE_CH_B_SIDE_B"
                ELSE IF y3 THEN "FREE_CALL_POINTER" ELSE "OCCUPATE_CH_B_SIDE_A"
         /\ A0_state = "FREE_CH_B_SIDE_B" =>
              Target(event, y1, y2, y3) =
                IF y2 THEN A0_state
                ELSE IF y1 THEN "FREE_CH_B_SIDE_A"
                ELSE IF y3 THEN "FREE_CALL_POINTER" ELSE "OCCUPATE_CH_B_SIDE_A"
         /\ A0_state = "FREE_CALL_POINTER" => Target(event, y1, y2, y3) = "OCCUPATE_CH_B_SIDE_A"
<1>1. CASE A0_state = "OCCUPATE_CH_B_SIDE_A"
  BY <1>1 DEF Target
<1>2. CASE A0_state = "OCCUPATE_CH_B_SIDE_B"
  BY <1>2 DEF Target
<1>3. CASE A0_state = "OCCUPATE_CALL_POINTER"
  BY <1>3 DEF Target
<1>4. CASE A0_state = "CALL_CONTINUE"
  BY <1>4 DEF Target
<1>5. CASE A0_state = "FREE_CH_B_SIDE_A"
  BY <1>5 DEF Target
<1>6. CASE A0_state = "FREE_CH_B_SIDE_B"
  BY <1>6 DEF Target
<1>7. CASE A0_state = "FREE_CALL_POINTER"
  BY <1>7 DEF Target
<1>8. QED
  BY <1>1, <1>2, <1>3, <1>4, <1>5, <1>6, <1>7

\* The commands' codes.
LEMMA Codes ==
  /\ Code("OCCUPATE_CH_B_SIDE_A") = "OCCUPATE_A" /\ Code("OCCUPATE_CH_B_SIDE_B") = "OCCUPATE_B"
  /\ Code("OCCUPATE_CALL_POINTER") = "OCCUPATE_P" /\ Code("FREE_CH_B_SIDE_A") = "FREE_A"
  /\ Code("FREE_CH_B_SIDE_B") = "FREE_B" /\ Code("FREE_CALL_POINTER") = "FREE_P"
  BY DEF Code

\* The flags after each answer.
LEMMA Answers ==
  /\ message = "A" => Answered(message) = <<TRUE, x2, x3>>
  /\ message = "B" => Answered(message) = <<x1, TRUE, x3>>
  /\ message = "P" => Answered(message) = <<x1, x2, TRUE>>
  /\ message = "FREED P" => Answered(message) = <<x1, x2, FALSE>>
  /\ message = "FREED" /\ x2 => Answered(message) = <<x1, FALSE, x3>>
  /\ message = "FREED" /\ ~x2 => Answered(message) = <<FALSE, x2, x3>>
  /\ message = "ERROR" => Answered(message) = <<x1, x2, x3>>
  BY DEF Answered

Moved(state, y1, y2, y3) == A0_state' = state /\ x1' = y1 /\ x2' = y2 /\ x3' = y3

\* The command is that of a state that is entered, and is asked next, unless a
\* channel is checked.
Commanded(at) ==
  /\ command_to_storage' =
       IF A0_state' = A0_state \/ A0_state' = "CALL_CONTINUE" THEN command_to_storage
       ELSE [code |-> Code(A0_state'), at |-> IF A0_state' = "OCCUPATE_CALL_POINTER" THEN at
                                              ELSE current_call_pointer]
  /\ \/ request' = Check /\ A0_state' = "CALL_CONTINUE"
     \/ /\ request' = command_to_storage'
        /\ current_call_pointer' = IF A0_state' = "OCCUPATE_CALL_POINTER" /\ A0_state # A0_state'
                                   THEN at ELSE current_call_pointer

\* A0 is asked with flags, and its command is sent.
LEMMA A0Moves ==
  ASSUME NEW event, NEW y1 \in BOOLEAN, NEW y2 \in BOOLEAN, NEW y3 \in BOOLEAN, NEW at,
         A0(event, y1, y2, y3, at)
  PROVE  /\ Moved(Target(event, y1, y2, y3), y1, y2, y3)
         /\ command_to_storage' =
              IF A0_state' = A0_state \/ A0_state' = "CALL_CONTINUE" THEN command_to_storage
              ELSE [code |-> Code(A0_state'), at |-> IF A0_state' = "OCCUPATE_CALL_POINTER"
                                                     THEN at ELSE current_call_pointer]
         /\ AsksA0 /\ current_call_pointer' = PicksPointer(at) => Commanded(at)
  BY DEF A0, Moved, Commanded, AsksA0, PicksPointer

\* A query is received.
LEMMA QueryMoves ==
  ASSUME GeneratorInv, NEW at, AnswersQuery(at)
  PROVE  /\ Commanded(at)
         /\ A0_state = "OCCUPATE_CH_B_SIDE_A" => Moved(A0_state, FALSE, FALSE, x3)
         /\ A0_state = "OCCUPATE_CH_B_SIDE_B" => Moved("FREE_CH_B_SIDE_A", TRUE, FALSE, x3)
         /\ A0_state = "OCCUPATE_CALL_POINTER" =>
              Moved(IF x3 THEN "CALL_CONTINUE" ELSE "FREE_CH_B_SIDE_A", TRUE, TRUE, x3)
         /\ A0_state \in {"CALL_CONTINUE", "FREE_CH_B_SIDE_B"} => Moved(A0_state, TRUE, TRUE, TRUE)
         /\ A0_state = "FREE_CH_B_SIDE_A" => Moved(A0_state, TRUE, x2, x3)
         /\ A0_state = "FREE_CALL_POINTER" => Moved("OCCUPATE_CH_B_SIDE_A", FALSE, FALSE, TRUE)
<1>1. x1 \in BOOLEAN /\ x2 \in BOOLEAN /\ x3 \in BOOLEAN /\ FlagsOfState
  BY DEF GeneratorInv, GeneratorTypes
<1>2. A0("CHANGED", x1, x2, x3, at) /\ current_call_pointer' = PicksPointer(at) /\ AsksA0
  BY DEF AnswersQuery
<1>3. Commanded(at) /\ Moved(Target("CHANGED", x1, x2, x3), x1, x2, x3)
  BY <1>1, <1>2, A0Moves
<1>4. QED
  BY <1>1, <1>3, Targets DEF FlagsOfState, Moved

\* An answer of the call control, with the flags it sets, leads into a call.
LEMMA CallBegins ==
  ASSUME NEW at, NEW y1 \in BOOLEAN, NEW y2 \in BOOLEAN, NEW y3 \in BOOLEAN,
         Answered(message) = <<y1, y2, y3>>, AnswersCallControl(at),
         Target("CHANGED", y1, y2, y3) = "CALL_CONTINUE",
         A0_state \notin {"FREE_CH_B_SIDE_A", "FREE_CH_B_SIDE_B"}
  PROVE  /\ Commanded(at)
         /\ \E s \in {"CALL_CONTINUE", "FREE_CH_B_SIDE_A", "FREE_CH_B_SIDE_B"} :
              Moved(s, y1, y2, y3) /\ (s = "CALL_CONTINUE" => request' = Check)
<1> DEFINE side == IF turn % 2 = 0 THEN "FREE_CH_B_SIDE_B" ELSE "FREE_CH_B_SIDE_A"
<1>1. \/ A0("CHANGED", y1, y2, y3, at) /\ AsksA1(at)
      \/ /\ A0_state' = side
         /\ command_to_storage' = [code |-> Code(side), at |-> current_call_pointer]
         /\ x1' = y1 /\ x2' = y2 /\ x3' = y3
         /\ AsksA0 /\ UNCHANGED current_call_pointer
  BY DEF AnswersCallControl
<1>2. CASE A0("CHANGED", y1, y2, y3, at) /\ AsksA1(at)
  <2>1. /\ Moved("CALL_CONTINUE", y1, y2, y3)
        /\ command_to_storage' =
             IF A0_state' = A0_state \/ A0_state' = "CALL_CONTINUE" THEN command_to_storage
             ELSE [code |-> Code(A0_state'), at |-> IF A0_state' = "OCCUPATE_CALL_POINTER"
                                                    THEN at ELSE current_call_pointer]
    BY <1>2, A0Moves
  <2>2. request' = Check
    BY <1>2 DEF AsksA1
  <2>3. QED
    BY <2>1, <2>2 DEF Commanded, Moved
<1>3. CASE /\ A0_state' = side
           /\ command_to_storage' = [code |-> Code(side), at |-> current_call_pointer]
           /\ x1' = y1 /\ x2' = y2 /\ x3' = y3
           /\ AsksA0 /\ UNCHANGED current_call_pointer
  <2>1. side \in {"FREE_CH_B_SIDE_A", "FREE_CH_B_SIDE_B"}
    OBVIOUS
  <2> HIDE DEF side
  <2>2. A0_state' # A0_state /\ A0_state' # "CALL_CONTINUE" /\ A0_state' # "OCCUPATE_CALL_POINTER"
    BY <1>3, <2>1
  <2>3. Commanded(at)
    BY <1>3, <2>2 DEF Commanded, AsksA0
  <2>4. Moved(side, y1, y2, y3) /\ side # "CALL_CONTINUE"
    BY <1>3, <2>1 DEF Moved
  <2>5. QED
    BY <2>1, <2>3, <2>4
<1>4. QED
  BY <1>1, <1>2, <1>3

\* ... or elsewhere.
LEMMA NoCallBegins ==
  ASSUME NEW at, NEW y1 \in BOOLEAN, NEW y2 \in BOOLEAN, NEW y3 \in BOOLEAN,
         Answered(message) = <<y1, y2, y3>>, AnswersCallControl(at),
         Target("CHANGED", y1, y2, y3) # "CALL_CONTINUE"
  PROVE  Commanded(at) /\ Moved(Target("CHANGED", y1, y2, y3), y1, y2, y3)
<1>1. A0("CHANGED", y1, y2, y3, at) /\ AsksA0 /\ current_call_pointer' = PicksPointer(at)
  BY DEF AnswersCallControl
<1>2. QED
  BY <1>1, A0Moves

\* An answer of the call control is received.
LEMMA CallControlMoves ==
  ASSUME GeneratorInv, NEW at, message \notin Checks \cup {"none", "header"},
         AnswersCallControl(at)
  PROVE  /\ Commanded(at)
         /\ message = "A" => Moved("OCCUPATE_CH_B_SIDE_B", TRUE, FALSE, x3)
         /\ message = "B" => Moved("OCCUPATE_CALL_POINTER", TRUE, TRUE, x3)
         /\ message = "P" =>
              \E s \in {"CALL_CONTINUE", "FREE_CH_B_SIDE_A", "FREE_CH_B_SIDE_B"} :
                Moved(s, TRUE, TRUE, TRUE) /\ (s = "CALL_CONTINUE" => request' = Check)
         /\ message = "FREED P" => Moved("OCCUPATE_CH_B_SIDE_A", FALSE, FALSE, FALSE)
         /\ message = "FREED" /\ x2 => Moved("FREE_CH_B_SIDE_A", TRUE, FALSE, x3)
         /\ message = "FREED" /\ ~x2 =>
              Moved(IF x3 THEN "FREE_CALL_POINTER" ELSE "OCCUPATE_CH_B_SIDE_A", FALSE, FALSE, x3)
         /\ message = "ERROR" =>
              /\ A0_state = "OCCUPATE_CH_B_SIDE_A" => Moved(A0_state, FALSE, FALSE, x3)
              /\ A0_state = "OCCUPATE_CH_B_SIDE_B" => Moved("FREE_CH_B_SIDE_A", TRUE, FALSE, x3)
              /\ A0_state = "FREE_CH_B_SIDE_A" => Moved(A0_state, TRUE, x2, x3)
              /\ A0_state = "FREE_CH_B_SIDE_B" => Moved(A0_state, TRUE, TRUE, TRUE)
              /\ A0_state = "FREE_CALL_POINTER" => Moved("OCCUPATE_CH_B_SIDE_A", FALSE, FALSE, TRUE)
<1>1. /\ x1 \in BOOLEAN /\ x2 \in BOOLEAN /\ x3 \in BOOLEAN /\ A0_state \in States
      /\ FlagsOfState /\ AnswerOfState /\ message \in Messages
  BY DEF GeneratorInv, GeneratorTypes
<1>2. TRUE \in BOOLEAN /\ FALSE \in BOOLEAN
  OBVIOUS
<1>3. message \in {"A", "B", "P", "FREED", "FREED P", "ERROR"}
  BY <1>1 DEF Messages
<1>4. CASE message = "A"
  <2>1. A0_state = "OCCUPATE_CH_B_SIDE_A" /\ Answered(message) = <<TRUE, x2, x3>> /\ ~x2
    BY <1>1, <1>4, Answers DEF FlagsOfState, AnswerOfState
  <2>2. Target("CHANGED", TRUE, x2, x3) = "OCCUPATE_CH_B_SIDE_B"
    BY <2>1 DEF Target
  <2>3. Commanded(at) /\ Moved("OCCUPATE_CH_B_SIDE_B", TRUE, x2, x3)
    BY <1>1, <1>2, <2>1, <2>2, NoCallBegins
  <2>4. QED
    BY <1>4, <2>1, <2>3 DEF Moved
<1>5. CASE message = "B"
  <2>1. A0_state = "OCCUPATE_CH_B_SIDE_B" /\ Answered(message) = <<x1, TRUE, x3>> /\ x1
    BY <1>1, <1>5, Answers DEF FlagsOfState, AnswerOfState
  <2>2. Target("CHANGED", x1, TRUE, x3) = "OCCUPATE_CALL_POINTER"
    BY <2>1 DEF Target
  <2>3. Commanded(at) /\ Moved("OCCUPATE_CALL_POINTER", x1, TRUE, x3)
    BY <1>1, <1>2, <2>1, <2>2, NoCallBegins
  <2>4. QED
    BY <1>5, <2>1, <2>3 DEF Moved
<1>6. CASE message = "P"
  <2>1. /\ A0_state \in {"OCCUPATE_CALL_POINTER", "CALL_CONTINUE"}
        /\ Answered(message) = <<x1, x2, TRUE>> /\ x1 /\ x2
    BY <1>1, <1>6, Answers DEF FlagsOfState, AnswerOfState
  <2>2. Target("CHANGED", x1, x2, TRUE) = "CALL_CONTINUE"
    BY <2>1 DEF Target
  <2>3. /\ Commanded(at)
        /\ \E s \in {"CALL_CONTINUE", "FREE_CH_B_SIDE_A", "FREE_CH_B_SIDE_B"} :
             Moved(s, x1, x2, TRUE) /\ (s = "CALL_CONTINUE" => request' = Check)
    BY <1>1, <1>2, <2>1, <2>2, CallBegins
  <2>4. QED
    BY <1>6, <2>1, <2>3 DEF Moved
<1>7. CASE message = "FREED P"
  <2>1. /\ A0_state = "FREE_CALL_POINTER" /\ Answered(message) = <<x1, x2, FALSE>>
        /\ x1 = FALSE /\ x2 = FALSE
    BY <1>1, <1>7, Answers DEF FlagsOfState, AnswerOfState
  <2>2. Target("CHANGED", x1, x2, FALSE) = "OCCUPATE_CH_B_SIDE_A"
    BY <1>1, <2>1, Targets
  <2>3. Commanded(at) /\ Moved("OCCUPATE_CH_B_SIDE_A", x1, x2, FALSE)
    BY <1>1, <1>2, <2>1, <2>2, NoCallBegins
  <2>4. QED
    BY <1>7, <2>1, <2>3 DEF Moved
<1>8. CASE message = "FREED" /\ x2
  <2>1. A0_state \in Frees /\ Answered(message) = <<x1, FALSE, x3>> /\ x1
    BY <1>1, <1>8, Answers DEF FlagsOfState, AnswerOfState, Frees
  <2>2. Target("CHANGED", x1, FALSE, x3) = "FREE_CH_B_SIDE_A"
    BY <2>1 DEF Target, Frees
  <2>3. Commanded(at) /\ Moved("FREE_CH_B_SIDE_A", x1, FALSE, x3)
    BY <1>1, <1>2, <2>1, <2>2, NoCallBegins
  <2>4. QED
    BY <1>8, <2>1, <2>3 DEF Moved
<1>9. CASE message = "FREED" /\ ~x2
  <2>1. A0_state = "FREE_CH_B_SIDE_A" /\ Answered(message) = <<FALSE, x2, x3>>
    BY <1>1, <1>9, Answers DEF FlagsOfState, AnswerOfState, Frees
  <2>2. Target("CHANGED", FALSE, x2, x3) =
          IF x3 THEN "FREE_CALL_POINTER" ELSE "OCCUPATE_CH_B_SIDE_A"
    BY <1>9, <2>1 DEF Target
  <2>3. Commanded(at) /\ Moved(IF x3 THEN "FREE_CALL_POINTER" ELSE "OCCUPATE_CH_B_SIDE_A",
                               FALSE, x2, x3)
    BY <1>1, <1>2, <2>1, <2>2, NoCallBegins
  <2>4. QED
    BY <1>9, <2>3 DEF Moved
<1>10. CASE message = "ERROR"
  <2>1. /\ A0_state \notin {"OCCUPATE_CALL_POINTER", "CALL_CONTINUE"}
        /\ Answered(message) = <<x1, x2, x3>>
    BY <1>1, <1>10, Answers DEF AnswerOfState
  <2>2. Target("CHANGED", x1, x2, x3) # "CALL_CONTINUE"
    BY <1>1, <2>1, Targets DEF States
  <2>3. Commanded(at) /\ Moved(Target("CHANGED", x1, x2, x3), x1, x2, x3)
    BY <1>1, <2>1, <2>2, NoCallBegins
  <2>4. QED
    BY <1>1, <1>10, <2>3, Targets DEF FlagsOfState, Moved
<1>11. QED
  BY <1>3, <1>4, <1>5, <1>6, <1>7, <1>8, <1>9, <1>10

\* An answer to a check is received.
LEMMA ProcControlMoves ==
  ASSUME GeneratorInv, NEW at, message \in Checks, AnswersProcControl(at)
  PROVE  /\ Commanded(at)
         /\ \/ Moved("CALL_CONTINUE", TRUE, TRUE, TRUE) /\ request' = Check
            \/ Moved("FREE_CH_B_SIDE_A", TRUE, TRUE, TRUE)
<1>1. /\ A0_state = "CALL_CONTINUE" /\ x1 = TRUE /\ x2 = TRUE /\ x3 = TRUE
  BY DEF GeneratorInv, GeneratorTypes, FlagsOfState, AnswerOfState
<1>2. CASE AsksA1(at) /\ UNCHANGED automaton
  BY <1>1, <1>2 DEF AsksA1, automaton, Commanded, Moved
<1>3. CASE A0("END_A", x1, x2, x3, at) /\ AsksA0 /\ UNCHANGED current_call_pointer
  <2>1. Target("END_A", x1, x2, x3) = "FREE_CH_B_SIDE_A"
    BY <1>1, Targets
  <2>2. /\ Moved("FREE_CH_B_SIDE_A", x1, x2, x3)
        /\ AsksA0 /\ current_call_pointer' = PicksPointer(at) => Commanded(at)
    BY <1>1, <1>3, <2>1, A0Moves
  <2>3. current_call_pointer' = PicksPointer(at)
    BY <1>3, <2>2 DEF PicksPointer, Moved
  <2>4. QED
    BY <1>1, <1>3, <2>2, <2>3
<1>4. QED
  BY <1>2, <1>3 DEF AnswersProcControl

-----------------------------------------------------------------------------
(***************************************************************************)
(* The generator's steps                                                   *)
(***************************************************************************)

\* Where the automaton goes with what it receives.
Goes ==
  \/ /\ A0_state = "OCCUPATE_CH_B_SIDE_A" /\ message \in {"header", "ERROR"}
     /\ Moved("OCCUPATE_CH_B_SIDE_A", FALSE, FALSE, x3)
  \/ /\ A0_state = "OCCUPATE_CH_B_SIDE_A" /\ message = "A"
     /\ Moved("OCCUPATE_CH_B_SIDE_B", TRUE, FALSE, x3)
  \/ /\ A0_state = "OCCUPATE_CH_B_SIDE_B" /\ message = "B"
     /\ Moved("OCCUPATE_CALL_POINTER", TRUE, TRUE, x3)
  \/ /\ A0_state = "OCCUPATE_CH_B_SIDE_B" /\ message \in {"header", "ERROR"}
     /\ Moved("FREE_CH_B_SIDE_A", TRUE, FALSE, x3)
  \/ /\ A0_state \in {"OCCUPATE_CALL_POINTER", "CALL_CONTINUE"}
     /\ message \in {"P", "header"} \cup Checks
     /\ \/ Moved("CALL_CONTINUE", TRUE, TRUE, TRUE) /\ (request' = Check \/ message = "header")
        \/ Moved("FREE_CH_B_SIDE_A", TRUE, TRUE, TRUE) /\ message # "header"
        \/ Moved("FREE_CH_B_SIDE_B", TRUE, TRUE, TRUE) /\ message # "header"
        \/ Moved("FREE_CH_B_SIDE_A", TRUE, TRUE, x3) /\ message = "header"
  \/ /\ A0_state = "FREE_CH_B_SIDE_A" /\ message \in {"header", "ERROR"}
     /\ Moved("FREE_CH_B_SIDE_A", TRUE, x2, x3)
  \/ /\ A0_state = "FREE_CH_B_SIDE_A" /\ message = "FREED" /\ x2
     /\ Moved("FREE_CH_B_SIDE_A", TRUE, FALSE, x3)
  \/ /\ A0_state = "FREE_CH_B_SIDE_A" /\ message = "FREED" /\ ~x2 /\ x3
     /\ Moved("FREE_CALL_POINTER", FALSE, FALSE, TRUE)
  \/ /\ A0_state = "FREE_CH_B_SIDE_A" /\ message = "FREED" /\ ~x2 /\ ~x3
     /\ Moved("OCCUPATE_CH_B_SIDE_A", FALSE, FALSE, FALSE)
  \/ /\ A0_state = "FREE_CH_B_SIDE_B" /\ message \in {"header", "ERROR"}
     /\ Moved("FREE_CH_B_SIDE_B", TRUE, TRUE, TRUE)
  \/ /\ A0_state = "FREE_CH_B_SIDE_B" /\ message = "FREED"
     /\ Moved("FREE_CH_B_SIDE_A", TRUE, FALSE, TRUE)
  \/ /\ A0_state = "FREE_CALL_POINTER" /\ message \in {"header", "ERROR", "FREED P"}
     /\ \E b \in BOOLEAN : Moved("OCCUPATE_CH_B_SIDE_A", FALSE, FALSE, b)

\* What is received moves the automaton so.
LEMMA HandlesGoes ==
  ASSUME GeneratorInv, NEW at, message # "none", Handles(at)
  PROVE  Commanded(at) /\ Goes
<1>1. /\ x1 \in BOOLEAN /\ x2 \in BOOLEAN /\ x3 \in BOOLEAN /\ A0_state \in States
      /\ FlagsOfState /\ AnswerOfState /\ message \in Messages
  BY DEF GeneratorInv, GeneratorTypes
<1>2. TRUE \in BOOLEAN /\ FALSE \in BOOLEAN
  OBVIOUS
<1>3. CASE message = "header"
  <2>1. AnswersQuery(at)
    BY <1>3 DEF Handles, Checks
  <2>2. Commanded(at)
    BY <2>1, QueryMoves
  <2>3. CASE A0_state \in {"OCCUPATE_CH_B_SIDE_A", "OCCUPATE_CH_B_SIDE_B"}
    BY <1>3, <2>1, <2>2, <2>3, QueryMoves DEF Goes
  <2>4. CASE A0_state = "OCCUPATE_CALL_POINTER"
    <3>1. Moved(IF x3 THEN "CALL_CONTINUE" ELSE "FREE_CH_B_SIDE_A", TRUE, TRUE, x3)
      BY <2>1, <2>4, QueryMoves
    <3>2. CASE x3
      <4>1. Moved("CALL_CONTINUE", TRUE, TRUE, TRUE)
        BY <1>1, <3>1, <3>2 DEF Moved
      <4>2. QED
        BY <1>3, <2>2, <2>4, <4>1 DEF Goes
    <3>3. CASE ~x3
      BY <1>3, <2>2, <2>4, <3>1, <3>3 DEF Goes
    <3>4. QED
      BY <3>2, <3>3
  <2>5. CASE A0_state = "CALL_CONTINUE"
    BY <1>3, <2>1, <2>2, <2>5, QueryMoves DEF Goes
  <2>6. CASE A0_state \in {"FREE_CH_B_SIDE_A", "FREE_CH_B_SIDE_B"}
    BY <1>3, <2>1, <2>2, <2>6, QueryMoves DEF Goes
  <2>7. CASE A0_state = "FREE_CALL_POINTER"
    BY <1>2, <1>3, <2>1, <2>2, <2>7, QueryMoves DEF Goes
  <2>8. QED
    BY <1>1, <2>3, <2>4, <2>5, <2>6, <2>7 DEF States
<1>4. CASE message \in Checks
  <2>1. AnswersProcControl(at)
    BY <1>4 DEF Handles, Checks
  <2>2. A0_state = "CALL_CONTINUE" /\ message # "header"
    BY <1>1, <1>4 DEF AnswerOfState, Checks
  <2>3. QED
    BY <1>4, <2>1, <2>2, ProcControlMoves DEF Goes
<1>5. CASE message \notin Checks \cup {"none", "header"}
  <2>1. AnswersCallControl(at)
    BY <1>5 DEF Handles
  <2>2. message \in {"A", "B", "P", "FREED", "FREED P", "ERROR"}
    BY <1>1, <1>5 DEF Messages
  <2>3. Commanded(at)
    BY <1>5, <2>1, CallControlMoves
  <2>4. CASE message = "A"
    BY <1>1, <1>5, <2>1, <2>3, <2>4, CallControlMoves DEF Goes, AnswerOfState
  <2>5. CASE message = "B"
    BY <1>1, <1>5, <2>1, <2>3, <2>5, CallControlMoves DEF Goes, AnswerOfState
  <2>6. CASE message = "P"
    <3>1. \E s \in {"CALL_CONTINUE", "FREE_CH_B_SIDE_A", "FREE_CH_B_SIDE_B"} :
            Moved(s, TRUE, TRUE, TRUE) /\ (s = "CALL_CONTINUE" => request' = Check)
      BY <1>5, <2>1, <2>6, CallControlMoves
    <3>2. A0_state \in {"OCCUPATE_CALL_POINTER", "CALL_CONTINUE"}
      BY <1>1, <2>6 DEF AnswerOfState
    <3>3. \/ Moved("CALL_CONTINUE", TRUE, TRUE, TRUE) /\ request' = Check
          \/ Moved("FREE_CH_B_SIDE_A", TRUE, TRUE, TRUE)
          \/ Moved("FREE_CH_B_SIDE_B", TRUE, TRUE, TRUE)
      BY <3>1
    <3>4. QED
      BY <2>3, <2>6, <3>2, <3>3 DEF Goes
  <2>7. CASE message = "FREED P"
    <3>1. Moved("OCCUPATE_CH_B_SIDE_A", FALSE, FALSE, FALSE)
      BY <1>5, <2>1, <2>7, CallControlMoves
    <3>2. QED
      BY <1>1, <1>2, <2>3, <2>7, <3>1 DEF Goes, AnswerOfState
  <2>8. CASE message = "FREED"
    <3>1. A0_state \in Frees /\ (A0_state = "FREE_CH_B_SIDE_B" => x2 /\ x3)
      BY <1>1, <2>8 DEF AnswerOfState, FlagsOfState
    <3>2. CASE x2
      <4>1. Moved("FREE_CH_B_SIDE_A", TRUE, FALSE, x3)
        BY <1>5, <2>1, <2>8, <3>2, CallControlMoves
      <4>2. A0_state = "FREE_CH_B_SIDE_B" => Moved("FREE_CH_B_SIDE_A", TRUE, FALSE, TRUE)
        BY <1>1, <3>1, <4>1 DEF Moved
      <4>3. QED
        BY <2>3, <2>8, <3>1, <3>2, <4>1, <4>2 DEF Goes, Frees
    <3>3. CASE ~x2
      <4>1. A0_state = "FREE_CH_B_SIDE_A"
        BY <3>1, <3>3 DEF Frees
      <4>2. Moved(IF x3 THEN "FREE_CALL_POINTER" ELSE "OCCUPATE_CH_B_SIDE_A", FALSE, FALSE, x3)
        BY <1>5, <2>1, <2>8, <3>3, CallControlMoves
      <4>3. /\ x3 => Moved("FREE_CALL_POINTER", FALSE, FALSE, TRUE)
            /\ ~x3 => Moved("OCCUPATE_CH_B_SIDE_A", FALSE, FALSE, FALSE)
        BY <1>1, <4>2 DEF Moved
      <4>4. QED
        BY <2>3, <2>8, <3>3, <4>1, <4>3 DEF Goes
    <3>4. QED
      BY <3>2, <3>3
  <2>9. CASE message = "ERROR"
    <3>1. /\ A0_state = "OCCUPATE_CH_B_SIDE_A" => Moved(A0_state, FALSE, FALSE, x3)
          /\ A0_state = "OCCUPATE_CH_B_SIDE_B" => Moved("FREE_CH_B_SIDE_A", TRUE, FALSE, x3)
          /\ A0_state = "FREE_CH_B_SIDE_A" => Moved(A0_state, TRUE, x2, x3)
          /\ A0_state = "FREE_CH_B_SIDE_B" => Moved(A0_state, TRUE, TRUE, TRUE)
          /\ A0_state = "FREE_CALL_POINTER" => Moved("OCCUPATE_CH_B_SIDE_A", FALSE, FALSE, TRUE)
      BY <1>5, <2>1, <2>9, CallControlMoves
    <3>2. A0_state \notin {"OCCUPATE_CALL_POINTER", "CALL_CONTINUE"}
      BY <1>1, <2>9 DEF AnswerOfState
    <3>3. CASE A0_state \in {"OCCUPATE_CH_B_SIDE_A", "OCCUPATE_CH_B_SIDE_B"}
      BY <2>3, <2>9, <3>1, <3>3 DEF Goes
    <3>4. CASE A0_state \in {"FREE_CH_B_SIDE_A", "FREE_CH_B_SIDE_B"}
      BY <2>3, <2>9, <3>1, <3>4 DEF Goes
    <3>5. CASE A0_state = "FREE_CALL_POINTER"
      BY <1>2, <2>3, <2>9, <3>1, <3>5 DEF Goes
    <3>6. QED
      BY <1>1, <3>2, <3>3, <3>4, <3>5 DEF States
  <2>10. QED
    BY <2>2, <2>4, <2>5, <2>6, <2>7, <2>8, <2>9
<1>6. QED
  BY <1>3, <1>4, <1>5

\* The flags, the state and what is asked, after it.
LEMMA GoesKeeps ==
  ASSUME GeneratorInv, NEW at, Commanded(at), Goes
  PROVE  /\ A0_state' \in States /\ x1' \in BOOLEAN /\ x2' \in BOOLEAN /\ x3' \in BOOLEAN
         /\ FlagsOfState'
         /\ command_to_storage'.code = CommandOf(A0_state')
         /\ \/ request'.code = CommandOf(A0_state')
            \/ request' = Check /\ A0_state' = "CALL_CONTINUE"
<1>1. /\ x1 \in BOOLEAN /\ x2 \in BOOLEAN /\ x3 \in BOOLEAN /\ A0_state \in States
      /\ FlagsOfState /\ command_to_storage.code = CommandOf(A0_state)
  BY DEF GeneratorInv, GeneratorTypes, RequestOfState
<1>2. A0_state' \in States /\ x1' \in BOOLEAN /\ x2' \in BOOLEAN /\ x3' \in BOOLEAN
  BY <1>1 DEF Goes, Moved, States
<1>3. FlagsOfState'
  BY <1>1 DEF Goes, Moved, FlagsOfState
<1>4. A0_state' = "CALL_CONTINUE" => CommandOf(A0_state) = "OCCUPATE_P"
  BY Codes DEF Goes, Moved, CommandOf
<1>5. command_to_storage'.code = CommandOf(A0_state')
  <2>1. CASE A0_state' = "CALL_CONTINUE"
    BY <1>1, <1>4, <2>1 DEF Commanded, CommandOf
  <2>2. CASE A0_state' # "CALL_CONTINUE" /\ A0_state' = A0_state
    BY <1>1, <2>2 DEF Commanded
  <2>3. CASE A0_state' # "CALL_CONTINUE" /\ A0_state' # A0_state
    BY <2>3 DEF Commanded, CommandOf
  <2>4. QED
    BY <2>1, <2>2, <2>3
<1>6. QED
  BY <1>2, <1>3, <1>5 DEF Commanded

\* A call's history has a type.
CallTyped ==
  /\ call.ended_by \in {"none", "FREE_A", "FREE_B"} /\ call.checked \in BOOLEAN
  /\ call.stuck \in BOOLEAN /\ call.broken \in BOOLEAN
  /\ call = [ended_by |-> call.ended_by, checked |-> call.checked, stuck |-> call.stuck,
             broken |-> call.broken]

\* What the state that is left and the one that is entered make of the end of
\* a call.
EndsWith ==
  IF A0_state \in {"CALL_CONTINUE", "OCCUPATE_CALL_POINTER"} /\ A0_state' \in Frees
  THEN Code(A0_state') ELSE call.ended_by

\* What becomes of the call's history when its automaton has moved.
LEMMA CallIsRecorded ==
  ASSUME CallTyped, NEW loses \in BOOLEAN, CallRecorded(loses)
  PROVE  /\ Returns => /\ held' = {} /\ call'.ended_by = "none" /\ call'.broken = loses
                       /\ call'.checked = FALSE /\ call'.stuck = FALSE
         /\ ~Returns => /\ held' = held /\ call'.ended_by = EndsWith
                        /\ call'.checked = (call.checked \/ request' = Check)
                        /\ call'.stuck = call.stuck
                        /\ call'.broken = (call.broken \/ loses)
         /\ CallTyped'
<1> DEFINE e == EndsWith
           c == call.checked \/ request' = Check
           b == call.broken \/ loses
<1>1. c \in BOOLEAN /\ b \in BOOLEAN /\ call.stuck \in BOOLEAN
  BY DEF CallTyped
<1>2. e \in {"none", "FREE_A", "FREE_B"}
  BY Codes DEF EndsWith, Frees, CallTyped
<1>3. CASE Returns
  <2>1. held' = {} /\ call' = [ended_by |-> "none", checked |-> FALSE, stuck |-> FALSE,
                               broken |-> loses]
    BY <1>3 DEF CallRecorded, NewCall
  <2>2. QED
    BY <1>3, <2>1 DEF CallTyped
<1>4. CASE ~Returns
  <2>1. held' = held /\ call' = [call EXCEPT !.ended_by = e, !.checked = c, !.broken = b]
    BY <1>4 DEF CallRecorded, EndsWith
  <2>2. call = [ended_by |-> call.ended_by, checked |-> call.checked, stuck |-> call.stuck,
                broken |-> call.broken]
    BY DEF CallTyped
  <2> HIDE DEF e, c, b
  <2>3. call' = [ended_by |-> e, checked |-> c, stuck |-> call.stuck, broken |-> b]
    BY <2>1, <2>2
  <2>4. call'.ended_by = e /\ call'.checked = c /\ call'.stuck = call.stuck /\ call'.broken = b
    BY <2>3
  <2>5. CallTyped'
    BY <1>1, <1>2, <2>3 DEF CallTyped
  <2>6. QED
    BY <1>4, <2>1, <2>4, <2>5 DEF e, c, b
<1>5. QED
  BY <1>3, <1>4

\* What a call has, after an answer has been received and the next request sent.
LEMMA AnsweredCallHas ==
  ASSUME GeneratorInv, NEW at, message # "none", Handles(at), CallRecorded(FALSE),
         message' = "none", pointer_at' = pointer_at, ~call'.broken
  PROVE  EndedBy' /\ HasA' /\ HasB' /\ HasP' /\ Pointed'
<1>1. Commanded(at) /\ Goes
  BY HandlesGoes
<1>2. CallTyped /\ A0_state \in States /\ held \subseteq {"A", "B", "P"} /\ AnswerOfState
      /\ x1 \in BOOLEAN /\ x2 \in BOOLEAN /\ x3 \in BOOLEAN /\ FlagsOfState
  BY DEF GeneratorInv, GeneratorTypes, CallTyped
<1>3. FALSE \in BOOLEAN
  OBVIOUS
<1>4. CASE Returns
  <2>1. held' = {} /\ call'.ended_by = "none" /\ A0_state' = "OCCUPATE_CH_B_SIDE_A"
    BY <1>2, <1>3, <1>4, CallIsRecorded DEF Returns
  <2>2. QED
    BY <2>1 DEF EndedBy, HasA, HasB, HasP, Pointed, Frees
<1>5. CASE ~Returns
  <2>1. /\ held' = held /\ call'.ended_by = EndsWith
        /\ call'.checked = (call.checked \/ request' = Check)
        /\ call'.broken = (call.broken \/ FALSE)
    BY <1>2, <1>3, <1>5, CallIsRecorded
  <2>2. ~call.broken
    BY <2>1
  <2>3. /\ message = "header" => A0_state = "OCCUPATE_CH_B_SIDE_A"
        /\ EndedBy /\ HasA /\ HasB /\ HasP /\ Pointed
    BY <2>2 DEF GeneratorInv, Unbroken
  <2>4. A0_state' = "OCCUPATE_CH_B_SIDE_A" => A0_state = "OCCUPATE_CH_B_SIDE_A"
    BY <1>5 DEF Returns
  <2>5. CASE A0_state = "OCCUPATE_CH_B_SIDE_A"
    <3>1. \/ A0_state' = "OCCUPATE_CH_B_SIDE_A" /\ message # "A"
          \/ A0_state' = "OCCUPATE_CH_B_SIDE_B" /\ message = "A"
      BY <1>1, <2>5 DEF Goes, Moved
    <3>2. "B" \notin held /\ "P" \notin held /\ ("A" \in held <=> message = "A")
      BY <2>3, <2>5 DEF HasA, HasB, HasP, Frees
    <3>3. call'.ended_by = "none"
      BY <2>1, <2>3, <2>5 DEF EndedBy, Frees, EndsWith
    <3>4. QED
      BY <2>1, <3>1, <3>2, <3>3 DEF EndedBy, HasA, HasB, HasP, Pointed, Frees
  <2>6. CASE A0_state = "OCCUPATE_CH_B_SIDE_B"
    <3>1. \/ A0_state' = "OCCUPATE_CALL_POINTER" /\ message = "B"
          \/ A0_state' = "FREE_CH_B_SIDE_A" /\ x2' = FALSE /\ message # "B"
      BY <1>1, <2>6 DEF Goes, Moved
    <3>2. "A" \in held /\ "P" \notin held /\ ("B" \in held <=> message = "B")
      BY <2>3, <2>6 DEF HasA, HasB, HasP, Frees
    <3>3. call'.ended_by = "none"
      BY <2>1, <2>3, <2>6 DEF EndedBy, Frees, EndsWith
    <3>4. A0_state' = "OCCUPATE_CALL_POINTER" => request'.at = at /\ current_call_pointer' = at
      BY <1>1, <2>6 DEF Commanded
    <3>5. QED
      BY <2>1, <3>1, <3>2, <3>3, <3>4 DEF EndedBy, HasA, HasB, HasP, Pointed, Frees
  <2>7. CASE A0_state \in {"OCCUPATE_CALL_POINTER", "CALL_CONTINUE"}
    <3>1. message # "header"
      BY <2>3, <2>7
    <3>2. /\ A0_state' = "CALL_CONTINUE" => request' = Check
          /\ A0_state' \in {"CALL_CONTINUE", "FREE_CH_B_SIDE_A", "FREE_CH_B_SIDE_B"}
          /\ x2' = TRUE /\ x3' = TRUE
      BY <1>1, <2>7, <3>1 DEF Goes, Moved
    <3>3. message \in {"P"} \cup Checks
      BY <1>1, <2>7, <3>1 DEF Goes
    <3>4. message = "P" \/ A0_state = "CALL_CONTINUE"
      BY <1>2, <3>3 DEF AnswerOfState
    <3>5. "A" \in held /\ "B" \in held /\ "P" \in held
      BY <2>3, <2>7, <3>4 DEF HasA, HasB, HasP
    <3>6. /\ A0_state' = "CALL_CONTINUE" => call'.ended_by = "none"
          /\ A0_state' = "FREE_CH_B_SIDE_A" => call'.ended_by = "FREE_A"
          /\ A0_state' = "FREE_CH_B_SIDE_B" => call'.ended_by = "FREE_B"
      BY <2>1, <2>3, <2>7, Codes DEF EndsWith, Frees, EndedBy
    <3>7. A0_state' # "CALL_CONTINUE" => current_call_pointer' = current_call_pointer
      BY <1>1, <3>2 DEF Commanded
    <3>8. A0_state' = "CALL_CONTINUE" => call'.checked
      BY <2>1, <3>2
    <3>9. Pointed'
      BY <2>1, <2>3, <3>2, <3>5, <3>7, <3>8 DEF Pointed
    <3>10. QED
      BY <2>1, <3>2, <3>5, <3>6, <3>9 DEF EndedBy, HasA, HasB, HasP, Frees
  <2>8. CASE A0_state \in {"FREE_CH_B_SIDE_A", "FREE_CH_B_SIDE_B", "FREE_CALL_POINTER"}
    <3>1. call'.ended_by = call.ended_by
      BY <2>1, <2>8 DEF EndsWith
    <3>2. A0_state' \in {"FREE_CH_B_SIDE_A", "FREE_CH_B_SIDE_B", "FREE_CALL_POINTER"}
      BY <1>1, <2>4, <2>8 DEF Goes, Moved
    <3>3. current_call_pointer' = current_call_pointer /\ request' = command_to_storage'
      BY <1>1, <3>2 DEF Commanded
    <3>4. /\ A0_state # "FREE_CALL_POINTER"
          /\ A0_state' = "FREE_CALL_POINTER" => request'.at = current_call_pointer'
      BY <1>1, <2>8, <3>2, <3>3 DEF Goes, Moved, Commanded
    <3>5. Pointed'
      BY <2>1, <2>3, <3>2, <3>3, <3>4 DEF Pointed
    <3>6. CASE A0_state = "FREE_CH_B_SIDE_B"
      <4>1. \/ A0_state' = "FREE_CH_B_SIDE_B" /\ message # "FREED"
            \/ A0_state' = "FREE_CH_B_SIDE_A" /\ x2' = FALSE /\ x3' = TRUE /\ message = "FREED"
        BY <1>1, <3>6 DEF Goes, Moved
      <4>2. /\ call.ended_by = "FREE_B" /\ "A" \in held /\ "P" \in held
            /\ "B" \in held <=> message # "FREED"
        BY <2>3, <3>6 DEF EndedBy, HasA, HasB, HasP, Frees
      <4>3. QED
        BY <2>1, <3>1, <3>5, <4>1, <4>2 DEF EndedBy, HasA, HasB, HasP, Frees
    <3>7. CASE A0_state = "FREE_CH_B_SIDE_A"
      <4>1. \/ A0_state' = "FREE_CH_B_SIDE_A" /\ x2' = x2 /\ x3' = x3 /\ message # "FREED"
            \/ A0_state' = "FREE_CH_B_SIDE_A" /\ x2 /\ x2' = FALSE /\ x3' = x3 /\ message = "FREED"
            \/ A0_state' = "FREE_CALL_POINTER" /\ ~x2 /\ message = "FREED"
        BY <1>1, <2>4, <3>7 DEF Goes, Moved
      <4>2. /\ call.ended_by # "none" => x3
            /\ call.ended_by # "FREE_A" => ~x2
            /\ "A" \in held <=> message # "FREED" /\ (call.ended_by = "FREE_A" => x2)
            /\ "B" \in held <=> call.ended_by = "FREE_A"
            /\ "P" \in held <=> call.ended_by # "none"
        BY <2>3, <3>7 DEF EndedBy, HasA, HasB, HasP, Frees
      <4>3. QED
        BY <1>2, <2>1, <3>1, <3>5, <4>1, <4>2 DEF EndedBy, HasA, HasB, HasP, Frees
    <3>8. QED
      BY <2>8, <3>4, <3>6, <3>7
  <2>9. QED
    BY <1>2, <2>5, <2>6, <2>7, <2>8 DEF States
<1>6. QED
  BY <1>4, <1>5

\* Of the generator and the storage, the types and what belongs to the state
\* whatever was lost, when what was sent has been handled.
LEMMA HandledKeeps ==
  ASSUME GeneratorInv, NEW at, NEW loses \in BOOLEAN, message # "none", Handles(at),
         CallRecorded(loses), message' \in {"none", "header"}, storage \in {"tid", "serving"},
         storage = "tid" => message' = "none",
         storage' \in {storage, "ended"}, generator' = generator, mock_counter' = mock_counter,
         turn' \in 0 .. 5, failures' \in 0 .. (STORAGE_MAX_FAILURES + 1),
         storage' # "ended" => failures' <= STORAGE_MAX_FAILURES
  PROVE  GeneratorTypes' /\ FlagsOfState' /\ RequestOfState' /\ AnswerOfState' /\ Registering'
<1>1. GeneratorTypes /\ Registering /\ CallTyped
  BY DEF GeneratorInv, GeneratorTypes, CallTyped
<1>2. Commanded(at) /\ Goes
  BY HandlesGoes
<1>3. /\ A0_state' \in States /\ x1' \in BOOLEAN /\ x2' \in BOOLEAN /\ x3' \in BOOLEAN
      /\ FlagsOfState'
      /\ command_to_storage'.code = CommandOf(A0_state')
      /\ \/ request'.code = CommandOf(A0_state')
         \/ request' = Check /\ A0_state' = "CALL_CONTINUE"
  BY <1>2, GoesKeeps
<1>4. CallTyped'
  BY <1>1, CallIsRecorded
<1>5. held' \in {held, {}}
  BY <1>1, CallIsRecorded
<1>6. GeneratorTypes'
  <2>1. storage' \in {"pid", "tid", "serving", "ended"} /\ generator' \in {"start", "runs", "done"}
        /\ mock_counter' \in 0 .. (MOCK_MAX_COUNTER + 1)
    BY <1>1 DEF GeneratorTypes
  <2>2. held' \subseteq {"A", "B", "P"}
    BY <1>1, <1>5 DEF GeneratorTypes
  <2>3. message' \in Messages
    BY DEF Messages
  <2>4. QED
    BY <1>3, <1>4, <2>1, <2>2, <2>3 DEF GeneratorTypes, CallTyped
<1>7. RequestOfState' /\ AnswerOfState'
  BY <1>3 DEF RequestOfState, AnswerOfState, Checks
<1>8. Registering'
  <2>1. SUFFICES ASSUME storage = "tid"
                 PROVE  A0_state' = "OCCUPATE_CH_B_SIDE_A"
    BY DEF Registering
  <2>2. A0_state = "OCCUPATE_CH_B_SIDE_A" /\ message = "header"
    BY <1>1, <2>1 DEF Registering
  <2>3. QED
    BY <1>2, <2>2 DEF Goes, Moved
<1>9. QED
  BY <1>3, <1>6, <1>7, <1>8

\* Counting the calls keeps the turn below six, and a failure keeps the count
\* of failures while the storage goes on.
LEMMA TurnsAndFailures ==
  ASSUME GeneratorInv
  PROVE  /\ NextTurn => turn' \in 0 .. 5
         /\ storage # "ended" /\ Fails =>
              /\ failures' \in 0 .. (STORAGE_MAX_FAILURES + 1)
              /\ storage' \in {storage, "ended"}
              /\ storage' # "ended" => failures' <= STORAGE_MAX_FAILURES
<1>1. turn \in 0 .. 5 /\ failures \in 0 .. (STORAGE_MAX_FAILURES + 1)
      /\ (storage # "ended" => failures <= STORAGE_MAX_FAILURES)
  BY DEF GeneratorInv, GeneratorTypes
<1>2. STORAGE_MAX_FAILURES \in Nat
  BY GeneratorAssumption
<1>3. QED
  BY <1>1, <1>2 DEF NextTurn, Fails

\* The generator receives and its reply arrives,
LEMMA RespondStep ==
  ASSUME GeneratorInv, NEW at, Respond(at)
  PROVE  GeneratorInv'
<1>1. /\ Handles(at) /\ CallRecorded(FALSE) /\ NextTurn /\ message' = "none" /\ message # "none"
      /\ storage \in {"tid", "serving"} /\ pointer_at' = pointer_at
      /\ storage' = storage /\ failures' = failures /\ mock_counter' = mock_counter
      /\ generator' = generator
  BY DEF Respond
<1>2. failures \in 0 .. (STORAGE_MAX_FAILURES + 1) /\ failures <= STORAGE_MAX_FAILURES
  BY <1>1 DEF GeneratorInv, GeneratorTypes
<1>3. FALSE \in BOOLEAN /\ turn' \in 0 .. 5
  BY <1>1, TurnsAndFailures
<1>4. GeneratorTypes' /\ FlagsOfState' /\ RequestOfState' /\ AnswerOfState' /\ Registering'
  BY <1>1, <1>2, <1>3, HandledKeeps
<1>5. Unbroken'
  <2>1. SUFFICES ASSUME ~call'.broken
                 PROVE  EndedBy' /\ HasA' /\ HasB' /\ HasP' /\ Pointed'
    BY <1>1 DEF Unbroken
  <2>2. QED
    BY <1>1, <2>1, AnsweredCallHas
<1>6. QED
  BY <1>4, <1>5 DEF GeneratorInv

\* or the reply is lost.
LEMMA ReplyLostStep ==
  ASSUME GeneratorInv, NEW at, ReplyLost(at)
  PROVE  GeneratorInv'
<1>1. /\ Handles(at) /\ CallRecorded(TRUE) /\ Fails /\ message' = "header" /\ message # "none"
      /\ storage = "serving" /\ mock_counter' = mock_counter /\ generator' = generator
      /\ turn' = turn
  BY DEF ReplyLost, Fails
<1>2. TRUE \in BOOLEAN /\ turn \in 0 .. 5 /\ CallTyped
  BY DEF GeneratorInv, GeneratorTypes, CallTyped
<1>3. /\ failures' \in 0 .. (STORAGE_MAX_FAILURES + 1)
      /\ storage' \in {storage, "ended"}
      /\ storage' # "ended" => failures' <= STORAGE_MAX_FAILURES
  BY <1>1, TurnsAndFailures
<1>4. GeneratorTypes' /\ FlagsOfState' /\ RequestOfState' /\ AnswerOfState' /\ Registering'
  BY <1>1, <1>2, <1>3, HandledKeeps
<1>5. call'.broken = TRUE
  <2>1. call'.broken = TRUE \/ call'.broken = (call.broken \/ TRUE)
    BY <1>1, <1>2, CallIsRecorded
  <2>2. QED
    BY <2>1
<1>6. Unbroken'
  BY <1>5 DEF Unbroken
<1>7. QED
  BY <1>4, <1>6 DEF GeneratorInv

\* A message of the storage is lost.
LEMMA MessageLostStep ==
  ASSUME GeneratorInv, MessageLost
  PROVE  GeneratorInv'
<1>1. /\ Fails /\ storage = "serving" /\ message' = "header" /\ held' = held
      /\ mock_counter' = mock_counter /\ generator' = generator
      /\ call' = [call EXCEPT !.broken = TRUE] /\ UNCHANGED vars_of_call
  BY DEF MessageLost, Fails
<1>2. GeneratorTypes /\ FlagsOfState /\ RequestOfState /\ AnswerOfState
  BY DEF GeneratorInv
<1>3. /\ failures' \in 0 .. (STORAGE_MAX_FAILURES + 1)
      /\ storage' \in {storage, "ended"}
      /\ storage' # "ended" => failures' <= STORAGE_MAX_FAILURES
  BY <1>1, TurnsAndFailures
<1>4. CallTyped' /\ call'.broken = TRUE
  <2>1. CallTyped /\ TRUE \in BOOLEAN
    BY <1>2 DEF GeneratorTypes, CallTyped
  <2>2. call' = [ended_by |-> call.ended_by, checked |-> call.checked, stuck |-> call.stuck,
                 broken |-> TRUE]
    BY <1>1, <2>1 DEF CallTyped
  <2>3. QED
    BY <2>1, <2>2 DEF CallTyped
<1>5. GeneratorTypes'
  <2>1. message' \in Messages
    BY <1>1 DEF Messages
  <2>2. QED
    BY <1>1, <1>2, <1>3, <1>4, <2>1 DEF GeneratorTypes, CallTyped, vars_of_call, automaton
<1>6. FlagsOfState' /\ RequestOfState' /\ AnswerOfState'
  BY <1>1, <1>2 DEF FlagsOfState, RequestOfState, AnswerOfState, Checks, vars_of_call, automaton
<1>7. Registering' /\ Unbroken'
  BY <1>1, <1>3, <1>4 DEF Registering, Unbroken
<1>8. QED
  BY <1>5, <1>6, <1>7 DEF GeneratorInv

\* Steps that leave the call alone: the first message is received, the
\* generator is done, the registration ends the storage.
LEMMA CallLeft ==
  ASSUME GeneratorInv, UNCHANGED <<failures, mock_counter, vars_of_call, message, recorded>>,
         storage' \in {storage, "ended"} \/ (storage = "pid" /\ storage' = "tid"),
         generator' \in {"start", "runs", "done"}
  PROVE  GeneratorInv'
<1>1. GeneratorTypes'
  BY DEF GeneratorInv, GeneratorTypes, vars_of_call, automaton, recorded
<1>2. FlagsOfState' /\ RequestOfState' /\ AnswerOfState' /\ Registering'
  BY DEF GeneratorInv, FlagsOfState, RequestOfState, AnswerOfState, Registering, vars_of_call,
         automaton
<1>3. Unbroken'
  BY DEF GeneratorInv, Unbroken, EndedBy, HasA, HasB, HasP, Pointed, vars_of_call, automaton,
         recorded
<1>4. QED
  BY <1>1, <1>2, <1>3 DEF GeneratorInv

\* The reply to the second registration: nothing has been asked yet.
LEMMA RegisteredStep ==
  ASSUME GeneratorInv, Registered
  PROVE  GeneratorInv'
<1>1. /\ storage = "tid" /\ message = "none" /\ storage' = "serving" /\ message' = "header"
      /\ request' = NoRequest
      /\ UNCHANGED <<failures, mock_counter, generator, turn, automaton, current_call_pointer,
                     recorded>>
  BY DEF Registered
<1>2. A0_state = "OCCUPATE_CH_B_SIDE_A"
  BY <1>1 DEF GeneratorInv, Registering
<1>3. GeneratorTypes'
  <2>1. message' \in Messages
    BY <1>1 DEF Messages
  <2>2. QED
    BY <1>1, <2>1 DEF GeneratorInv, GeneratorTypes, automaton, recorded
<1>4. FlagsOfState' /\ RequestOfState' /\ AnswerOfState' /\ Registering'
  BY <1>1, <1>2 DEF GeneratorInv, FlagsOfState, RequestOfState, AnswerOfState, Registering,
         automaton, Checks
<1>5. Unbroken'
  BY <1>1, <1>2 DEF GeneratorInv, Unbroken, EndedBy, HasA, HasB, HasP, Pointed, automaton,
         recorded, Frees
<1>6. QED
  BY <1>3, <1>4, <1>5 DEF GeneratorInv

\* What the storage answers in each state, and what it has given then.
ServedHas ==
  \/ /\ request = Check /\ A0_state = "CALL_CONTINUE" /\ message' \in Checks
     /\ held' = held /\ pointer_at' = pointer_at
  \/ /\ A0_state = "OCCUPATE_CH_B_SIDE_A" /\ pointer_at' = pointer_at
     /\ \/ message' = "A" /\ held' = held \cup {"A"}
        \/ message' = "ERROR" /\ held' = held
  \/ /\ A0_state = "OCCUPATE_CH_B_SIDE_B" /\ pointer_at' = pointer_at
     /\ \/ message' = "B" /\ held' = held \cup {"B"}
        \/ message' = "ERROR" /\ held' = held
  \/ /\ A0_state \in {"OCCUPATE_CALL_POINTER", "CALL_CONTINUE"} /\ pointer_at' = request.at
     /\ message' = "P" /\ held' = held \cup {"P"}
  \/ /\ A0_state = "FREE_CH_B_SIDE_A" /\ pointer_at' = pointer_at
     /\ \/ message' = "FREED" /\ held' = held \ {"A"}
        \/ message' = "ERROR" /\ held' = held
  \/ /\ A0_state = "FREE_CH_B_SIDE_B" /\ pointer_at' = pointer_at
     /\ \/ message' = "FREED" /\ held' = held \ {"B"}
        \/ message' = "ERROR" /\ held' = held
  \/ /\ A0_state = "FREE_CALL_POINTER" /\ pointer_at' = pointer_at
     /\ \/ message' = "FREED P" /\ held' = held \ (IF request.at = pointer_at THEN {"P"} ELSE {})
        \/ message' = "ERROR" /\ held' = held /\ call'.stuck = TRUE

\* What else it does: the call's history changes but for what is stuck.
LEMMA ServeRecords ==
  ASSUME CallTyped, Serve
  PROVE  /\ CallTyped' /\ call'.ended_by = call.ended_by /\ call'.checked = call.checked
         /\ call'.broken = call.broken
         /\ call'.stuck = (call.stuck \/ (Denied /\ request.code = "FREE_P"))
<1> DEFINE s == call.stuck \/ (Denied /\ request.code = "FREE_P")
<1>1. s \in BOOLEAN
  BY DEF CallTyped
<1>2. call' = [call EXCEPT !.stuck = s]
  BY DEF Serve
<1> HIDE DEF s
<1>3. call' = [ended_by |-> call.ended_by, checked |-> call.checked, stuck |-> s,
               broken |-> call.broken]
  BY <1>2 DEF CallTyped
<1>4. CallTyped'
  BY <1>1, <1>3 DEF CallTyped
<1>5. QED
  BY <1>3, <1>4 DEF s

\* A request is granted or denied as its state says.
LEMMA ServeAnswers ==
  ASSUME GeneratorInv, Serve
  PROVE  ServedHas
<1>1. /\ message = "none"
      /\ IF Denied THEN Denies ELSE Grants
      /\ pointer_at' = IF request.code = "OCCUPATE_P" THEN request.at ELSE pointer_at
  BY DEF Serve
<1>2. A0_state \in States /\ CallTyped
  BY DEF GeneratorInv, GeneratorTypes, CallTyped
<1>3. \/ request.code = CommandOf(A0_state)
      \/ request = Check /\ A0_state = "CALL_CONTINUE"
  BY <1>1 DEF GeneratorInv, RequestOfState
<1>4. Check.code = "QUERY_STATE_OF_CHANNEL_B"
  BY DEF Check
<1>5. /\ DOMAIN Given = {"OCCUPATE_A", "OCCUPATE_B", "OCCUPATE_P"}
      /\ Given["OCCUPATE_A"] = "A" /\ Given["OCCUPATE_B"] = "B" /\ Given["OCCUPATE_P"] = "P"
  BY DEF Given
<1>6. CASE request = Check /\ A0_state = "CALL_CONTINUE"
  <2>1. request.code \notin DOMAIN Given \cup {"FREE_A", "FREE_B", "FREE_P"}
    BY <1>4, <1>5, <1>6
  <2>2. message' \in Checks /\ held' = held
    BY <1>1, <1>6, <2>1 DEF Grants, Denies, Checks
  <2>3. pointer_at' = pointer_at
    BY <1>1, <1>5, <2>1
  <2>4. QED
    BY <1>6, <2>2, <2>3 DEF ServedHas
<1>7. CASE request.code = CommandOf(A0_state)
  <2>1. request # Check
    BY <1>2, <1>4, <1>7, Codes DEF CommandOf, States
  <2>2. CASE A0_state = "OCCUPATE_CH_B_SIDE_A"
    <3>1. request.code = "OCCUPATE_A"
      BY <1>7, <2>2, Codes DEF CommandOf
    <3>2. QED
      BY <1>1, <1>5, <2>1, <2>2, <3>1 DEF Grants, Denies, ServedHas
  <2>3. CASE A0_state = "OCCUPATE_CH_B_SIDE_B"
    <3>1. request.code = "OCCUPATE_B"
      BY <1>7, <2>3, Codes DEF CommandOf
    <3>2. QED
      BY <1>1, <1>5, <2>1, <2>3, <3>1 DEF Grants, Denies, ServedHas
  <2>4. CASE A0_state \in {"OCCUPATE_CALL_POINTER", "CALL_CONTINUE"}
    <3>1. request.code = "OCCUPATE_P"
      BY <1>7, <2>4, Codes DEF CommandOf
    <3>2. ~Denied
      BY <3>1 DEF Denied, Counted
    <3>3. message' = "P" /\ held' = held \cup {"P"}
      BY <1>1, <1>5, <2>1, <3>1, <3>2 DEF Grants
    <3>4. QED
      BY <1>1, <2>4, <3>1, <3>3 DEF ServedHas
  <2>5. CASE A0_state = "FREE_CH_B_SIDE_A"
    <3>1. request.code = "FREE_A"
      BY <1>7, <2>5, Codes DEF CommandOf
    <3>2. QED
      BY <1>1, <1>5, <2>1, <2>5, <3>1 DEF Grants, Denies, ServedHas, Forgotten
  <2>6. CASE A0_state = "FREE_CH_B_SIDE_B"
    <3>1. request.code = "FREE_B"
      BY <1>7, <2>6, Codes DEF CommandOf
    <3>2. QED
      BY <1>1, <1>5, <2>1, <2>6, <3>1 DEF Grants, Denies, ServedHas, Forgotten
  <2>7. CASE A0_state = "FREE_CALL_POINTER"
    <3>1. request.code = "FREE_P"
      BY <1>7, <2>7, Codes DEF CommandOf
    <3>2. call'.stuck = (call.stuck \/ (Denied /\ request.code = "FREE_P"))
      BY <1>2, ServeRecords
    <3>3. CASE Denied
      <4>1. call'.stuck = TRUE
        BY <3>1, <3>2, <3>3
      <4>2. QED
        BY <1>1, <2>1, <2>7, <3>1, <3>3, <4>1 DEF Denies, ServedHas
    <3>4. CASE ~Denied
      BY <1>1, <1>5, <2>1, <2>7, <3>1, <3>4 DEF Grants, ServedHas, Forgotten
    <3>5. QED
      BY <3>3, <3>4
  <2>8. QED
    BY <1>2, <2>2, <2>3, <2>4, <2>5, <2>6, <2>7 DEF States
<1>8. QED
  BY <1>3, <1>6, <1>7

\* A request is served.
LEMMA ServeStep ==
  ASSUME GeneratorInv, Serve
  PROVE  GeneratorInv'
<1>1. /\ storage = "serving" /\ message = "none" /\ Counts
      /\ UNCHANGED <<storage, failures, generator, turn, automaton, current_call_pointer>>
  BY DEF Serve
<1>2. GeneratorTypes /\ FlagsOfState /\ RequestOfState /\ CallTyped
  BY DEF GeneratorInv, GeneratorTypes, CallTyped
<1>3. ServedHas
  BY ServeAnswers
<1>4. /\ CallTyped' /\ call'.ended_by = call.ended_by /\ call'.checked = call.checked
      /\ call'.broken = call.broken
  BY <1>2, ServeRecords
<1>5. mock_counter' \in 0 .. (MOCK_MAX_COUNTER + 1)
  BY <1>1, <1>2, GeneratorAssumption DEF GeneratorTypes, Counts, Count
<1>6. message' \in Messages \ {"header", "none"} /\ held' \subseteq {"A", "B", "P"}
  BY <1>2, <1>3 DEF ServedHas, Messages, Checks, GeneratorTypes
<1>7. GeneratorTypes'
  BY <1>1, <1>2, <1>4, <1>5, <1>6 DEF GeneratorTypes, CallTyped, automaton
<1>8. FlagsOfState' /\ RequestOfState' /\ Registering'
  BY <1>1, <1>2, <1>6 DEF FlagsOfState, RequestOfState, Registering, automaton
<1>9. AnswerOfState'
  BY <1>1, <1>3 DEF AnswerOfState, ServedHas, Checks, Frees, automaton
<1>10. ASSUME ~call'.broken
       PROVE  EndedBy' /\ HasA' /\ HasB' /\ HasP' /\ Pointed'
  <2>1. EndedBy /\ HasA /\ HasB /\ HasP /\ Pointed
    BY <1>4, <1>10 DEF GeneratorInv, Unbroken
  <2>2. A0_state' = A0_state /\ x2' = x2 /\ x3' = x3 /\ current_call_pointer' = current_call_pointer
    BY <1>1 DEF automaton
  <2>3. EndedBy'
    BY <1>4, <2>1, <2>2 DEF EndedBy
  <2>4. HasA'
    BY <1>1, <1>3, <1>4, <2>1, <2>2 DEF HasA, ServedHas, Checks
  <2>5. HasB'
    BY <1>1, <1>3, <1>4, <2>1, <2>2 DEF HasB, ServedHas, Checks
  <2>6. HasP'
    BY <1>1, <1>3, <1>4, <2>1, <2>2 DEF HasP, ServedHas, Checks, Pointed, Frees
  <2>7. Pointed'
    BY <1>1, <1>3, <1>4, <1>6, <2>1, <2>2 DEF Pointed, ServedHas, HasP, Frees
  <2>8. QED
    BY <2>3, <2>4, <2>5, <2>6, <2>7
<1>11. Unbroken'
  BY <1>6, <1>10 DEF Unbroken
<1>12. QED
  BY <1>7, <1>8, <1>9, <1>11 DEF GeneratorInv

\* It holds when both programs start.
LEMMA GeneratorInvInit == GeneratorInit => GeneratorInv
<1> SUFFICES ASSUME GeneratorInit
             PROVE  GeneratorInv
  OBVIOUS
<1>1. /\ storage = "pid" /\ failures = 0 /\ mock_counter = 0
      /\ generator = "start" /\ turn = 1
      /\ A0_state = "OCCUPATE_CH_B_SIDE_A" /\ x1 = FALSE /\ x2 = FALSE /\ x3 = FALSE
      /\ command_to_storage = [code |-> "OCCUPATE_A", at |-> Nowhere]
      /\ message = "header" /\ held = {} /\ call = NewCall
  BY DEF GeneratorInit, InitialExcept
<1>2. CallTyped /\ call.ended_by = "none"
  BY <1>1 DEF CallTyped, NewCall
<1>3. GeneratorTypes
  <2>1. message \in Messages /\ A0_state \in States
    BY <1>1 DEF Messages, States
  <2>2. failures \in 0 .. (STORAGE_MAX_FAILURES + 1) /\ failures <= STORAGE_MAX_FAILURES
        /\ mock_counter \in 0 .. (MOCK_MAX_COUNTER + 1)
    BY <1>1, GeneratorAssumption
  <2>3. x1 \in BOOLEAN /\ x2 \in BOOLEAN /\ x3 \in BOOLEAN
    BY <1>1
  <2>4. turn \in 0 .. 5 /\ held \subseteq {"A", "B", "P"}
    BY <1>1
  <2>5. storage \in {"pid", "tid", "serving", "ended"} /\ generator \in {"start", "runs", "done"}
    BY <1>1
  <2>6. QED
    BY <1>2, <2>1, <2>2, <2>3, <2>4, <2>5 DEF GeneratorTypes, CallTyped
<1>4. FlagsOfState /\ RequestOfState /\ AnswerOfState /\ Registering
  BY <1>1, Codes DEF FlagsOfState, RequestOfState, AnswerOfState, Registering, Checks, CommandOf
<1>5. Unbroken
  BY <1>1, <1>2 DEF Unbroken, EndedBy, HasA, HasB, HasP, Pointed, Frees
<1>6. QED
  BY <1>3, <1>4, <1>5 DEF GeneratorInv

\* Every step of the generator and its storage keeps it.
LEMMA GeneratorInvStep ==
  ASSUME GeneratorInv, [GeneratorNext]_generated
  PROVE  GeneratorInv'
<1>1. generator \in {"start", "runs", "done"}
  BY DEF GeneratorInv, GeneratorTypes
<1>2. CASE FirstReceive
  BY <1>2, CallLeft DEF FirstReceive
<1>3. CASE Finish
  <2>1. /\ storage' = storage /\ generator' = "done"
        /\ UNCHANGED <<failures, mock_counter, vars_of_call, message, recorded>>
    BY <1>3 DEF Finish
  <2>2. QED
    BY <2>1, CallLeft
<1>4. CASE Serve
  BY <1>4, ServeStep
<1>5. CASE Registered
  BY <1>5, RegisteredStep
<1>6. CASE MessageLost
  BY <1>6, MessageLostStep
<1>7. CASE RegistrationLost
  <2>1. /\ storage' = "ended" /\ generator' \in {"start", "runs", "done"}
        /\ UNCHANGED <<failures, mock_counter, vars_of_call, message, recorded>>
    BY <1>1, <1>7 DEF RegistrationLost
  <2>2. QED
    BY <2>1, CallLeft
<1>8. CASE \E at \in Coordinates : Respond(at) \/ ReplyLost(at)
  BY <1>8, RespondStep, ReplyLostStep
<1>9. CASE UNCHANGED generated
  <2>1. /\ storage' = storage /\ generator' \in {"start", "runs", "done"}
        /\ UNCHANGED <<failures, mock_counter, vars_of_call, message, recorded>>
    BY <1>1, <1>9 DEF generated
  <2>2. QED
    BY <2>1, CallLeft
<1>10. QED
  BY <1>2, <1>3, <1>4, <1>5, <1>6, <1>7, <1>8, <1>9 DEF GeneratorNext

\* It says what the run checks of the generator's variables.
LEMMA GeneratorInvTyped == GeneratorInv => GeneratorTyped
<1> SUFFICES ASSUME GeneratorInv
             PROVE  GeneratorTyped
  OBVIOUS
<1>1. {x1, x2, x3} \subseteq BOOLEAN
  BY DEF GeneratorInv, GeneratorTypes
<1>2. QED
  BY <1>1 DEF GeneratorInv, GeneratorTypes, GeneratorTyped, FlagsOfState

\* What a call leaves behind when the next one begins.
LeavesBehind ==
  Returns /\ ~call.broken =>
    /\ "A" \notin held
    /\ "B" \in held <=> call.ended_by = "FREE_A"
    /\ "P" \in held => call.checked \/ call.stuck

\* Only what is received begins the next call.
LEMMA CallLeavesBehind ==
  ASSUME GeneratorInv, [GeneratorNext]_generated
  PROVE  LeavesBehind
<1> SUFFICES ASSUME Returns, ~call.broken
             PROVE  /\ "A" \notin held
                    /\ "B" \in held <=> call.ended_by = "FREE_A"
                    /\ "P" \in held => call.checked \/ call.stuck
  BY DEF LeavesBehind
<1>1. A0_state # A0_state' /\ A0_state' = "OCCUPATE_CH_B_SIDE_A"
  BY DEF Returns
<1>2. PICK at : message # "none" /\ Handles(at)
  <2>1. \E at \in Coordinates : Respond(at) \/ ReplyLost(at)
    BY <1>1 DEF GeneratorNext, FirstReceive, Finish, Serve, Registered, MessageLost,
                RegistrationLost, generated, vars_of_call, automaton
  <2>2. QED
    BY <2>1 DEF Respond, ReplyLost
<1>3. Goes
  BY <1>2, HandlesGoes
<1>4. /\ message = "header" => A0_state = "OCCUPATE_CH_B_SIDE_A"
      /\ EndedBy /\ HasA /\ HasB /\ HasP
  BY DEF GeneratorInv, Unbroken
<1>5. \/ A0_state = "FREE_CALL_POINTER" /\ message \in {"ERROR", "FREED P"}
      \/ A0_state = "FREE_CH_B_SIDE_A" /\ message = "FREED" /\ ~x2 /\ ~x3
  BY <1>1, <1>3, <1>4 DEF Goes, Moved
<1>6. CASE A0_state = "FREE_CALL_POINTER" /\ message \in {"ERROR", "FREED P"}
  BY <1>4, <1>6 DEF HasA, HasB, HasP
<1>7. CASE A0_state = "FREE_CH_B_SIDE_A" /\ message = "FREED" /\ ~x2 /\ ~x3
  BY <1>4, <1>7 DEF EndedBy, HasA, HasB, HasP, Frees
<1>8. QED
  BY <1>5, <1>6, <1>7

-----------------------------------------------------------------------------
(***************************************************************************)
(* The program                                                             *)
(***************************************************************************)

\* Of the program that is built; the other's variables stay as they were.
ProgramInv == StorageInv /\ (built = "mock" => GeneratorInv)

\* A step of the program is one of the storage, or one of the generator if it
\* was built with the mock.
LEMMA ProgramSteps ==
  ASSUME [ProgramNext]_<<storagevars, generated, built>>
  PROVE  /\ [StorageNext]_storagevars /\ built' = built
         /\ built = "mock" => [GeneratorNext]_generated
         /\ built # "mock" => UNCHANGED generated
<1>1. CASE built = "extremedb" /\ StorageNext /\ UNCHANGED <<generated, built>>
  BY <1>1
<1>2. CASE built = "mock" /\ GeneratorNext /\ UNCHANGED <<storagevars, built>>
  BY <1>2
<1>3. CASE UNCHANGED <<storagevars, generated, built>>
  BY <1>3
<1>4. QED
  BY <1>1, <1>2, <1>3 DEF ProgramNext

\* What the program starts with, and what its steps keep.
LEMMA ProgramInvHolds == ProgramSpec => []ProgramInv
<1>1. ProgramInit => ProgramInv
  BY StorageInvInit, GeneratorInvInit DEF ProgramInit, ProgramInv
<1>2. ProgramInv /\ [ProgramNext]_<<storagevars, generated, built>> => ProgramInv'
  BY ProgramSteps, StorageInvStep, GeneratorInvStep DEF ProgramInv
<1>3. QED
  BY <1>1, <1>2, PTL DEF ProgramSpec

\* Whatever is asked of it, and whatever is lost: the storage counts the
\* channels it has occupied, stops with one free, addresses its replies to who
\* asked, and has told whoever holds a channel or could not; and the generator
\* goes on with a call only with what the storage has given.
THEOREM ProgramIsSound == ProgramSpec => []ProgramSound
<1>1. ProgramInv => ProgramSound
  BY GeneratorInvTyped DEF ProgramInv, ProgramSound, StorageInv
<1>2. QED
  BY <1>1, ProgramInvHolds, PTL

\* No two answers name one channel, and who is told of a channel holds it.
THEOREM ChannelsAreGivenOnce == ProgramSpec => []GivenOnce
<1>1. ProgramInit => GivenInv
  BY DEF ProgramInit, StorageInit, Nothing, GivenInv, GivenOnce
<1>2. ProgramInv /\ GivenInv /\ [ProgramNext]_<<storagevars, generated, built>> => GivenInv'
  BY ProgramSteps, GivenInvStep DEF ProgramInv
<1>3. GivenInv => GivenOnce
  BY DEF GivenInv
<1>4. QED
  BY <1>1, <1>2, <1>3, ProgramInvHolds, PTL DEF ProgramSpec

\* A call whose messages all arrive leaves nothing of side A behind; side B's
\* channel if side A ended the call, and only then; its pointer only if it was
\* moved by a check or could not be freed.
THEOREM CallsLeaveBehind == ProgramSpec => LeftBehind
<1>1. ProgramInv /\ [ProgramNext]_<<storagevars, generated, built>> => [LeavesBehind]_generated
  <2>1. SUFFICES ASSUME ProgramInv, [ProgramNext]_<<storagevars, generated, built>>
                 PROVE  [LeavesBehind]_generated
    OBVIOUS
  <2>2. CASE built = "mock"
    BY <2>1, <2>2, ProgramSteps, CallLeavesBehind DEF ProgramInv
  <2>3. CASE built # "mock"
    BY <2>1, <2>3, ProgramSteps
  <2>4. QED
    BY <2>2, <2>3
<1>2. ProgramSpec => [][LeavesBehind]_generated
  BY <1>1, ProgramInvHolds, PTL DEF ProgramSpec
<1>3. ([][LeavesBehind]_generated) => LeftBehind
  BY PTL DEF LeavesBehind, LeftBehind
<1>4. QED
  BY <1>2, <1>3, PTL
=============================================================================
