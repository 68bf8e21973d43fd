--------------------------- MODULE SequenceLemmas ---------------------------
(* Facts about cut sequences, and about the number of places of a sequence   *)
(* that hold an element of a set, that the proofs use.                       *)
EXTENDS SequenceTheorems, FiniteSetTheorems, TLAPS

\* A function on 1..n is a sequence of its range.
LEMMA FunctionIsSequence ==
    ASSUME NEW S, NEW n \in Nat, NEW f \in [1..n -> S]
    PROVE  f \in Seq(S) /\ Len(f) = n
BY SMT

\* The two ends of a cut sequence are sequences of the same elements.
LEMMA CutSequence ==
    ASSUME NEW S, NEW s \in Seq(S), NEW n \in 0..Len(s)
    PROVE  /\ SubSeq(s, 1, n) \in Seq(S) /\ Len(SubSeq(s, 1, n)) = n
           /\ SubSeq(s, n + 1, Len(s)) \in Seq(S)
           /\ Len(SubSeq(s, n + 1, Len(s))) = Len(s) - n
<1>1. \A i \in 1..n : s[i] \in S
  BY ElementOfSeq
<1>2. \A i \in (n + 1)..Len(s) : s[i] \in S
  BY ElementOfSeq
<1>3. Len(s) \in Nat
  BY LenProperties
<1>4. SubSeq(s, 1, n) \in Seq(S) /\ Len(SubSeq(s, 1, n)) = IF 1 <= n THEN n - 1 + 1 ELSE 0
  BY <1>1, <1>3, SubSeqProperties
<1>5. /\ SubSeq(s, n + 1, Len(s)) \in Seq(S)
      /\ Len(SubSeq(s, n + 1, Len(s))) = IF n + 1 <= Len(s) THEN Len(s) - (n + 1) + 1 ELSE 0
  BY <1>2, <1>3, SubSeqProperties
<1> QED
  BY <1>3, <1>4, <1>5

\* The tail of a sequence may be asked for beyond its end.
LEMMA RestOfSequence ==
    ASSUME NEW S, NEW s \in Seq(S), NEW n \in Nat
    PROVE  /\ SubSeq(s, n + 1, Len(s)) \in Seq(S)
           /\ Len(SubSeq(s, n + 1, Len(s))) = IF n <= Len(s) THEN Len(s) - n ELSE 0
<1>1. \A i \in (n + 1)..Len(s) : s[i] \in S
  BY ElementOfSeq, LenProperties
<1>2. Len(s) \in Nat
  BY LenProperties
<1>3. /\ SubSeq(s, n + 1, Len(s)) \in Seq(S)
      /\ Len(SubSeq(s, n + 1, Len(s))) = IF n + 1 <= Len(s) THEN Len(s) - (n + 1) + 1 ELSE 0
  BY <1>1, <1>2, SubSeqProperties
<1> QED
  BY <1>2, <1>3

\* Sequences end to end, however they are grouped.
LEMMA Regrouped ==
    ASSUME NEW S, NEW a \in Seq(S), NEW b \in Seq(S), NEW c \in Seq(S)
    PROVE  /\ (a \o b) \o c = a \o (b \o c)
           /\ a \o b \in Seq(S) /\ b \o c \in Seq(S) /\ a \o (b \o c) \in Seq(S)
<1>1. (a \o b) \o c = a \o (b \o c)
  BY ConcatAssociative
<1>2. a \o b \in Seq(S) /\ b \o c \in Seq(S)
  BY ConcatProperties
<1>3. a \o (b \o c) \in Seq(S)
  BY <1>2, ConcatProperties
<1> QED
  BY <1>1, <1>2, <1>3

\* Four sequences end to end, grouped as they are needed.
LEMMA FourParts ==
    ASSUME NEW S, NEW r \in Seq(S), NEW b \in Seq(S), NEW u \in Seq(S), NEW k \in Seq(S)
    PROVE  /\ ((r \o b) \o u) \o k = r \o (b \o (u \o k))
           /\ ((r \o b) \o u) \o k = (r \o b) \o (u \o k)
           /\ r \o b \in Seq(S) /\ u \o k \in Seq(S) /\ (r \o b) \o u \in Seq(S)
<1>1. r \o b \in Seq(S) /\ u \o k \in Seq(S)
  BY ConcatProperties
<1>2. ASSUME NEW p \in Seq(S)
      PROVE  (p \o u) \o k = p \o (u \o k) /\ p \o u \in Seq(S)
  <2>1. p \o u \in Seq(S)
    BY ConcatProperties
  <2>2. (p \o u) \o k = p \o (u \o k)
    BY ConcatAssociative, SMTT(25)
  <2> QED
    BY <2>1, <2>2
<1>3. ASSUME NEW q \in Seq(S) PROVE (r \o b) \o q = r \o (b \o q)
  BY ConcatAssociative, SMTT(25)
<1>4. ((r \o b) \o u) \o k = (r \o b) \o (u \o k) /\ (r \o b) \o u \in Seq(S)
  BY <1>1, <1>2
<1>5. (r \o b) \o (u \o k) = r \o (b \o (u \o k))
  BY <1>1, <1>3
<1> QED
  BY <1>1, <1>4, <1>5

\* A sequence that has grown by one element.
LEMMA Appended ==
    ASSUME NEW S, NEW s \in Seq(S), NEW e \in S
    PROVE  /\ Append(s, e) \in Seq(S) /\ Len(Append(s, e)) = Len(s) + 1
           /\ DOMAIN Append(s, e) = 1..(Len(s) + 1)
           /\ Append(s, e)[Len(s) + 1] = e
           /\ \A i \in 1..Len(s) : Append(s, e)[i] = s[i]
BY AppendProperties, LenProperties

\* What is left of a sequence without its first element.
LEMMA TailElements ==
    ASSUME NEW S, NEW s \in Seq(S), s # <<>>
    PROVE  /\ Tail(s) \in Seq(S) /\ Head(s) \in S
           /\ 1 \in DOMAIN s /\ Head(s) = s[1]
           /\ \A i \in DOMAIN Tail(s) : i + 1 \in DOMAIN s /\ Tail(s)[i] = s[i + 1]
BY HeadTailProperties, LenProperties, EmptySeq

\* A cut sequence is the two parts end to end.
LEMMA CutAndJoined ==
    ASSUME NEW S, NEW s \in Seq(S), NEW n \in 0..Len(s)
    PROVE  SubSeq(s, 1, n) \o SubSeq(s, n + 1, Len(s)) = s
<1>1. Len(s) \in Nat /\ 1 \in 1..Len(s) + 1 /\ n \in 1 - 1..Len(s) /\ Len(s) \in n..Len(s)
  BY LenProperties
<1>2. SubSeq(s, 1, n) \o SubSeq(s, n + 1, Len(s)) = SubSeq(s, 1, Len(s))
  BY <1>1, ConcatAdjacentSubSeq
<1> QED
  BY <1>2, SubSeqFull

\* Two sequences end to end are cut where they meet.
LEMMA PartsOfConcat ==
    ASSUME NEW S, NEW s \in Seq(S), NEW t \in Seq(S)
    PROVE  /\ SubSeq(s \o t, 1, Len(s)) = s
           /\ SubSeq(s \o t, Len(s) + 1, Len(s \o t)) = t
<1> DEFINE u == s \o t
           a == SubSeq(u, 1, Len(s))
           b == SubSeq(u, Len(s) + 1, Len(u))
<1>1. /\ u \in Seq(S) /\ Len(u) = Len(s) + Len(t) /\ Len(s) \in Nat /\ Len(t) \in Nat
      /\ \A i \in 1..Len(s) + Len(t) : u[i] = IF i <= Len(s) THEN s[i] ELSE t[i - Len(s)]
  BY ConcatProperties, LenProperties
<1> HIDE DEF u
<1>2. \A i \in 1..Len(u) : u[i] \in S
  BY <1>1, ElementOfSeq
<1>3. /\ a \in Seq(S) /\ Len(a) = Len(s)
      /\ \A i \in 1..Len(s) - 1 + 1 : a[i] = u[1 + i - 1]
  BY <1>1, <1>2, SubSeqProperties
<1>4. /\ b \in Seq(S) /\ Len(b) = Len(t)
      /\ \A i \in 1..Len(u) - (Len(s) + 1) + 1 : b[i] = u[Len(s) + 1 + i - 1]
  BY <1>1, <1>2, SubSeqProperties
<1> HIDE DEF a, b
<1>5. \A i \in 1..Len(s) : a[i] = s[i]
  <2>1. SUFFICES ASSUME NEW i \in 1..Len(s) PROVE a[i] = s[i]
    OBVIOUS
  <2>2. i \in 1..Len(s) - 1 + 1 /\ 1 + i - 1 = i /\ i \in 1..Len(s) + Len(t) /\ i <= Len(s)
    BY <1>1
  <2> QED
    BY <1>1, <1>3, <2>2
<1>6. \A i \in 1..Len(t) : b[i] = t[i]
  <2>1. SUFFICES ASSUME NEW i \in 1..Len(t) PROVE b[i] = t[i]
    OBVIOUS
  <2>2. /\ i \in 1..Len(u) - (Len(s) + 1) + 1 /\ Len(s) + 1 + i - 1 = Len(s) + i
        /\ Len(s) + i \in 1..Len(s) + Len(t) /\ ~(Len(s) + i <= Len(s))
        /\ (Len(s) + i) - Len(s) = i
    BY <1>1
  <2> QED
    BY <1>1, <1>4, <2>2
<1>7. a = s
  BY <1>3, <1>5, SeqEqual
<1>8. b = t
  BY <1>4, <1>6, SeqEqual
<1> QED
  BY <1>7, <1>8 DEF a, b, u

\* Cutting two sequences end to end inside the first one.
LEMMA CutConcat ==
    ASSUME NEW S, NEW s \in Seq(S), NEW t \in Seq(S), NEW n \in 0..Len(s)
    PROVE  /\ SubSeq(s \o t, 1, n) = SubSeq(s, 1, n)
           /\ SubSeq(s \o t, n + 1, Len(s \o t)) = SubSeq(s, n + 1, Len(s)) \o t
<1> DEFINE a == SubSeq(s, 1, n)
           b == SubSeq(s, n + 1, Len(s))
<1>1. a \in Seq(S) /\ Len(a) = n /\ b \in Seq(S) /\ a \o b = s
  BY CutSequence, CutAndJoined, ZenonT(25)
<1> HIDE DEF a, b
<1>2. b \o t \in Seq(S) /\ s \o t = a \o (b \o t)
  <2>1. a \in Seq(S) /\ b \in Seq(S) /\ t \in Seq(S)
    BY <1>1
  <2>2. (a \o b) \o t = a \o (b \o t)
    BY <2>1, ConcatAssociative
  <2> QED
    BY <1>1, <2>1, <2>2, ConcatProperties
<1>3. /\ SubSeq(a \o (b \o t), 1, Len(a)) = a
      /\ SubSeq(a \o (b \o t), Len(a) + 1, Len(a \o (b \o t))) = b \o t
  BY <1>1, <1>2, PartsOfConcat
<1>4. /\ SubSeq(s \o t, 1, n) = a
      /\ SubSeq(s \o t, n + 1, Len(s \o t)) = b \o t
  BY <1>1, <1>2, <1>3
<1> QED
  BY <1>4 DEF a, b

\* An element more at the end is an element more in the range.
LEMMA RangeAppended ==
    ASSUME NEW S, NEW s \in Seq(S), NEW e \in S
    PROVE  Range(Append(s, e)) = Range(s) \cup {e}
<1>1. Append(s, e) = s \o <<e>> /\ <<e>> \in Seq(S)
  BY AppendIsConcat
<1>2. Range(<<e>>) = {e}
  BY DEF Range
<1>3. Range(s \o <<e>>) = Range(s) \cup Range(<<e>>)
  BY <1>1, RangeConcatenation, ZenonT(25)
<1> QED
  BY <1>1, <1>2, <1>3

\* A strictly increasing sequence of numbers.
Increasing(s) == \A i, j \in DOMAIN s : i < j => s[i] < s[j]

\* The parts of an increasing sequence are increasing and have nothing in common.
LEMMA IncreasingParts ==
    ASSUME NEW S, S \subseteq Int, NEW s \in Seq(S), NEW t \in Seq(S), Increasing(s \o t)
    PROVE  Increasing(s) /\ Range(s) \cap Range(t) = {}
<1>1. /\ Len(s) \in Nat /\ Len(t) \in Nat /\ DOMAIN s = 1..Len(s) /\ DOMAIN t = 1..Len(t)
      /\ DOMAIN (s \o t) = 1..(Len(s) + Len(t))
      /\ \A i \in 1..Len(s) + Len(t) : (s \o t)[i] = IF i <= Len(s) THEN s[i] ELSE t[i - Len(s)]
  BY LenProperties, ConcatProperties
<1>2. \A i \in 1..Len(s) : i \in 1..(Len(s) + Len(t)) /\ (s \o t)[i] = s[i]
  BY <1>1
<1>3. \A j \in 1..Len(t) : /\ Len(s) + j \in 1..(Len(s) + Len(t)) /\ (s \o t)[Len(s) + j] = t[j]
                            /\ \A i \in 1..Len(s) : i < Len(s) + j
  <2>1. SUFFICES ASSUME NEW j \in 1..Len(t)
                 PROVE  /\ Len(s) + j \in 1..(Len(s) + Len(t)) /\ (s \o t)[Len(s) + j] = t[j]
                        /\ \A i \in 1..Len(s) : i < Len(s) + j
    OBVIOUS
  <2>2. /\ Len(s) + j \in 1..(Len(s) + Len(t)) /\ ~(Len(s) + j <= Len(s))
        /\ (Len(s) + j) - Len(s) = j /\ \A i \in 1..Len(s) : i < Len(s) + j
    BY <1>1
  <2> QED
    BY <1>1, <2>2
<1>4. Increasing(s)
  BY <1>1, <1>2 DEF Increasing
<1>5. \A i \in 1..Len(s), j \in 1..Len(t) : s[i] < t[j]
  BY <1>1, <1>2, <1>3 DEF Increasing
<1>6. \A i \in 1..Len(s) : s[i] \in Int
  BY ElementOfSeq
<1>7. Range(s) = {s[i] : i \in 1..Len(s)} /\ Range(t) = {t[i] : i \in 1..Len(t)}
  BY RangeEquality
<1> QED
  BY <1>4, <1>5, <1>6, <1>7

\* An increasing sequence stays so when a part of it is taken out, and what is
\* taken out is gone.
LEMMA PartTakenOut ==
    ASSUME NEW S, S \subseteq Int, NEW a \in Seq(S), NEW b \in Seq(S), NEW c \in Seq(S),
           Increasing(a \o (b \o c))
    PROVE  /\ Increasing(a \o c)
           /\ Range(a \o c) = Range(a \o (b \o c)) \ Range(b)
<1> DEFINE u == a \o (b \o c)
           v == a \o c
<1>1. /\ Len(a) \in Nat /\ Len(b) \in Nat /\ Len(c) \in Nat
      /\ b \o c \in Seq(S) /\ a \o b \in Seq(S) /\ v \in Seq(S) /\ u \in Seq(S)
      /\ (a \o b) \o c = u
  BY LenProperties, ConcatProperties, Regrouped, SMTT(25)
<1>2. Range(a) \cap Range(b \o c) = {} /\ Range(a \o b) \cap Range(c) = {}
  <2>1. Increasing((a \o b) \o c)
    BY <1>1
  <2> QED
    BY <1>1, <2>1, IncreasingParts
<1>3. /\ Range(b \o c) = Range(b) \cup Range(c) /\ Range(a \o b) = Range(a) \cup Range(b)
      /\ Range(u) = Range(a) \cup Range(b \o c) /\ Range(v) = Range(a) \cup Range(c)
  <2>1. \A s, t \in Seq(S) : Range(s \o t) = Range(s) \cup Range(t)
    BY RangeConcatenation
  <2> QED
    BY <1>1, <2>1, Zenon
<1>4. Range(v) = Range(u) \ Range(b)
  BY <1>2, <1>3
<1>5. /\ Len(b \o c) = Len(b) + Len(c)
      /\ \A i \in 1..Len(b) + Len(c) : (b \o c)[i] = IF i <= Len(b) THEN b[i] ELSE c[i - Len(b)]
  BY ConcatProperties
<1>6. /\ DOMAIN u = 1..(Len(a) + (Len(b) + Len(c)))
      /\ \A i \in 1..(Len(a) + (Len(b) + Len(c))) :
            u[i] = IF i <= Len(a) THEN a[i] ELSE (b \o c)[i - Len(a)]
  BY <1>1, <1>5, ConcatProperties, LenProperties
<1>7. /\ DOMAIN v = 1..(Len(a) + Len(c))
      /\ \A i \in 1..(Len(a) + Len(c)) : v[i] = IF i <= Len(a) THEN a[i] ELSE c[i - Len(a)]
  BY <1>1, ConcatProperties, LenProperties
<1> DEFINE at(i) == IF i <= Len(a) THEN i ELSE i + Len(b)
<1>8. ASSUME NEW i \in 1..(Len(a) + Len(c))
      PROVE  at(i) \in 1..(Len(a) + (Len(b) + Len(c))) /\ v[i] = u[at(i)]
  <2>1. CASE i <= Len(a)
    <3>1. i \in 1..(Len(a) + (Len(b) + Len(c))) /\ at(i) = i
      BY <1>1, <1>8, <2>1
    <3> QED
      BY <1>6, <1>7, <2>1, <3>1
  <2>2. CASE ~(i <= Len(a))
    <3>1. /\ at(i) = i + Len(b) /\ at(i) \in 1..(Len(a) + (Len(b) + Len(c)))
          /\ ~(at(i) <= Len(a)) /\ at(i) - Len(a) \in 1..Len(b) + Len(c)
          /\ ~(at(i) - Len(a) <= Len(b)) /\ (at(i) - Len(a)) - Len(b) = i - Len(a)
      BY <1>1, <1>8, <2>2
    <3> QED
      BY <1>5, <1>6, <1>7, <2>2, <3>1
  <2> QED
    BY <2>1, <2>2
<1>9. \A i, j \in 1..(Len(a) + Len(c)) : i < j => at(i) < at(j)
  BY <1>1
<1>10. Increasing(u)
  OBVIOUS
<1> HIDE DEF u, v, at
<1>11. Increasing(v)
  BY <1>6, <1>7, <1>8, <1>9, <1>10 DEF Increasing
<1> QED
  BY <1>4, <1>11 DEF u, v

\* A number larger than all of an increasing sequence goes at its end.
LEMMA IncreasingAppend ==
    ASSUME NEW S, S \subseteq Int, NEW s \in Seq(S), NEW e \in S, Increasing(s), \A x \in Range(s) : x < e
    PROVE  Increasing(Append(s, e)) /\ Range(Append(s, e)) = Range(s) \cup {e}
<1>1. /\ Append(s, e) \in Seq(S) /\ DOMAIN Append(s, e) = 1..(Len(s) + 1)
      /\ Append(s, e)[Len(s) + 1] = e /\ Len(Append(s, e)) = Len(s) + 1
      /\ \A i \in 1..Len(s) : Append(s, e)[i] = s[i]
  BY Appended
<1>2. Len(s) \in Nat /\ DOMAIN s = 1..Len(s) /\ Range(s) = {s[i] : i \in 1..Len(s)}
  BY LenProperties, RangeEquality
<1>4. \A i \in 1..(Len(s) + 1) : i \in 1..Len(s) \/ i = Len(s) + 1
  BY <1>2
<1>5. \A i \in 1..Len(s) : i \in 1..(Len(s) + 1) /\ s[i] < e
  BY <1>2
<1>6. ASSUME NEW i \in 1..(Len(s) + 1), NEW j \in 1..(Len(s) + 1), i < j
      PROVE  Append(s, e)[i] < Append(s, e)[j]
  <2>1. i \in 1..Len(s)
    BY <1>2, <1>6
  <2>2. CASE j \in 1..Len(s)
    BY <1>1, <1>2, <1>6, <2>1, <2>2 DEF Increasing
  <2>3. CASE j = Len(s) + 1
    BY <1>1, <1>5, <2>1, <2>3
  <2> QED
    BY <1>4, <2>2, <2>3
<1>7. Increasing(Append(s, e))
  BY <1>1, <1>6 DEF Increasing
<1>9. Range(Append(s, e)) = Range(s) \cup {e}
  BY RangeAppended
<1> QED
  BY <1>7, <1>9

-----------------------------------------------------------------------------
(***************************************************************************)
(* Counting.                                                                *)
(***************************************************************************)

\* The places of a sequence that hold an element of T.
Places(s, T) == {i \in DOMAIN s : s[i] \in T}

\* Moving a finite set of integers along does not change its size.
LEMMA ShiftedSet ==
    ASSUME NEW A, IsFiniteSet(A), A \subseteq Int, NEW k \in Int
    PROVE  /\ IsFiniteSet({a + k : a \in A})
           /\ Cardinality({a + k : a \in A}) = Cardinality(A)
<1> DEFINE B == {a + k : a \in A}
           f == [a \in A |-> a + k]
<1>1. f \in [A -> B] /\ \A a, b \in A : f[a] = f[b] => a = b
  OBVIOUS
<1>2. \A b \in B : \E a \in A : f[a] = b
  OBVIOUS
<1>3. f \in Bijection(A, B)
  BY <1>1, <1>2 DEF Bijection, Injection, Surjection, IsInjective
<1> QED
  BY <1>3, FS_Bijection DEF ExistsBijection

\* A set of at most one element.
LEMMA AtMostOne ==
    ASSUME NEW A, IsFiniteSet(A), Cardinality(A) <= 1, NEW x \in A, NEW y \in A
    PROVE  x = y
<1>1. Cardinality(A) \in Nat /\ Cardinality(A) # 0
  BY FS_CardinalityType, FS_EmptySet
<1>2. Cardinality(A) = 1
  BY <1>1
<1> QED
  BY <1>2, FS_Singleton

\* Only finitely many places, so their number can be reckoned with.
LEMMA PlacesFinite ==
    ASSUME NEW S, NEW s \in Seq(S), NEW T
    PROVE  /\ IsFiniteSet(Places(s, T)) /\ Cardinality(Places(s, T)) \in Nat
           /\ Places(s, T) \subseteq 1..Len(s)
           /\ Cardinality(Places(s, T)) = 0 <=> \A i \in 1..Len(s) : s[i] \notin T
<1>1. Len(s) \in Nat /\ DOMAIN s = 1..Len(s)
  BY LenProperties
<1>2. IsFiniteSet(1..Len(s)) /\ Places(s, T) \subseteq 1..Len(s)
  BY <1>1, FS_Interval DEF Places
<1>3. IsFiniteSet(Places(s, T))
  BY <1>2, FS_Subset
<1>4. Cardinality(Places(s, T)) = 0 <=> Places(s, T) = {}
  BY <1>3, FS_EmptySet
<1> QED
  BY <1>1, <1>2, <1>3, <1>4, FS_CardinalityType DEF Places

\* Putting two sequences end to end adds their numbers.
LEMMA CountConcat ==
    ASSUME NEW S, NEW s \in Seq(S), NEW t \in Seq(S), NEW T
    PROVE  Cardinality(Places(s \o t, T)) = Cardinality(Places(s, T)) + Cardinality(Places(t, T))
<1> DEFINE moved == {i + Len(s) : i \in Places(t, T)}
<1>1. Len(s) \in Nat /\ Len(t) \in Nat /\ DOMAIN s = 1..Len(s) /\ DOMAIN t = 1..Len(t)
  BY LenProperties
<1>2. /\ s \o t \in Seq(S) /\ DOMAIN (s \o t) = 1..(Len(s) + Len(t))
      /\ \A i \in 1..Len(s) + Len(t) : (s \o t)[i] = IF i <= Len(s) THEN s[i] ELSE t[i - Len(s)]
  BY ConcatProperties, LenProperties
<1>3. Places(s \o t, T) \subseteq Places(s, T) \cup moved
  <2>1. SUFFICES ASSUME NEW i \in Places(s \o t, T), i \notin Places(s, T)
                 PROVE  i \in moved
    OBVIOUS
  <2>2. i \in 1..(Len(s) + Len(t)) /\ (s \o t)[i] \in T
    BY <1>2 DEF Places
  <2>3. ~(i <= Len(s))
    BY <1>1, <1>2, <2>1, <2>2 DEF Places
  <2>4. i - Len(s) \in 1..Len(t) /\ t[i - Len(s)] \in T
    BY <1>1, <1>2, <2>2, <2>3
  <2>5. i - Len(s) \in Places(t, T) /\ i = (i - Len(s)) + Len(s)
    BY <1>1, <2>2, <2>4 DEF Places
  <2> QED
    BY <2>5
<1>4. Places(s, T) \cup moved \subseteq Places(s \o t, T)
  <2>1. ASSUME NEW i \in Places(s, T) PROVE i \in Places(s \o t, T)
    BY <1>1, <1>2 DEF Places
  <2>2. ASSUME NEW i \in Places(t, T) PROVE i + Len(s) \in Places(s \o t, T)
    <3>1. i \in 1..Len(t) /\ t[i] \in T
      BY <1>1 DEF Places
    <3>2. i + Len(s) \in 1..(Len(s) + Len(t)) /\ ~(i + Len(s) <= Len(s)) /\ (i + Len(s)) - Len(s) = i
      BY <1>1, <3>1
    <3> QED
      BY <1>2, <3>1, <3>2 DEF Places
  <2> QED
    BY <2>1, <2>2
<1>5. Places(s, T) \cap moved = {}
  BY <1>1 DEF Places
<1>6. /\ IsFiniteSet(Places(s, T)) /\ IsFiniteSet(Places(t, T)) /\ Places(t, T) \subseteq Int
      /\ Cardinality(Places(s, T)) \in Nat /\ Cardinality(Places(t, T)) \in Nat
  BY <1>1, PlacesFinite
<1>7. IsFiniteSet(moved) /\ Cardinality(moved) = Cardinality(Places(t, T))
  BY <1>1, <1>6, ShiftedSet
<1> HIDE DEF moved
<1>8. Cardinality(Places(s, T) \cup moved)
        = Cardinality(Places(s, T)) + Cardinality(moved) - Cardinality(Places(s, T) \cap moved)
  BY <1>6, <1>7, FS_Union
<1>9. Places(s \o t, T) = Places(s, T) \cup moved
  BY <1>3, <1>4
<1>10. Cardinality(Places(s, T) \cap moved) = 0
  BY <1>5, FS_EmptySet
<1> QED
  BY <1>6, <1>7, <1>8, <1>9, <1>10

\* One element.
LEMMA CountOne ==
    ASSUME NEW S, NEW e \in S, NEW T
    PROVE  Cardinality(Places(<<e>>, T)) = IF e \in T THEN 1 ELSE 0
<1>1. Places(<<e>>, T) = IF e \in T THEN {1} ELSE {}
  BY DEF Places
<1> QED
  BY <1>1, FS_Singleton, FS_EmptySet

\* An element more at the end.
LEMMA CountAppend ==
    ASSUME NEW S, NEW s \in Seq(S), NEW e \in S, NEW T
    PROVE  Cardinality(Places(Append(s, e), T))
             = Cardinality(Places(s, T)) + (IF e \in T THEN 1 ELSE 0)
<1>1. Append(s, e) = s \o <<e>> /\ <<e>> \in Seq(S)
  BY AppendIsConcat
<1>2. Cardinality(Places(s \o <<e>>, T))
        = Cardinality(Places(s, T)) + Cardinality(Places(<<e>>, T))
  BY <1>1, CountConcat
<1>3. Cardinality(Places(<<e>>, T)) = IF e \in T THEN 1 ELSE 0
  BY CountOne
<1> QED
  BY <1>1, <1>2, <1>3

\* The first element taken off.
LEMMA CountTail ==
    ASSUME NEW S, NEW s \in Seq(S), s # <<>>, NEW T
    PROVE  Cardinality(Places(Tail(s), T))
             = Cardinality(Places(s, T)) - (IF Head(s) \in T THEN 1 ELSE 0)
<1>1. /\ Tail(s) \in Seq(S) /\ Head(s) \in S /\ <<Head(s)>> \in Seq(S)
      /\ s = <<Head(s)>> \o Tail(s)
  <2>1. Tail(s) \in Seq(S) /\ Head(s) \in S /\ Head(s) = s[1] /\ Len(s) \in Nat \ {0}
        /\ Len(Tail(s)) = Len(s) - 1 /\ \A i \in 1..Len(Tail(s)) : Tail(s)[i] = s[i + 1]
    BY HeadTailProperties, EmptySeq
  <2>2. <<Head(s)>> \in Seq(S) /\ Len(<<Head(s)>>) = 1 /\ <<Head(s)>>[1] = s[1]
    BY <2>1
  <2>3. /\ <<Head(s)>> \o Tail(s) \in Seq(S) /\ Len(<<Head(s)>> \o Tail(s)) = 1 + Len(Tail(s))
        /\ \A i \in 1..1 + Len(Tail(s)) : (<<Head(s)>> \o Tail(s))[i]
              = IF i <= 1 THEN <<Head(s)>>[i] ELSE Tail(s)[i - 1]
    BY <2>1, <2>2, ConcatProperties
  <2>4. \A i \in 1..Len(s) : (<<Head(s)>> \o Tail(s))[i] = s[i]
    <3>1. SUFFICES ASSUME NEW i \in 1..Len(s) PROVE (<<Head(s)>> \o Tail(s))[i] = s[i]
      OBVIOUS
    <3>2. CASE i = 1
      BY <2>1, <2>2, <2>3, <3>2
    <3>3. CASE i # 1
      <4>1. i - 1 \in 1..Len(Tail(s)) /\ (i - 1) + 1 = i /\ ~(i <= 1) /\ i \in 1..1 + Len(Tail(s))
        BY <2>1, <3>3
      <4> QED
        BY <2>1, <2>3, <4>1
    <3> QED
      BY <3>2, <3>3
  <2> QED
    BY <2>1, <2>2, <2>3, <2>4, SeqEqual
<1>2. Cardinality(Places(s, T))
        = Cardinality(Places(<<Head(s)>>, T)) + Cardinality(Places(Tail(s), T))
  BY <1>1, CountConcat, ZenonT(25)
<1>3. Cardinality(Places(<<Head(s)>>, T)) = IF Head(s) \in T THEN 1 ELSE 0
  BY <1>1, CountOne
<1>4. Cardinality(Places(Tail(s), T)) \in Nat
  BY <1>1, PlacesFinite
<1> QED
  BY <1>2, <1>3, <1>4

\* A set of naturals has a least element.
LEMMA SmallestNumber ==
    ASSUME NEW T \in SUBSET Nat, T # {}
    PROVE  \E n \in T : \A m \in T : n <= m
<1>1. PICK n \in T : \A m \in T : ~(<<m, n>> \in OpToRel(<, Nat))
  BY NatLessThanWellFounded, WFMin
<1>2. \A m \in T : ~(m < n)
  BY <1>1 DEF OpToRel
<1> QED
  BY <1>2

\* The numbers 1..n can be put in the order of any relation that orders them.
LEMMA OrderedPermutation ==
    ASSUME NEW n \in Nat, NEW R,
           \A i \in 1..n : <<i, i>> \notin R,
           \A i, j, k \in 1..n : <<i, j>> \in R /\ <<j, k>> \in R => <<i, k>> \in R,
           \A i, j \in 1..n : i # j => <<i, j>> \in R \/ <<j, i>> \in R
    PROVE  \E p \in [1..n -> 1..n] :
             /\ \A i, j \in 1..n : p[i] = p[j] => i = j
             /\ \A i, j \in 1..n : i < j => <<p[i], p[j]>> \in R
<1> DEFINE Below(i) == {j \in 1..n : <<j, i>> \in R}
           r == [i \in 1..n |-> Cardinality(Below(i)) + 1]
<1>1. IsFiniteSet(1..n) /\ Cardinality(1..n) = n
  BY FS_Interval
<1>2. \A i \in 1..n : IsFiniteSet(Below(i)) /\ Cardinality(Below(i)) \in Nat
  <2> SUFFICES ASSUME NEW i \in 1..n PROVE IsFiniteSet(Below(i)) /\ Cardinality(Below(i)) \in Nat
    OBVIOUS
  <2>1. Below(i) \in SUBSET (1..n)
    OBVIOUS
  <2> HIDE DEF Below
  <2> QED
    BY <1>1, <2>1, FS_Subset, FS_CardinalityType
<1>3. ASSUME NEW i \in 1..n, NEW j \in 1..n, <<i, j>> \in R
      PROVE  Cardinality(Below(i)) < Cardinality(Below(j))
  <2>1. Below(i) \in SUBSET Below(j) /\ i \in Below(j) /\ i \notin Below(i)
    BY <1>3
  <2> HIDE DEF Below
  <2>2. Cardinality(Below(i)) <= Cardinality(Below(j)) /\ Cardinality(Below(i)) # Cardinality(Below(j))
    BY <1>2, <2>1, FS_Subset
  <2> QED
    BY <1>2, <2>2
<1>4. ASSUME NEW i \in 1..n PROVE r[i] \in 1..n
  <2>1. Below(i) \in SUBSET ((1..n) \ {i})
    OBVIOUS
  <2>2. IsFiniteSet((1..n) \ {i}) /\ Cardinality((1..n) \ {i}) = n - 1
    BY <1>1, FS_RemoveElement
  <2>3. r[i] = Cardinality(Below(i)) + 1
    OBVIOUS
  <2> HIDE DEF Below, r
  <2>4. Cardinality(Below(i)) <= n - 1
    BY <2>1, <2>2, FS_Subset
  <2> QED
    BY <1>2, <2>3, <2>4
<1>5. \A i \in 1..n : r[i] = Cardinality(Below(i)) + 1
  OBVIOUS
<1>6. r \in [1..n -> 1..n]
  BY <1>4
<1> HIDE DEF r, Below
<1>7. ASSUME NEW i \in 1..n, NEW j \in 1..n, <<i, j>> \in R PROVE r[i] < r[j]
  BY <1>2, <1>3, <1>5, <1>7
<1>8. \A i, j \in 1..n : r[i] = r[j] => i = j
  <2> SUFFICES ASSUME NEW i \in 1..n, NEW j \in 1..n, r[i] = r[j], i # j PROVE FALSE
    OBVIOUS
  <2>1. r[i] \in Int /\ ~(r[i] < r[j]) /\ ~(r[j] < r[i])
    BY <1>4
  <2>2. <<i, j>> \in R \/ <<j, i>> \in R
    OBVIOUS
  <2> QED
    BY <1>7, <2>1, <2>2
<1>9. \A k \in 1..n : \E i \in 1..n : r[i] = k
  <2>1. r \in Injection(1..n, 1..n)
    BY <1>6, <1>8 DEF Injection, IsInjective
  <2>2. r \in Surjection(1..n, 1..n)
    BY <1>1, <2>1, FS_Injection
  <2> QED
    BY <2>2 DEF Surjection
<1> DEFINE p == [k \in 1..n |-> CHOOSE i \in 1..n : r[i] = k]
<1>10. ASSUME NEW k \in 1..n PROVE p[k] \in 1..n /\ r[p[k]] = k
  BY <1>9
<1>11. p \in [1..n -> 1..n]
  BY <1>10
<1> HIDE DEF p
<1>12. \A i, j \in 1..n : p[i] = p[j] => i = j
  BY <1>10
<1>13. ASSUME NEW i \in 1..n, NEW j \in 1..n, i < j PROVE <<p[i], p[j]>> \in R
  <2>1. p[i] \in 1..n /\ p[j] \in 1..n /\ r[p[i]] = i /\ r[p[j]] = j
    BY <1>10
  <2>2. p[i] # p[j]
    BY <1>12, <1>13
  <2>3. <<p[j], p[i]>> \notin R
    BY <1>7, <1>13, <2>1
  <2> QED
    BY <2>1, <2>2, <2>3
<1> QED
  BY <1>11, <1>12, <1>13

\* A permutation of 1..n reaches every number.
LEMMA PermutationReaches ==
    ASSUME NEW n \in Nat, NEW p \in [1..n -> 1..n], \A i, j \in 1..n : p[i] = p[j] => i = j
    PROVE  \A k \in 1..n : \E i \in 1..n : p[i] = k
<1>1. p \in Injection(1..n, 1..n)
  BY DEF Injection, IsInjective
<1>2. IsFiniteSet(1..n)
  BY FS_Interval
<1>3. p \in Surjection(1..n, 1..n)
  BY <1>1, <1>2, FS_Injection
<1> QED
  BY <1>3 DEF Surjection
=============================================================================
