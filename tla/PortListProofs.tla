---------------------------- MODULE PortListProofs ----------------------------
(* Lemmas and theorems about the list of ports: what the loops, the sort and  *)
(* the texts of PortEnumerator compute, for any devices.                     *)
EXTENDS Programs, SequenceLemmas, TLAPS

-----------------------------------------------------------------------------
(***************************************************************************)
(* The loop that appends the entries it does not skip.                      *)
(***************************************************************************)

\* One round of it, from what the rounds before gave.
Round(s, at, f, n) ==
    IF n = 0 THEN <<>> ELSE IF n \in at THEN Append(f[n - 1], s[n]) ELSE f[n - 1]

\* The recursion of the loop has a solution, and Picked is its last value.
LEMMA PickedRounds ==
    ASSUME NEW S, NEW s \in Seq(S), NEW at
    PROVE  \E f : /\ Picked(s, at) = f[Len(s)]
                  /\ \A n \in 0..Len(s) : f[n] = Round(s, at, f, n)
<1> DEFINE Solves(g, m) == g = [n \in 0..m |-> Round(s, at, g, n)]
           T == {m \in Nat : ~\E g : Solves(g, m)}
           upTo == CHOOSE g : Solves(g, Len(s))
<1>1. Len(s) \in Nat
  BY LenProperties
<1>2. ASSUME NEW k \in Nat, NEW h, k # 0, Solves(h, k - 1) PROVE \E g : Solves(g, k)
  <2> DEFINE g == [n \in 0..k |-> IF n = k THEN Round(s, at, h, k) ELSE h[n]]
  <2>1. \A n \in 0..(k - 1) : h[n] = Round(s, at, h, n) /\ g[n] = h[n]
    <3>1. \A n \in 0..(k - 1) : h[n] = Round(s, at, h, n)
      <4> HIDE DEF g
      <4> QED
        BY <1>2
    <3> QED
      BY <3>1
  <2>2. g[k] = Round(s, at, h, k)
    OBVIOUS
  <2>3. \A n \in 1..k : g[n - 1] = h[n - 1]
    BY <2>1
  <2>4. g = [n \in 0..k |-> g[n]]
    OBVIOUS
  <2> HIDE DEF g
  <2>5. \A n \in 0..k : Round(s, at, h, n) = Round(s, at, g, n)
    BY <2>3 DEF Round
  <2>6. ASSUME NEW n \in 0..k PROVE g[n] = Round(s, at, g, n)
    <3>1. CASE n = k
      BY <2>2, <2>5, <3>1
    <3>2. CASE n # k
      <4>1. n \in 0..(k - 1)
        BY <3>2
      <4> QED
        BY <2>1, <2>5, <4>1
    <3> QED
      BY <3>1, <3>2
  <2> QED
    BY <2>4, <2>6
<1>3. T = {}
  <2> SUFFICES ASSUME T # {} PROVE FALSE
    OBVIOUS
  <2>1. PICK k \in T : \A m \in T : k <= m
    BY SmallestNumber
  <2>2. k # 0
    <3> DEFINE g == [n \in 0..0 |-> <<>>]
    <3>1. \A n \in 0..0 : Round(s, at, g, n) = <<>>
      BY DEF Round
    <3>2. Solves(g, 0)
      BY <3>1
    <3> HIDE DEF g
    <3> QED
      BY <3>2
  <2>3. k - 1 \in Nat /\ ~(k <= k - 1)
    BY <2>2
  <2>4. k - 1 \notin T
    BY <2>1, <2>3
  <2>5. PICK h : Solves(h, k - 1)
    BY <2>3, <2>4
  <2> HIDE DEF Solves
  <2> QED
    BY <1>2, <2>2, <2>5
<1>4. Solves(upTo, Len(s))
  <2>1. \E g : Solves(g, Len(s))
    BY <1>1, <1>3
  <2> HIDE DEF Solves
  <2> QED
    BY <2>1
<1>5. Picked(s, at) = upTo[Len(s)]
  BY DEF Picked, Round
<1>6. \A n \in 0..Len(s) : upTo[n] = Round(s, at, upTo, n)
  <2> HIDE DEF upTo
  <2> QED
    BY <1>4
<1> HIDE DEF upTo
<1> QED
  BY <1>5, <1>6

\* The places up to one, and how many they are.
UpTo(at, i) == {j \in at : j <= i}
CountUpTo(at, i) == Cardinality(UpTo(at, i))

\* The places up to none, and up to the last.
LEMMA PlacesEnds ==
    ASSUME NEW m \in Nat, NEW at \in SUBSET (1..m)
    PROVE  /\ UpTo(at, 0) = {} /\ UpTo(at, m) = at
           /\ \A n : UpTo(at, n) \in SUBSET (1..m)
<1>1. \A j \in at : j \in Int /\ 1 <= j /\ j <= m
  OBVIOUS
<1>2. \A n, j : j \in UpTo(at, n) <=> j \in at /\ j <= n
  BY DEF UpTo
<1>3. \A j : j \notin UpTo(at, 0)
  <2>1. \A j \in at : ~(j <= 0)
    BY <1>1
  <2> QED
    BY <1>2, <2>1
<1>4. \A j : j \in UpTo(at, m) <=> j \in at
  BY <1>1, <1>2
<1>5. \A n : UpTo(at, n) \in SUBSET (1..m)
  BY DEF UpTo
<1> QED
  BY <1>3, <1>4, <1>5

\* The places up to n are those before it, and n when it is one.
LEMMA PlacesNext ==
    ASSUME NEW at \in SUBSET Int, NEW n \in Int
    PROVE  /\ n \notin UpTo(at, n - 1)
           /\ n \in at => UpTo(at, n) = UpTo(at, n - 1) \cup {n}
           /\ n \notin at => UpTo(at, n) = UpTo(at, n - 1)
<1>1. \A j \in at : j \in Int
  OBVIOUS
<1>2. \A j \in at : j <= n <=> j <= n - 1 \/ j = n
  BY <1>1
<1>3. n \notin UpTo(at, n - 1)
  BY DEF UpTo
<1>4. \A k, j : j \in UpTo(at, k) <=> j \in at /\ j <= k
  BY DEF UpTo
<1>5. \A j : j \in UpTo(at, n) <=> j \in UpTo(at, n - 1) \/ (j = n /\ n \in at)
  BY <1>2, <1>4
<1> QED
  BY <1>3, <1>5

\* Places counted among the first ones are counted as among all.
LEMMA PlacesNested ==
    ASSUME NEW at \in SUBSET Int, NEW n \in Int, NEW i \in UpTo(at, n)
    PROVE  UpTo(UpTo(at, n), i) = UpTo(at, i)
<1>1. \A k, j : j \in UpTo(at, k) <=> j \in at /\ j <= k
  BY DEF UpTo
<1>2. i \in Int /\ i <= n
  BY <1>1
<1>3. \A j \in at : j <= i => j <= n
  BY <1>2
<1>4. \A j : j \in UpTo(UpTo(at, n), i) <=> j \in UpTo(at, n) /\ j <= i
  BY DEF UpTo
<1> QED
  BY <1>1, <1>3, <1>4

\* One place more is counted when it is one of the places.
LEMMA OnePlaceMore ==
    ASSUME NEW m \in Nat, NEW at \in SUBSET (1..m), NEW n \in 1..m
    PROVE  /\ CountUpTo(at, n - 1) \in Nat /\ CountUpTo(at, 0) = 0
           /\ n \in at => /\ UpTo(at, n) = UpTo(at, n - 1) \cup {n}
                         /\ CountUpTo(at, n) = CountUpTo(at, n - 1) + 1
           /\ n \notin at => UpTo(at, n) = UpTo(at, n - 1)
<1>1. IsFiniteSet(1..m)
  BY FS_Interval
<1>2. \A T \in SUBSET (1..m) : IsFiniteSet(T) /\ Cardinality(T) \in Nat
  BY <1>1, FS_Subset, FS_CardinalityType
<1>3. UpTo(at, n - 1) \in SUBSET (1..m) /\ n \notin UpTo(at, n - 1) /\ UpTo(at, 0) = {}
  <2>1. at \in SUBSET Int /\ n \in Int
    OBVIOUS
  <2> QED
    BY <2>1, PlacesNext, PlacesEnds
<1>4. /\ n \in at => UpTo(at, n) = UpTo(at, n - 1) \cup {n}
      /\ n \notin at => UpTo(at, n) = UpTo(at, n - 1)
  <2>1. at \in SUBSET Int /\ n \in Int
    OBVIOUS
  <2> QED
    BY <2>1, PlacesNext
<1>5. Cardinality(UpTo(at, n - 1) \cup {n}) = CountUpTo(at, n - 1) + 1
  BY <1>2, <1>3, FS_AddElement DEF CountUpTo
<1>6. CountUpTo(at, n - 1) \in Nat /\ CountUpTo(at, 0) = 0
  BY <1>2, <1>3, FS_EmptySet DEF CountUpTo
<1> QED
  BY <1>4, <1>5, <1>6 DEF CountUpTo

\* The list p has the entries of s at the places in at, and no others, in the order of s.
ListOf(p, s, at) ==
    /\ Len(p) = Cardinality(at)
    /\ \A i \in at : CountUpTo(at, i) \in 1..Len(p) /\ p[CountUpTo(at, i)] = s[i]
    /\ \A k \in 1..Len(p) : \E i \in at : CountUpTo(at, i) = k /\ p[k] = s[i]

\* A round of the loop for an entry that is not skipped.
LEMMA RoundAppends ==
    ASSUME NEW S, NEW s \in Seq(S), NEW at \in SUBSET (1..Len(s)), NEW n \in 1..Len(s),
           n \in at, NEW p \in Seq(S), ListOf(p, s, UpTo(at, n - 1))
    PROVE  Append(p, s[n]) \in Seq(S) /\ ListOf(Append(p, s[n]), s, UpTo(at, n))
<1> DEFINE q == Append(p, s[n])
           before == UpTo(at, n - 1)
           now == UpTo(at, n)
<1>1. Len(s) \in Nat /\ Len(p) \in Nat /\ s[n] \in S
  BY LenProperties, ElementOfSeq
<1>0. at \in SUBSET Int /\ n \in Int
  BY <1>1
<1>2. /\ q \in Seq(S) /\ Len(q) = Len(p) + 1 /\ q[Len(p) + 1] = s[n]
      /\ \A i \in 1..Len(p) : q[i] = p[i]
  BY <1>1, Appended
<1>3. now = before \cup {n} /\ Cardinality(now) = Cardinality(before) + 1 /\ n \notin before
  <2>1. now = before \cup {n} /\ Cardinality(now) = Cardinality(before) + 1
    BY <1>1, OnePlaceMore DEF CountUpTo
  <2>2. n \notin before
    BY <1>0, PlacesNext
  <2> QED
    BY <2>1, <2>2
<1>4. \A i \in before : UpTo(now, i) = UpTo(before, i)
  <2>1. \A i \in before : UpTo(before, i) = UpTo(at, i)
    BY <1>0, PlacesNested
  <2>2. \A i \in now : UpTo(now, i) = UpTo(at, i)
    BY <1>0, PlacesNested
  <2> HIDE DEF now, before
  <2> QED
    BY <1>3, <2>1, <2>2
<1>5. UpTo(now, n) = now
  <2>1. n \in now
    BY <1>3
  <2> QED
    BY <1>0, <2>1, PlacesNested
<1> HIDE DEF q, before, now
<1>6. Len(q) = Cardinality(now)
  BY <1>2, <1>3 DEF ListOf, before
<1>7. ASSUME NEW i \in now PROVE CountUpTo(now, i) \in 1..Len(q) /\ q[CountUpTo(now, i)] = s[i]
  <2>1. CASE i = n
    BY <1>1, <1>2, <1>5, <1>6, <2>1 DEF CountUpTo
  <2>2. CASE i \in before
    <3>1. CountUpTo(now, i) = CountUpTo(before, i)
      BY <1>4, <2>2 DEF CountUpTo
    <3>2. CountUpTo(before, i) \in 1..Len(p) /\ p[CountUpTo(before, i)] = s[i]
      BY <2>2 DEF ListOf, before
    <3> QED
      BY <1>1, <1>2, <3>1, <3>2
  <2> QED
    BY <1>3, <2>1, <2>2
<1>8. ASSUME NEW k \in 1..Len(q) PROVE \E i \in now : CountUpTo(now, i) = k /\ q[k] = s[i]
  <2>1. CASE k = Len(q)
    <3>1. n \in now /\ CountUpTo(now, n) = k /\ q[k] = s[n]
      BY <1>2, <1>3, <1>5, <1>6, <2>1 DEF CountUpTo
    <3> QED
      BY <3>1
  <2>2. CASE k # Len(q)
    <3>1. k \in 1..Len(p)
      BY <1>1, <1>2, <2>2
    <3>2. PICK i \in before : CountUpTo(before, i) = k /\ p[k] = s[i]
      BY <3>1 DEF ListOf, before
    <3>3. i \in now /\ CountUpTo(now, i) = k /\ q[k] = s[i]
      BY <1>2, <1>3, <1>4, <3>1, <3>2 DEF CountUpTo
    <3> QED
      BY <3>3
  <2> QED
    BY <2>1, <2>2
<1> QED
  BY <1>2, <1>6, <1>7, <1>8 DEF ListOf, q, now

\* What the loop gives: the entries at those places, once each and in their order.
LEMMA PickedRight ==
    ASSUME NEW S, NEW s \in Seq(S), NEW at \in SUBSET (1..Len(s))
    PROVE  Picked(s, at) \in Seq(S) /\ ListOf(Picked(s, at), s, at)
<1>1. PICK f : Picked(s, at) = f[Len(s)] /\ \A n \in 0..Len(s) : f[n] = Round(s, at, f, n)
  BY PickedRounds
<1>2. Len(s) \in Nat
  BY LenProperties
<1> DEFINE Done(n) == f[n] \in Seq(S) /\ ListOf(f[n], s, UpTo(at, n))
           T == {n \in 0..Len(s) : ~Done(n)}
<1>3. Done(0)
  <2>1. f[0] = <<>>
    BY <1>1, <1>2 DEF Round
  <2>2. UpTo(at, 0) = {}
    BY <1>2, PlacesEnds
  <2>3. <<>> \in Seq(S) /\ Len(<<>>) = 0
    OBVIOUS
  <2>4. Cardinality({}) = 0 /\ 1..0 = {}
    BY FS_EmptySet
  <2>5. ListOf(<<>>, s, {})
    BY <2>3, <2>4 DEF ListOf
  <2> QED
    BY <2>1, <2>2, <2>3, <2>5
<1>4. ASSUME NEW n \in 1..Len(s), Done(n - 1) PROVE Done(n)
  <2>1. f[n] = IF n \in at THEN Append(f[n - 1], s[n]) ELSE f[n - 1]
    BY <1>1, <1>2 DEF Round
  <2>2. CASE n \in at
    BY <1>4, <2>1, <2>2, RoundAppends
  <2>3. CASE n \notin at
    <3>1. UpTo(at, n) = UpTo(at, n - 1)
      BY <1>2, <2>3, OnePlaceMore
    <3> QED
      BY <1>4, <2>1, <2>3, <3>1
  <2> QED
    BY <2>2, <2>3
<1>5. T = {}
  <2> SUFFICES ASSUME T # {} PROVE FALSE
    OBVIOUS
  <2>1. T \in SUBSET Nat
    BY <1>2
  <2> HIDE DEF Done
  <2>2. PICK k \in T : \A m \in T : k <= m
    <3> HIDE DEF T
    <3> QED
      BY <2>1, SmallestNumber
  <2>3. k \in 0..Len(s) /\ k # 0 /\ ~Done(k)
    BY <1>3, <2>2
  <2>4. k \in 1..Len(s) /\ k - 1 \in 0..Len(s) /\ ~(k <= k - 1)
    BY <1>2, <2>3
  <2>5. Done(k - 1)
    BY <2>2, <2>4
  <2> QED
    BY <1>4, <2>3, <2>4, <2>5
<1>6. Done(Len(s))
  <2>1. Len(s) \in 0..Len(s)
    BY <1>2
  <2> HIDE DEF Done
  <2> QED
    BY <1>5, <2>1
<1>7. UpTo(at, Len(s)) = at
  BY <1>2, PlacesEnds
<1> QED
  BY <1>1, <1>6, <1>7

-----------------------------------------------------------------------------
(***************************************************************************)
(* The order of the names.                                                  *)
(***************************************************************************)

\* The digits of a unit are numbers.
LEMMA UnitDigits ==
    ASSUME NEW u \in Seq(Digit)
    PROVE  Len(u) \in Nat /\ \A i \in 1..Len(u) : u[i] \in Int
<1>1. \A i \in 1..Len(u) : u[i] \in Digit
  BY ElementOfSeq
<1> QED
  BY <1>1, LenProperties DEF Digit

\* No unit is before itself.
LEMMA LexIrreflexive == ASSUME NEW u \in Seq(Digit) PROVE ~LexBefore(u, u)
BY UnitDigits DEF LexBefore

\* A unit before one that is before a third is before the third.
LEMMA LexTransitive ==
    ASSUME NEW u \in Seq(Digit), NEW v \in Seq(Digit), NEW w \in Seq(Digit),
           LexBefore(u, v), LexBefore(v, w)
    PROVE  LexBefore(u, w)
<1> DEFINE Differ(a, b, n) == /\ \A j \in 1..(n - 1) : j <= Len(a) /\ a[j] = b[j]
                              /\ n = Len(a) + 1 \/ (n <= Len(a) /\ a[n] < b[n])
<1>1. /\ Len(u) \in Nat /\ Len(v) \in Nat /\ Len(w) \in Nat
      /\ \A i \in 1..Len(u) : u[i] \in Int
      /\ \A i \in 1..Len(v) : v[i] \in Int
      /\ \A i \in 1..Len(w) : w[i] \in Int
  BY UnitDigits
<1>2. PICK k \in 1..Len(v) : Differ(u, v, k)
  BY DEF LexBefore
<1>3. PICK l \in 1..Len(w) : Differ(v, w, l)
  BY DEF LexBefore
<1>4. CASE k < l
  <2>1. k \in 1..Len(w) /\ Differ(u, w, k)
    BY <1>1, <1>2, <1>3, <1>4
  <2> QED
    BY <2>1 DEF LexBefore
<1>5. CASE k = l
  <2>1. \A j \in 1..(k - 1) : j <= Len(u) /\ u[j] = w[j]
    BY <1>1, <1>2, <1>3, <1>5
  <2>2. v[k] < w[k]
    BY <1>1, <1>2, <1>3, <1>5
  <2>3. k = Len(u) + 1 \/ (k <= Len(u) /\ u[k] < w[k])
    BY <1>1, <1>2, <1>3, <1>5, <2>2
  <2>4. k \in 1..Len(w)
    BY <1>3, <1>5
  <2> QED
    BY <2>1, <2>3, <2>4 DEF LexBefore
<1>6. CASE l < k
  <2>1. l \in 1..(k - 1) /\ l <= Len(u) /\ u[l] = v[l] /\ v[l] < w[l]
    BY <1>1, <1>2, <1>3, <1>6
  <2>2. \A j \in 1..(l - 1) : j <= Len(u) /\ u[j] = w[j]
    BY <1>1, <1>2, <1>3, <1>6
  <2> QED
    BY <1>3, <2>1, <2>2 DEF LexBefore
<1> QED
  BY <1>4, <1>5, <1>6

\* Of two units one is before the other.
LEMMA LexTotal ==
    ASSUME NEW u \in Seq(Digit), NEW v \in Seq(Digit), u # v
    PROVE  LexBefore(u, v) \/ LexBefore(v, u)
<1> DEFINE T == {k \in Nat : k >= 1 /\ ~(k <= Len(u) /\ k <= Len(v) /\ u[k] = v[k])}
<1>1. /\ Len(u) \in Nat /\ Len(v) \in Nat
      /\ \A i \in 1..Len(u) : u[i] \in Int
      /\ \A i \in 1..Len(v) : v[i] \in Int
  BY UnitDigits
<1>2. Len(u) + 1 \in T
  BY <1>1
<1>3. PICK k \in T : \A m \in T : k <= m
  <2>1. T \in SUBSET Nat /\ T # {}
    BY <1>2
  <2> HIDE DEF T
  <2> QED
    BY <2>1, SmallestNumber
<1>4. k \in Nat /\ k >= 1 /\ ~(k <= Len(u) /\ k <= Len(v) /\ u[k] = v[k])
  OBVIOUS
<1>5. ASSUME NEW j \in 1..(k - 1) PROVE j <= Len(u) /\ j <= Len(v) /\ u[j] = v[j]
  <2>1. j \notin T
    BY <1>3, <1>4
  <2> QED
    BY <1>4, <2>1
<1>6. k <= Len(u) + 1 /\ k <= Len(v) + 1
  <2>1. k = 1 \/ k - 1 \in 1..(k - 1)
    BY <1>4
  <2> QED
    BY <1>1, <1>4, <1>5, <2>1
<1> HIDE DEF T
<1>7. CASE k = Len(u) + 1 /\ k = Len(v) + 1
  <2>1. Len(u) = Len(v) /\ \A j \in 1..Len(u) : u[j] = v[j]
    BY <1>1, <1>5, <1>7
  <2>2. u = v
    BY <2>1, SeqEqual
  <2> QED
    BY <2>2
<1>8. CASE k = Len(u) + 1 /\ k <= Len(v)
  <2>1. k \in 1..Len(v)
    BY <1>1, <1>4, <1>8
  <2> QED
    BY <1>5, <1>8, <2>1 DEF LexBefore
<1>9. CASE k = Len(v) + 1 /\ k <= Len(u)
  <2>1. k \in 1..Len(u)
    BY <1>1, <1>4, <1>9
  <2> QED
    BY <1>5, <1>9, <2>1 DEF LexBefore
<1>10. CASE k <= Len(u) /\ k <= Len(v)
  <2>1. k \in 1..Len(u) /\ k \in 1..Len(v)
    BY <1>1, <1>4, <1>10
  <2>2. u[k] < v[k] \/ v[k] < u[k]
    BY <1>1, <1>4, <1>10, <2>1
  <2> QED
    BY <1>5, <1>10, <2>1, <2>2 DEF LexBefore
<1> QED
  BY <1>1, <1>4, <1>6, <1>7, <1>8, <1>9, <1>10

\* A family is known by its rank.
LEMMA FamilyRank ==
    ASSUME NEW f \in Range(Families)
    PROVE  Rank(f) \in Nat /\ Families[Rank(f)] = f
<1>1. DOMAIN Families \in SUBSET Nat
  BY DEF Families
<1>2. \E i \in DOMAIN Families : Families[i] = f
  BY DEF Range
<1> QED
  BY <1>1, <1>2 DEF Rank

\* std::string's order of the names is one: no name is before itself, it is transitive,
\* and of two names one is before the other.
LEMMA NamesOrdered ==
    /\ \A a \in Names : ~NameBefore(a, a)
    /\ \A a, b, c \in Names : NameBefore(a, b) /\ NameBefore(b, c) => NameBefore(a, c)
    /\ \A a, b \in Names : a # b => NameBefore(a, b) \/ NameBefore(b, a)
<1>1. \A a \in Names :
        /\ a.family \in Range(Families) /\ a.unit \in Seq(Digit)
        /\ a = [family |-> a.family, unit |-> a.unit]
  BY DEF Names
<1>2. \A a \in Names : Rank(a.family) \in Nat
  BY <1>1, FamilyRank
<1>3. \A a, b \in Names : Rank(a.family) = Rank(b.family) => a.family = b.family
  BY <1>1, FamilyRank
<1>4. \A a \in Names : ~NameBefore(a, a)
  BY <1>1, <1>2, LexIrreflexive DEF NameBefore
<1>5. ASSUME NEW a \in Names, NEW b \in Names, NEW c \in Names, NameBefore(a, b), NameBefore(b, c)
      PROVE  NameBefore(a, c)
  <2>1. /\ Rank(a.family) \in Nat /\ Rank(b.family) \in Nat /\ Rank(c.family) \in Nat
        /\ a.unit \in Seq(Digit) /\ b.unit \in Seq(Digit) /\ c.unit \in Seq(Digit)
    BY <1>1, <1>2
  <2>2. LexBefore(a.unit, b.unit) /\ LexBefore(b.unit, c.unit) => LexBefore(a.unit, c.unit)
    BY <2>1, LexTransitive
  <2> QED
    BY <1>5, <2>1, <2>2 DEF NameBefore
<1>6. ASSUME NEW a \in Names, NEW b \in Names, a # b
      PROVE  NameBefore(a, b) \/ NameBefore(b, a)
  <2>1. CASE a.family # b.family
    <3>1. Rank(a.family) # Rank(b.family)
      BY <1>3, <2>1
    <3> QED
      BY <1>2, <3>1 DEF NameBefore
  <2>2. CASE a.family = b.family
    <3>1. a.unit # b.unit
      BY <1>1, <1>6, <2>2
    <3>2. LexBefore(a.unit, b.unit) \/ LexBefore(b.unit, a.unit)
      BY <1>1, <3>1, LexTotal
    <3> QED
      BY <2>2, <3>2 DEF NameBefore
  <2> QED
    BY <2>1, <2>2
<1> QED
  BY <1>4, <1>5, <1>6

\* What the sort gives for entries of different names: the same entries, each before
\* those of later names.
LEMMA SortRight ==
    ASSUME NEW S, NEW s \in Seq(S),
           \A i \in 1..Len(s) : s[i].portName \in Names,
           \A i, j \in 1..Len(s) : s[i].portName = s[j].portName => i = j
    PROVE  LET t == SortedByName(s)
           IN /\ t \in Seq(S) /\ Len(t) = Len(s)
              /\ \A i \in 1..Len(s) : \E k \in 1..Len(t) : t[k] = s[i]
              /\ \A k \in 1..Len(t) : \E i \in 1..Len(s) : t[k] = s[i]
              /\ \A k, l \in 1..Len(t) : k < l => NameBefore(t[k].portName, t[l].portName)
<1> DEFINE n == Len(s)
           name(i) == s[i].portName
           R == {e \in (1..n) \X (1..n) : NameBefore(name(e[1]), name(e[2]))}
           orders == {p \in [1..n -> 1..n] : \A i, j \in 1..n : p[i] = p[j] => i = j}
           Permuted(p) == [i \in 1..n |-> s[p[i]]]
           candidates == {Permuted(p) : p \in orders}
           InOrder(t) == \A i, j \in 1..n : i < j => ~NameBefore(t[j].portName, t[i].portName)
           sorted == SortedByName(s)
<1>1. n \in Nat /\ DOMAIN s = 1..n /\ \A i \in 1..n : s[i] \in S
  BY LenProperties, ElementOfSeq
<1>2. sorted = CHOOSE t \in candidates : InOrder(t)
  BY <1>1 DEF SortedByName
<1>3. \A i, j \in 1..n : <<i, j>> \in R <=> NameBefore(name(i), name(j))
  OBVIOUS
<1>4. \A i \in 1..n : name(i) \in Names
  OBVIOUS
<1>5. \A i, j \in 1..n : name(i) = name(j) => i = j
  OBVIOUS
<1> HIDE DEF R, name
<1>6. \A i \in 1..n : <<i, i>> \notin R
  BY <1>3, <1>4, NamesOrdered
<1>7. \A i, j, k \in 1..n : <<i, j>> \in R /\ <<j, k>> \in R => <<i, k>> \in R
  BY <1>3, <1>4, NamesOrdered
<1>8. \A i, j \in 1..n : i # j => <<i, j>> \in R \/ <<j, i>> \in R
  BY <1>3, <1>4, <1>5, NamesOrdered
<1>9. PICK p \in [1..n -> 1..n] : /\ \A i, j \in 1..n : p[i] = p[j] => i = j
                                  /\ \A i, j \in 1..n : i < j => <<p[i], p[j]>> \in R
  <2> HIDE DEF n
  <2> QED
    BY <1>1, <1>6, <1>7, <1>8, OrderedPermutation
<1>10. \A q \in [1..n -> 1..n] : \A i \in 1..n : Permuted(q)[i] = s[q[i]] /\ q[i] \in 1..n
  OBVIOUS
<1>11. \A i \in 1..n : s[i].portName = name(i)
  BY DEF name
<1> HIDE DEF Permuted
<1>12. InOrder(Permuted(p))
  <2> SUFFICES ASSUME NEW i \in 1..n, NEW j \in 1..n, i < j
               PROVE  ~NameBefore(Permuted(p)[j].portName, Permuted(p)[i].portName)
    OBVIOUS
  <2>1. /\ p[i] \in 1..n /\ p[j] \in 1..n
        /\ Permuted(p)[j].portName = name(p[j]) /\ Permuted(p)[i].portName = name(p[i])
    BY <1>9, <1>10, <1>11, SMTT(25)
  <2>2. NameBefore(name(p[i]), name(p[j]))
    BY <1>3, <1>9, <2>1
  <2> QED
    BY <1>4, <2>1, <2>2, NamesOrdered
<1>13. sorted \in candidates /\ InOrder(sorted)
  <2>1. Permuted(p) \in candidates
    BY <1>9
  <2> HIDE DEF candidates, InOrder, sorted
  <2> QED
    BY <1>2, <1>12, <2>1
<1>14. PICK q \in [1..n -> 1..n] : /\ sorted = Permuted(q)
                                   /\ \A i, j \in 1..n : q[i] = q[j] => i = j
  BY <1>13
<1> HIDE DEF sorted
<1>15. \A k \in 1..n : sorted[k] = s[q[k]] /\ q[k] \in 1..n
  BY <1>10, <1>14
<1>16. sorted \in Seq(S) /\ Len(sorted) = n
  <2>1. sorted \in [1..n -> S]
    <3>1. Permuted(q) = [i \in 1..n |-> s[q[i]]]
      BY DEF Permuted
    <3>2. \A i \in 1..n : s[q[i]] \in S
      BY <1>1, <1>15
    <3> QED
      BY <1>14, <3>1, <3>2
  <2> HIDE DEF n
  <2> QED
    BY <1>1, <2>1, FunctionIsSequence
<1>17. ASSUME NEW i \in 1..n PROVE \E k \in 1..n : sorted[k] = s[i]
  <2>1. \A j \in 1..n : \E k \in 1..n : q[k] = j
    <3> HIDE DEF n, name, sorted, Permuted, candidates, R
    <3>1. n \in Nat
      BY <1>1
    <3>2. q \in [1..n -> 1..n] /\ \A i1, j1 \in 1..n : q[i1] = q[j1] => i1 = j1
      BY <1>14
    <3> QED
      BY <3>1, <3>2, PermutationReaches, ZenonT(25)
  <2>2. PICK k \in 1..n : q[k] = i
    BY <2>1
  <2> QED
    BY <1>15, <2>2
<1>18. ASSUME NEW k \in 1..n, NEW l \in 1..n, k < l
       PROVE  NameBefore(sorted[k].portName, sorted[l].portName)
  <2>1. /\ q[k] \in 1..n /\ q[l] \in 1..n /\ q[k] # q[l]
        /\ sorted[k].portName = name(q[k]) /\ sorted[l].portName = name(q[l])
    BY <1>1, <1>11, <1>14, <1>15, <1>18
  <2>2. ~NameBefore(sorted[l].portName, sorted[k].portName)
    BY <1>13, <1>18
  <2>3. name(q[k]) # name(q[l])
    BY <1>5, <2>1
  <2> QED
    BY <1>4, <2>1, <2>2, <2>3, NamesOrdered
<1> QED
  BY <1>15, <1>16, <1>17, <1>18 DEF sorted

-----------------------------------------------------------------------------
(***************************************************************************)
(* The directories above a device: by induction over the levels, upwards     *)
(* from the one the search gives up at, as the least counterexample.          *)
(***************************************************************************)

\* findAttrUpwards() finds the file of the nearest directory that has one.
LEMMA NearestFound ==
    ASSUME NEW D, NEW dirs \in Seq(D), NEW attr
    PROVE  FindAttrUpwards(dirs, attr)
             = IF Levels(dirs, attr) = {} THEN <<>> ELSE Nearest(dirs, attr)
<1> USE MaxLevelsAssumption
<1> DEFINE M == MaxLevels
           at == Levels(dirs, attr)
           Above(i) == {j \in at : i <= j}
           First(T) == CHOOSE i \in T : \A j \in T : i <= j
           Step(f, i) == IF i > M \/ i > Len(dirs) THEN <<>>
                         ELSE IF dirs[i][attr] # <<>> THEN dirs[i][attr] ELSE f[i + 1]
           from == CHOOSE f : f = [i \in 1..(M + 1) |-> Step(f, i)]
           g == [i \in 1..(M + 1) |-> IF Above(i) = {} THEN <<>> ELSE dirs[First(Above(i))][attr]]
<1>1. /\ M \in Nat /\ Len(dirs) \in Nat /\ at \subseteq Nat
      /\ \A i \in Nat : i \in at <=> 1 <= i /\ i <= M /\ i <= Len(dirs) /\ dirs[i][attr] # <<>>
  BY LenProperties DEF Levels
<1>2. FindAttrUpwards(dirs, attr) = from[1]
  BY DEF FindAttrUpwards
<1>3. ASSUME NEW i \in 1..(M + 1)
      PROVE  g[i] = Step(g, i)
  <2> HIDE DEF at
  <2>1. g[i] = IF Above(i) = {} THEN <<>> ELSE dirs[First(Above(i))][attr]
    OBVIOUS
  <2>2. CASE i > M \/ i > Len(dirs)
    <3>1. ASSUME NEW j \in at PROVE ~(i <= j)
      <4>1. j \in Nat /\ j <= M /\ j <= Len(dirs) /\ i \in Int /\ M \in Int /\ Len(dirs) \in Int
        BY <1>1
      <4> QED
        BY <2>2, <4>1
    <3>2. Above(i) = {}
      BY <3>1
    <3> HIDE DEF g, Above, First
    <3> QED
      BY <2>1, <2>2, <3>2
  <2>3. CASE i \in at
    <3>1. i \in Above(i) /\ \A j \in Above(i) : i <= j
      BY <1>1, <2>3
    <3>2. First(Above(i)) = i
      <4>1. \A k \in Above(i) : (\A j \in Above(i) : k <= j) => k = i
        BY <1>1, <3>1
      <4> HIDE DEF Above
      <4> QED
        BY <3>1, <4>1
    <3> HIDE DEF g, Above, First
    <3> QED
      BY <1>1, <2>1, <2>3, <3>1, <3>2
  <2>4. CASE i <= M /\ i <= Len(dirs) /\ dirs[i][attr] = <<>>
    <3>1. Above(i) = Above(i + 1)
      <4>1. ASSUME NEW j \in at PROVE i <= j <=> i + 1 <= j
        <5>1. j \in Nat /\ i \in Nat
          BY <1>1
        <5>2. i # j
          BY <1>1, <2>4
        <5> QED
          BY <5>1, <5>2
      <4> QED
        BY <4>1
    <3>2. i + 1 \in 1..(M + 1)
      BY <1>1, <2>4
    <3>3. g[i + 1] = IF Above(i + 1) = {} THEN <<>> ELSE dirs[First(Above(i + 1))][attr]
      BY <3>2
    <3>4. g[i] = g[i + 1]
      <4> HIDE DEF g, Above, First
      <4> QED
        BY <2>1, <3>1, <3>3
    <3> HIDE DEF g
    <3> QED
      BY <1>1, <2>4, <3>4
  <2> HIDE DEF g
  <2> QED
    BY <1>1, <2>2, <2>3, <2>4
<1>4. from = [i \in 1..(M + 1) |-> Step(from, i)]
  <2>1. g = [i \in 1..(M + 1) |-> Step(g, i)]
    <3>1. \A i \in 1..(M + 1) : g[i] = Step(g, i)
      BY <1>3
    <3>2. g = [i \in 1..(M + 1) |-> g[i]]
      OBVIOUS
    <3> HIDE DEF g, Step
    <3> QED
      BY <3>1, <3>2
  <2> HIDE DEF g, Step
  <2> QED
    BY <2>1
<1>5. \A i \in 1..(M + 1) : from[i] = g[i]
  <2> DEFINE T == {k \in 0..M : from[M + 1 - k] # g[M + 1 - k]}
  <2>1. SUFFICES ASSUME T # {} PROVE FALSE
    <3>1. \A i \in 1..(M + 1) : M + 1 - i \in 0..M /\ M + 1 - (M + 1 - i) = i
      BY <1>1
    <3> HIDE DEF from, g
    <3> QED
      BY <3>1
  <2>2. PICK k \in T : \A j \in T : k <= j
    <3>1. T \in SUBSET Nat
      BY <1>1
    <3> HIDE DEF T
    <3> QED
      BY <2>1, <3>1, SmallestNumber
  <2> DEFINE i == M + 1 - k
  <2>3. k \in 0..M /\ i \in 1..(M + 1) /\ from[i] # g[i]
    BY <1>1, <2>2
  <2>4. i <= M => i + 1 \in 1..(M + 1) /\ from[i + 1] = g[i + 1]
    <3>1. k - 1 \notin T
      <4> HIDE DEF T
      <4> QED
        BY <1>1, <2>2, <2>3
    <3>2. i <= M => k - 1 \in 0..M /\ M + 1 - (k - 1) = i + 1
      BY <1>1, <2>3
    <3> HIDE DEF from, g, i
    <3> QED
      BY <1>1, <2>3, <3>1, <3>2
  <2>5. from[i] = Step(from, i) /\ g[i] = Step(g, i)
    <3>1. \A j \in 1..(M + 1) : [n \in 1..(M + 1) |-> Step(from, n)][j] = Step(from, j)
      <4> HIDE DEF from, Step
      <4> QED
        OBVIOUS
    <3> HIDE DEF from, g, Step, i
    <3> QED
      BY <1>3, <1>4, <2>3, <3>1
  <2> HIDE DEF from, g, i
  <2> QED
    BY <1>1, <2>3, <2>4, <2>5
<1>6. g[1] = IF at = {} THEN <<>> ELSE dirs[First(at)][attr]
  <2>1. Above(1) = at /\ 1 \in 1..(M + 1)
    BY <1>1
  <2> HIDE DEF at, Above, First
  <2> QED
    BY <2>1
<1>7. from[1] = g[1]
  <2> HIDE DEF from, g
  <2> QED
    BY <1>1, <1>5
<1> HIDE DEF from, g
<1> QED
  BY <1>2, <1>6, <1>7 DEF Nearest

\* Each id of a port of the POSIX list is that of the nearest directory with its file,
\* among MaxLevels from the device upwards; both are 0 when one has no file at all
\* (findAttrUpwards() and enumeratePorts() in PortEnumerator.cpp), for any directories.
THEOREM IdsAreNearest ==
    ASSUME NEW D, NEW tty, tty.dirs \in Seq(D)
    PROVE  HasIds(PosixInfo(tty), tty.dirs)
<1> DEFINE dirs == tty.dirs
           At(a) == Levels(dirs, a)
<1>1. \A a \in {"idVendor", "idProduct"} :
        FindAttrUpwards(dirs, a) = IF At(a) = {} THEN <<>> ELSE Nearest(dirs, a)
  BY NearestFound
<1>2. \A a \in {"idVendor", "idProduct"} : At(a) # {} => Nearest(dirs, a) # <<>>
  <2> SUFFICES ASSUME NEW a \in {"idVendor", "idProduct"}, At(a) # {}
               PROVE  Nearest(dirs, a) # <<>>
    OBVIOUS
  <2>1. At(a) \in SUBSET Nat
    BY LenProperties DEF Levels
  <2>2. \E n \in At(a) : \A m \in At(a) : n <= m
    BY <2>1, SmallestNumber
  <2>3. \A n \in At(a) : dirs[n][a] # <<>>
    BY DEF Levels
  <2> HIDE DEF dirs, At
  <2>4. (CHOOSE n \in At(a) : \A m \in At(a) : n <= m) \in At(a)
    BY <2>2
  <2> QED
    BY <2>3, <2>4 DEF Nearest, At
<1>3. LET usb == FindAttrUpwards(dirs, "idVendor") # <<>> /\ FindAttrUpwards(dirs, "idProduct") # <<>>
      IN /\ PosixInfo(tty).vendorId
              = IF usb THEN HexToInt(FindAttrUpwards(dirs, "idVendor")) ELSE 0
         /\ PosixInfo(tty).productId
              = IF usb THEN HexToInt(FindAttrUpwards(dirs, "idProduct")) ELSE 0
  BY DEF PosixInfo, PortInfo
<1> HIDE DEF dirs
<1> QED
  BY <1>1, <1>2, <1>3 DEF HasIds, dirs


-----------------------------------------------------------------------------
(***************************************************************************)
(* The three lists.                                                         *)
(***************************************************************************)

\* On POSIX, for any ttys of one directory, the list has each tty with a device once, with
\* the ids of the nearest directory that has them; and every port comes before all later
\* ones in std::string's order (enumeratePorts() in PortEnumerator.cpp).
LEMMA PosixRight ==
    ASSUME ProperDevices("posix", devices), ports = AvailablePorts("posix", devices)
    PROVE  /\ PosixListRight /\ DOMAIN ports \in SUBSET Nat /\ Len(ports) \in Nat
           /\ \A k, l \in DOMAIN ports : k < l => NameBefore(ports[k].portName, ports[l].portName)
<1> DEFINE n == Len(devices)
           infos == [i \in DOMAIN devices |-> PosixInfo(devices[i])]
           S == {PosixInfo(devices[i]) : i \in 1..n}
           shown == {i \in DOMAIN devices : LooksSerial(devices[i].name) /\ devices[i].hardware}
           kept == Picked(infos, shown)
<1>1. /\ devices \in Seq(Ttys) /\ n \in Nat /\ DOMAIN devices = 1..n
      /\ \A i, j \in 1..n : devices[i].name = devices[j].name => i = j
      /\ \A i \in 1..n : devices[i].name \in Names /\ devices[i].dirs \in Seq(Directories)
  <2>1. devices \in Seq(Ttys) /\ \A i, j \in DOMAIN devices :
                                     devices[i].name = devices[j].name => i = j
    BY DEF ProperDevices
  <2>2. n \in Nat /\ DOMAIN devices = 1..n /\ \A i \in 1..n : devices[i] \in Ttys
    BY <2>1, LenProperties, ElementOfSeq
  <2>3. \A t \in Ttys : t.name \in Names /\ t.dirs \in Seq(Directories)
    BY DEF Ttys
  <2> QED
    BY <2>1, <2>2, <2>3
<1>2. infos \in Seq(S) /\ Len(infos) = n /\ shown \in SUBSET (1..n)
  <2>1. infos \in [1..n -> S]
    BY <1>1
  <2>2. shown \in SUBSET (1..n)
    BY <1>1
  <2> HIDE DEF infos, S, n, shown
  <2> QED
    BY <1>1, <2>1, <2>2, FunctionIsSequence
<1>3. \A i \in 1..n : infos[i] = PosixInfo(devices[i])
  BY <1>1
<1>4. ports = SortedByName(kept)
  BY DEF AvailablePorts, EnumeratePosix
<1>5. \A i \in 1..n : infos[i].portName = devices[i].name /\ HasIds(infos[i], devices[i].dirs)
  <2>1. \A t : PosixInfo(t).portName = t.name
    BY DEF PosixInfo, PortInfo
  <2> QED
    BY <1>1, <1>3, <2>1, IdsAreNearest
<1> HIDE DEF infos, shown, S
<1>6. kept \in Seq(S) /\ ListOf(kept, infos, shown)
  BY <1>2, PickedRight
<1> HIDE DEF kept
<1>7. Len(kept) = Cardinality(shown)
  BY <1>6 DEF ListOf
<1>8. \A k \in 1..Len(kept) : \E i \in shown : CountUpTo(shown, i) = k /\ kept[k] = infos[i]
  BY <1>6 DEF ListOf
<1>9. \A i \in shown : \E k \in 1..Len(kept) : kept[k] = infos[i]
  BY <1>6 DEF ListOf
<1>10. \A k \in 1..Len(kept) : kept[k].portName \in Names
  BY <1>1, <1>2, <1>5, <1>8
<1>11. \A k, l \in 1..Len(kept) : kept[k].portName = kept[l].portName => k = l
  <2> SUFFICES ASSUME NEW k \in 1..Len(kept), NEW l \in 1..Len(kept),
                      kept[k].portName = kept[l].portName
               PROVE  k = l
    OBVIOUS
  <2>1. PICK i \in shown : CountUpTo(shown, i) = k /\ kept[k] = infos[i]
    BY <1>8
  <2>2. PICK j \in shown : CountUpTo(shown, j) = l /\ kept[l] = infos[j]
    BY <1>8
  <2>3. i \in 1..n /\ j \in 1..n
    BY <1>2
  <2>4. devices[i].name = devices[j].name
    BY <1>5, <2>1, <2>2, <2>3
  <2> QED
    BY <1>1, <2>1, <2>2, <2>3, <2>4
<1>12. /\ ports \in Seq(S) /\ Len(ports) = Len(kept)
       /\ \A i \in 1..Len(kept) : \E k \in 1..Len(ports) : ports[k] = kept[i]
       /\ \A k, l \in 1..Len(ports) : k < l => NameBefore(ports[k].portName, ports[l].portName)
  <2>1. kept \in Seq(S)
    BY <1>6
  <2> DEFINE t == SortedByName(kept)
  <2>2. /\ t \in Seq(S) /\ Len(t) = Len(kept)
        /\ \A i \in 1..Len(kept) : \E k \in 1..Len(t) : t[k] = kept[i]
        /\ \A k, l \in 1..Len(t) : k < l => NameBefore(t[k].portName, t[l].portName)
    BY <1>10, <1>11, <2>1, SortRight
  <2> QED
    BY <1>4, <2>2
<1>13. Len(ports) \in Nat /\ DOMAIN ports = 1..Len(ports)
  BY <1>12, LenProperties
<1>14. ASSUME NEW i \in shown
       PROVE  \E k \in DOMAIN ports : ports[k].portName = devices[i].name /\ HasIds(ports[k], devices[i].dirs)
  <2>1. PICK m \in 1..Len(kept) : kept[m] = infos[i]
    BY <1>9
  <2>2. PICK k \in 1..Len(ports) : ports[k] = kept[m]
    BY <1>12
  <2>3. i \in 1..n
    BY <1>2
  <2> QED
    BY <1>5, <1>13, <2>1, <2>2, <2>3
<1>15. \A k \in 1..(Len(ports) - 1) : NameBefore(ports[k].portName, ports[k + 1].portName)
  <2>1. \A k \in 1..(Len(ports) - 1) : k \in 1..Len(ports) /\ k + 1 \in 1..Len(ports) /\ k < k + 1
    BY <1>13
  <2> QED
    BY <1>12, <2>1
<1>16. PosixListRight /\ DOMAIN ports \in SUBSET Nat
  BY <1>7, <1>12, <1>13, <1>14, <1>15 DEF PosixListRight, shown
<1> QED
  BY <1>12, <1>13, <1>16

\* A COM name is the digits after the first "COM" followed by one, up to the first other
\* character; there is none in a text without such a "COM" (extractComName()).
LEMMA ComNameRight ==
    ASSUME NEW S, NEW text \in Seq(S)
    PROVE  /\ ExtractComName(text) # <<>> <=> ComNames(text) # {}
           /\ ComNames(text) # {} =>
                \E n \in ComNames(text), m \in 1..Len(text) :
                  /\ \A j \in ComNames(text) : n <= j
                  /\ ExtractComName(text) = SubSeq(text, n + 1, m)
                  /\ \A j \in (n + 1)..m : text[j] \in Digit
                  /\ m = Len(text) \/ text[m + 1] \notin Digit
<1> DEFINE at == ComNames(text)
           first == CHOOSE i \in at : \A j \in at : i <= j
           Ends(k) == /\ \A j \in (first + 1)..k : text[j] \in Digit
                      /\ k < Len(text) => text[k + 1] \notin Digit
           last == CHOOSE k \in (first + 1)..Len(text) : Ends(k)
<1>1. ExtractComName(text) = IF at = {} THEN <<>> ELSE SubSeq(text, first + 1, last)
  BY DEF ExtractComName, ComNames
<1>2. Len(text) \in Nat /\ \A i \in 1..Len(text) : text[i] \in S
  BY LenProperties, ElementOfSeq
<1>3. at \in SUBSET Nat /\ \A i \in at : 1 <= i /\ i + 1 <= Len(text) /\ text[i + 1] \in Digit
  BY <1>2 DEF ComNames
<1> HIDE DEF at
<1>4. CASE at = {}
  BY <1>1, <1>4 DEF at
<1>5. CASE at # {}
  <2>1. first \in at /\ \A j \in at : first <= j
    <3>1. \E i \in at : \A j \in at : i <= j
      BY <1>3, <1>5, SmallestNumber
    <3> QED
      BY <3>1
  <2>2. first \in Nat /\ 1 <= first /\ first + 1 <= Len(text) /\ text[first + 1] \in Digit
    BY <1>3, <2>1
  <2> HIDE DEF first
  <2>3. \E k \in (first + 1)..Len(text) : Ends(k)
    <3> DEFINE T == {k \in (first + 1)..Len(text) : k = Len(text) \/ text[k + 1] \notin Digit}
    <3>1. T \in SUBSET Nat /\ Len(text) \in T
      BY <1>2, <2>2
    <3>2. PICK k \in T : \A j \in T : k <= j
      <4> HIDE DEF T
      <4> QED
        BY <3>1, SmallestNumber
    <3>3. k \in (first + 1)..Len(text) /\ (k = Len(text) \/ text[k + 1] \notin Digit)
      OBVIOUS
    <3>4. ASSUME NEW j \in (first + 1)..k PROVE text[j] \in Digit
      <4>1. CASE j = first + 1
        BY <2>2, <4>1
      <4>2. CASE j # first + 1
        <5>1. j - 1 \in (first + 1)..Len(text) /\ ~(k <= j - 1) /\ j - 1 # Len(text) /\ j - 1 + 1 = j
          BY <1>2, <2>2, <3>3, <4>2
        <5>2. j - 1 \notin T
          BY <3>2, <5>1
        <5> QED
          BY <5>1, <5>2
      <4> QED
        BY <4>1, <4>2
    <3>5. k < Len(text) => text[k + 1] \notin Digit
      BY <1>2, <3>3
    <3> HIDE DEF T
    <3> QED
      BY <3>3, <3>4, <3>5
  <2>4. last \in (first + 1)..Len(text) /\ Ends(last)
    <3> HIDE DEF Ends
    <3> QED
      BY <2>3
  <2> HIDE DEF last
  <2>5. ExtractComName(text) = SubSeq(text, first + 1, last)
    BY <1>1, <1>5 DEF first, last
  <2>6. Len(SubSeq(text, first + 1, last)) = last - (first + 1) + 1
    <3>1. \A i \in (first + 1)..last : text[i] \in S
      BY <1>2, <2>2, <2>4
    <3>2. first + 1 \in Int /\ last \in Int /\ first + 1 <= last
      BY <1>2, <2>2, <2>4
    <3> QED
      BY <3>1, <3>2, SubSeqProperties
  <2>7. ExtractComName(text) # <<>>
    <3>1. Len(SubSeq(text, first + 1, last)) # 0
      BY <1>2, <2>2, <2>4, <2>6
    <3>2. Len(<<>>) = 0
      OBVIOUS
    <3> QED
      BY <2>5, <3>1, <3>2
  <2>8. last \in 1..Len(text) /\ (last = Len(text) \/ text[last + 1] \notin Digit)
    BY <1>2, <2>2, <2>4
  <2> QED
    BY <1>5, <2>1, <2>4, <2>5, <2>7, <2>8 DEF at
<1> QED
  BY <1>4, <1>5

\* On Windows, for any texts, an entry is listed when its text names a COM port, in the
\* order of the entries and under that name (enumeratePorts() in PortEnumerator.cpp).
LEMMA WindowsRight ==
    ASSUME ProperDevices("windows", devices), ports = AvailablePorts("windows", devices)
    PROVE  WindowsListRight /\ DOMAIN ports \in SUBSET Nat /\ Len(ports) \in Nat
<1> DEFINE n == Len(devices)
           text(d) == IF d.friendly # <<>> THEN d.friendly ELSE d.devDesc
           com(d) == ExtractComName(text(d))
           infos == [i \in DOMAIN devices |-> WindowsInfo(devices[i], com(devices[i]))]
           S == {WindowsInfo(devices[i], com(devices[i])) : i \in 1..n}
           shown == {i \in DOMAIN devices : ComNames(text(devices[i])) # {}}
<1>1. /\ n \in Nat /\ DOMAIN devices = 1..n
      /\ \A i \in 1..n : text(devices[i]) \in Seq(Nat)
  <2>1. devices \in Seq(ComPorts)
    BY DEF ProperDevices
  <2>2. n \in Nat /\ DOMAIN devices = 1..n /\ \A i \in 1..n : devices[i] \in ComPorts
    BY <2>1, LenProperties, ElementOfSeq
  <2>3. \A d \in ComPorts : d.friendly \in Seq(Nat) /\ d.devDesc \in Seq(Nat)
    BY DEF ComPorts
  <2> QED
    BY <2>2, <2>3
<1>2. infos \in Seq(S) /\ Len(infos) = n /\ shown \in SUBSET (1..n)
  <2>1. infos \in [1..n -> S]
    BY <1>1
  <2>2. shown \in SUBSET (1..n)
    BY <1>1
  <2> HIDE DEF infos, S, n, shown
  <2> QED
    BY <1>1, <2>1, <2>2, FunctionIsSequence
<1>3. \A i \in 1..n : infos[i].portName.unit = com(devices[i])
  BY <1>1 DEF WindowsInfo, PortInfo
<1>4. shown = {i \in DOMAIN devices : com(devices[i]) # <<>>}
  BY <1>1, ComNameRight
<1>5. ports = Picked(infos, shown)
  BY <1>4 DEF AvailablePorts, EnumerateWindows, OrElse
<1>6. \A i \in shown :
        \E a \in ComNames(text(devices[i])), m \in 1..Len(text(devices[i])) :
          /\ \A j \in ComNames(text(devices[i])) : a <= j
          /\ com(devices[i]) = SubSeq(text(devices[i]), a + 1, m)
          /\ \A j \in (a + 1)..m : text(devices[i])[j] \in Digit
          /\ m = Len(text(devices[i])) \/ text(devices[i])[m + 1] \notin Digit
  BY <1>1, ComNameRight, ZenonT(25)
<1> HIDE DEF infos, S, com, text
<1>7. ports \in Seq(S) /\ ListOf(ports, infos, shown)
  BY <1>2, <1>5, PickedRight
<1>8. DOMAIN ports = 1..Len(ports)
  BY <1>7, LenProperties
<1>9. \A i \in shown : /\ CountUpTo(shown, i) \in DOMAIN ports
                       /\ ports[CountUpTo(shown, i)].portName.unit = com(devices[i])
  BY <1>2, <1>3, <1>7, <1>8 DEF ListOf
<1>10. Len(ports) = Cardinality(shown)
  BY <1>7 DEF ListOf
<1>11. ASSUME NEW i \in shown
       PROVE  \E k \in DOMAIN ports :
                /\ k = CountUpTo(shown, i)
                /\ \E a \in ComNames(text(devices[i])), m \in 1..Len(text(devices[i])) :
                     /\ \A j \in ComNames(text(devices[i])) : a <= j
                     /\ ports[k].portName.unit = SubSeq(text(devices[i]), a + 1, m)
                     /\ \A j \in (a + 1)..m : text(devices[i])[j] \in Digit
                     /\ m = Len(text(devices[i])) \/ text(devices[i])[m + 1] \notin Digit
  BY <1>6, <1>9
<1>12. WindowsListRight
  BY <1>10, <1>11 DEF WindowsListRight, CountUpTo, UpTo, shown, text
<1>13. DOMAIN ports \in SUBSET Nat /\ Len(ports) \in Nat
  <2>1. Len(ports) \in Nat
    BY <1>7, LenProperties
  <2> QED
    BY <1>8, <2>1
<1> QED
  BY <1>12, <1>13

\* On Android no serial number is in the list without the permission (CpsUsbSerial.java).
LEMMA AndroidRight ==
    ASSUME ProperDevices("android", devices), ports = AvailablePorts("android", devices)
    PROVE  AndroidListRight /\ DOMAIN ports \in SUBSET Nat /\ Len(ports) \in Nat
<1>1. devices \in Seq(Drivers)
  BY DEF ProperDevices
<1>2. Len(devices) \in Nat /\ DOMAIN devices = 1..Len(devices)
  BY <1>1, LenProperties
<1>3. ports = EnumerateAndroid(devices)
  BY DEF AvailablePorts
<1>4. DOMAIN ports = 1..Len(devices)
  BY <1>2, <1>3 DEF EnumerateAndroid
<1>5. Len(ports) = Len(devices)
  BY <1>2, <1>4
<1>6. \A i \in DOMAIN devices : ports[i].serialNumber = SafeSerial(devices[i])
  BY <1>3 DEF EnumerateAndroid, PortInfo
<1> QED
  BY <1>2, <1>4, <1>5, <1>6 DEF AndroidListRight, SafeSerial
===============================================================================
