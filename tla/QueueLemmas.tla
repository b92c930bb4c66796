---------------------------- MODULE QueueLemmas ----------------------------
(***************************************************************************)
(* Facts about linked lists (linkedlist.cpp): what RemoveFirst and         *)
(* InsertAt do to a sequence without duplicates; and for the networks what *)
(* is left of a queue and in which order when a test picks some of its     *)
(* messages (Among), and when one queue is a part of another.              *)
(***************************************************************************)
EXTENDS TTLists, Integers, Sequences, SequencesExt, WellFoundedInduction,
        SequenceTheorems, TLAPS

NoDuplicates(q) == \A i, j \in 1 .. Len(q) : q[i] = q[j] => i = j

LEMMA MinInSet ==
  ASSUME NEW T \in SUBSET Nat, T # {}
  PROVE  Min(T) \in T /\ \A y \in T : Min(T) <= y
<1>1. PICK x \in T : \A y \in T : ~ (<<y, x>> \in OpToRel(<, Nat))
  BY WFMin, NatLessThanWellFounded, Zenon
<1>2. \A y \in T : x <= y
  <2> TAKE y \in T
  <2>1. ~ (y < x)
    BY <1>1 DEF OpToRel
  <2> QED BY <2>1
<1> QED
  BY <1>2 DEF Min

LEMMA MaxInSet ==
  ASSUME NEW m \in Nat, NEW T \in SUBSET (0 .. m), T # {}
  PROVE  Max(T) \in T /\ \A y \in T : y <= Max(T)
<1> DEFINE D == {d \in Nat : \E x \in T : d = m - x}
<1>1. D \in SUBSET Nat /\ D # {}
  <2>1. PICK x \in T : TRUE
    OBVIOUS
  <2>2. m - x \in D
    BY <2>1
  <2> QED BY <2>2
<1>2. PICK d \in D : \A y \in D : d <= y
  <2> HIDE DEF D
  <2> QED BY <1>1, MinInSet
<1>3. PICK x \in T : d = m - x
  OBVIOUS
<1>4. \A y \in T : y <= x
  <2> TAKE y \in T
  <2>1. m - y \in D
    OBVIOUS
  <2>2. m - x <= m - y
    BY <1>2, <1>3, <2>1
  <2> QED BY <2>2
<1> QED
  BY <1>4 DEF Max

LEMMA RemoveAtFacts ==
  ASSUME NEW S, NEW q \in Seq(S), NEW k \in 1 .. Len(q)
  PROVE  /\ RemoveAt(q, k) \in Seq(S)
         /\ Len(RemoveAt(q, k)) = Len(q) - 1
         /\ \A i \in 1 .. Len(q) - 1 :
              RemoveAt(q, k)[i] = IF i < k THEN q[i] ELSE q[i + 1]
<1> DEFINE a == SubSeq(q, 1, k - 1)
           b == SubSeq(q, k + 1, Len(q))
<1>1. /\ a \in Seq(S) /\ Len(a) = k - 1
      /\ \A i \in 1 .. k - 1 : a[i] = q[i]
  BY SubSeqProperties, ElementOfSeq, LenProperties
<1>2. /\ b \in Seq(S) /\ Len(b) = Len(q) - k
      /\ \A i \in 1 .. Len(q) - k : b[i] = q[k + i]
  BY SubSeqProperties, ElementOfSeq, LenProperties
<1> HIDE DEF a, b
<1>3. /\ a \o b \in Seq(S)
      /\ Len(a \o b) = Len(a) + Len(b)
      /\ \A i \in 1 .. Len(a) + Len(b) :
           (a \o b)[i] = IF i <= Len(a) THEN a[i] ELSE b[i - Len(a)]
  BY <1>1, <1>2, ConcatProperties
<1>4. RemoveAt(q, k) = a \o b
  BY DEF RemoveAt, a, b
<1>5. Len(q) \in Nat
  BY LenProperties
<1>6. /\ RemoveAt(q, k) \in Seq(S)
      /\ Len(RemoveAt(q, k)) = Len(q) - 1
  BY <1>1, <1>2, <1>3, <1>4, <1>5
<1>7. ASSUME NEW i \in 1 .. Len(q) - 1
      PROVE  RemoveAt(q, k)[i] = IF i < k THEN q[i] ELSE q[i + 1]
  <2>1. RemoveAt(q, k)[i] = IF i <= k - 1 THEN a[i] ELSE b[i - (k - 1)]
    BY <1>1, <1>2, <1>3, <1>4, <1>5
  <2>2. CASE i <= k - 1
    BY <2>1, <2>2, <1>1
  <2>3. CASE i > k - 1
    <3>1. i - (k - 1) \in 1 .. Len(q) - k
      BY <2>3, <1>5
    <3>2. b[i - (k - 1)] = q[i + 1]
      BY <3>1, <1>2
    <3> QED BY <3>2, <2>3, <2>1
  <2> QED BY <2>2, <2>3
<1> QED
  BY <1>6, <1>7

LEMMA InsertAtFacts ==
  ASSUME NEW S, NEW q \in Seq(S), NEW n \in S, NEW k \in 1 .. Len(q) + 1
  PROVE  /\ InsertAt(q, k, n) \in Seq(S)
         /\ Len(InsertAt(q, k, n)) = Len(q) + 1
         /\ \A i \in 1 .. Len(q) + 1 : InsertAt(q, k, n)[i] =
              IF i < k THEN q[i] ELSE IF i = k THEN n ELSE q[i - 1]
<1> DEFINE a == SubSeq(q, 1, k - 1)
           b == SubSeq(q, k, Len(q))
<1>1. /\ a \in Seq(S) /\ Len(a) = k - 1
      /\ \A i \in 1 .. k - 1 : a[i] = q[i]
  BY SubSeqProperties, ElementOfSeq, LenProperties
<1>2. /\ b \in Seq(S) /\ Len(b) = Len(q) - k + 1
      /\ \A i \in 1 .. Len(q) - k + 1 : b[i] = q[k + i - 1]
  BY SubSeqProperties, ElementOfSeq, LenProperties
<1> HIDE DEF a, b
<1> DEFINE an == a \o <<n>>
<1>3. /\ an \in Seq(S)
      /\ Len(an) = k
      /\ \A i \in 1 .. k : an[i] = IF i < k THEN q[i] ELSE n
  BY <1>1, ConcatProperties, LenProperties
<1> HIDE DEF an
<1>4. /\ an \o b \in Seq(S)
      /\ Len(an \o b) = Len(an) + Len(b)
      /\ \A i \in 1 .. Len(an) + Len(b) :
           (an \o b)[i] = IF i <= Len(an) THEN an[i] ELSE b[i - Len(an)]
  BY <1>2, <1>3, ConcatProperties
<1>5. InsertAt(q, k, n) = an \o b
  BY DEF InsertAt, a, b, an
<1> QED
  BY <1>2, <1>3, <1>4, <1>5, LenProperties

\* RemoveFirst takes the one occurrence of n out and nothing else.
LEMMA RemoveFirstFacts ==
  ASSUME NEW S, NEW q \in Seq(S), NEW n, NoDuplicates(q)
  PROVE  /\ RemoveFirst(q, n) \in Seq(S)
         /\ NoDuplicates(RemoveFirst(q, n))
         /\ ToSet(RemoveFirst(q, n)) = ToSet(q) \ {n}
<1>1. CASE ~ \E i \in 1 .. Len(q) : q[i] = n
  <2>1. RemoveFirst(q, n) = q
    BY <1>1 DEF RemoveFirst
  <2>2. n \notin ToSet(q)
    BY <1>1, LenProperties DEF ToSet
  <2> QED BY <2>1, <2>2
<1>2. CASE \E i \in 1 .. Len(q) : q[i] = n
  <2> DEFINE I == {i \in 1 .. Len(q) : q[i] = n}
             k == Min(I)
  <2>1. I \in SUBSET Nat /\ I # {}
    BY <1>2
  <2>2. k \in I
    <3> HIDE DEF I
    <3> QED BY <2>1, MinInSet
  <2>3. k \in 1 .. Len(q) /\ q[k] = n
    BY <2>2
  <2>4. RemoveFirst(q, n) = RemoveAt(q, k)
    BY <1>2 DEF RemoveFirst, SelectInSeq
  <2> HIDE DEF k, I
  <2> DEFINE r == RemoveAt(q, k)
  <2>5. /\ r \in Seq(S) /\ Len(r) = Len(q) - 1
        /\ \A i \in 1 .. Len(q) - 1 : r[i] = IF i < k THEN q[i] ELSE q[i + 1]
    BY <2>3, RemoveAtFacts
  <2> HIDE DEF r
  <2>6. DOMAIN r = 1 .. Len(q) - 1 /\ DOMAIN q = 1 .. Len(q) /\ Len(q) \in Nat
    BY <2>5, LenProperties
  <2>7. NoDuplicates(r)
    <3> SUFFICES ASSUME NEW i \in 1 .. Len(q) - 1, NEW j \in 1 .. Len(q) - 1, r[i] = r[j]
                 PROVE  i = j
      BY <2>5 DEF NoDuplicates
    <3> DEFINE up(x) == IF x < k THEN x ELSE x + 1
    <3>1. up(i) \in 1 .. Len(q) /\ up(j) \in 1 .. Len(q) /\ q[up(i)] = q[up(j)]
      BY <2>3, <2>5, <2>6
    <3>2. up(i) = up(j)
      BY <3>1 DEF NoDuplicates
    <3> QED BY <3>2, <2>3, <2>6
  <2>8. ASSUME NEW x \in ToSet(r) PROVE x \in ToSet(q) \ {n}
    <3>1. PICK i \in 1 .. Len(q) - 1 : x = r[i]
      BY <2>6 DEF ToSet
    <3>2. PICK j \in 1 .. Len(q) : x = q[j] /\ j # k
      BY <3>1, <2>5, <2>6, <2>3
    <3>3. x # n
      BY <3>2, <2>3 DEF NoDuplicates
    <3> QED BY <3>2, <3>3, <2>6 DEF ToSet
  <2>9. ASSUME NEW x \in ToSet(q) \ {n} PROVE x \in ToSet(r)
    <3>1. PICK j \in 1 .. Len(q) : x = q[j] /\ j # k
      BY <2>6, <2>3 DEF ToSet
    <3>2. PICK i \in 1 .. Len(q) - 1 : x = r[i]
      <4>1. CASE j < k
        <5>1. j \in 1 .. Len(q) - 1 /\ r[j] = q[j]
          BY <4>1, <2>3, <2>5, <2>6
        <5> QED BY <5>1, <3>1
      <4>2. CASE j > k
        <5>1. j - 1 \in 1 .. Len(q) - 1 /\ r[j - 1] = q[j]
          BY <4>2, <2>3, <2>5, <2>6
        <5> QED BY <5>1, <3>1
      <4> QED BY <4>1, <4>2, <3>1, <2>3
    <3> QED BY <3>2, <2>6 DEF ToSet
  <2> QED BY <2>4, <2>5, <2>7, <2>8, <2>9 DEF r
<1> QED BY <1>1, <1>2

\* Inserting an element that is not there yet adds it and keeps all others.
LEMMA InsertAtSet ==
  ASSUME NEW S, NEW q \in Seq(S), NEW n \in S, NEW k \in 1 .. Len(q) + 1,
         NoDuplicates(q), n \notin ToSet(q)
  PROVE  /\ InsertAt(q, k, n) \in Seq(S)
         /\ NoDuplicates(InsertAt(q, k, n))
         /\ ToSet(InsertAt(q, k, n)) = ToSet(q) \cup {n}
<1> DEFINE r == InsertAt(q, k, n)
<1>1. /\ r \in Seq(S) /\ Len(r) = Len(q) + 1
      /\ \A i \in 1 .. Len(q) + 1 : r[i] = IF i < k THEN q[i] ELSE IF i = k THEN n ELSE q[i - 1]
  BY InsertAtFacts
<1> HIDE DEF r
<1>2. DOMAIN r = 1 .. Len(q) + 1 /\ DOMAIN q = 1 .. Len(q) /\ Len(q) \in Nat
  BY <1>1, LenProperties
<1>3. \A i \in 1 .. Len(q) : q[i] # n
  BY <1>2 DEF ToSet
<1>4. NoDuplicates(r)
  <2> SUFFICES ASSUME NEW i \in 1 .. Len(q) + 1, NEW j \in 1 .. Len(q) + 1, r[i] = r[j]
               PROVE  i = j
    BY <1>1 DEF NoDuplicates
  <2> DEFINE down(x) == IF x < k THEN x ELSE x - 1
  <2>1. CASE i = k \/ j = k
    <3>1. r[k] = n
      BY <1>1
    <3>2. \A x \in 1 .. Len(q) + 1 : x # k => r[x] # n
      <4> TAKE x \in 1 .. Len(q) + 1
      <4> HAVE x # k
      <4>1. down(x) \in 1 .. Len(q) /\ r[x] = q[down(x)]
        BY <1>1, <1>2
      <4> QED BY <4>1, <1>3
    <3> QED BY <2>1, <3>1, <3>2
  <2>2. CASE i # k /\ j # k
    <3>1. down(i) \in 1 .. Len(q) /\ down(j) \in 1 .. Len(q) /\ q[down(i)] = q[down(j)]
      BY <2>2, <1>1, <1>2
    <3>2. down(i) = down(j)
      BY <3>1 DEF NoDuplicates
    <3> QED BY <3>2, <2>2, <1>2
  <2> QED BY <2>1, <2>2
<1>5. ASSUME NEW x \in ToSet(r) PROVE x \in ToSet(q) \cup {n}
  <2>1. PICK i \in 1 .. Len(q) + 1 : x = r[i]
    BY <1>2 DEF ToSet
  <2>2. i # k => \E j \in 1 .. Len(q) : x = q[j]
    <3> HAVE i # k
    <3>1. CASE i < k
      BY <3>1, <2>1, <1>1, <1>2
    <3>2. CASE i > k
      <4>1. i - 1 \in 1 .. Len(q) /\ x = q[i - 1]
        BY <3>2, <2>1, <1>1, <1>2
      <4> QED BY <4>1
    <3> QED BY <3>1, <3>2
  <2> QED BY <2>1, <2>2, <1>1, <1>2 DEF ToSet
<1>6. n \in ToSet(r)
  BY <1>1, <1>2 DEF ToSet
<1>7. ASSUME NEW x \in ToSet(q) PROVE x \in ToSet(r)
  <2>1. PICK j \in 1 .. Len(q) : x = q[j]
    BY <1>2 DEF ToSet
  <2>2. CASE j < k
    <3>1. j \in 1 .. Len(q) + 1 /\ r[j] = q[j]
      BY <2>2, <1>1, <1>2
    <3> QED BY <3>1, <2>1, <1>2 DEF ToSet
  <2>3. CASE j >= k
    <3>1. j + 1 \in 1 .. Len(q) + 1 /\ r[j + 1] = q[j]
      BY <2>3, <1>1, <1>2
    <3> QED BY <3>1, <2>1, <1>2 DEF ToSet
  <2> QED BY <2>2, <2>3, <1>2
<1> QED BY <1>1, <1>4, <1>5, <1>6, <1>7 DEF r

\* The position List::insertSorted picks, behind the last of the nodes Stays.
LEMMA InsertPosition ==
  ASSUME NEW S, NEW q \in Seq(S), NEW Stays \in SUBSET (1 .. Len(q))
  PROVE  1 + Max({0} \cup Stays) \in 1 .. Len(q) + 1
<1>1. Len(q) \in Nat
  BY LenProperties
<1>2. Max({0} \cup Stays) \in 0 .. Len(q)
  <2> DEFINE T == {0} \cup Stays
  <2>1. T \in SUBSET (0 .. Len(q)) /\ T # {}
    BY <1>1
  <2> HIDE DEF T
  <2>2. Max(T) \in T
    BY <2>1, <1>1, MaxInSet
  <2> QED BY <2>1, <2>2 DEF T
<1> QED BY <1>1, <1>2

-----------------------------------------------------------------------------
(***************************************************************************)
(* Queues in the order that a relation R gives their entries: no entry     *)
(* goes ahead of one before it.                                            *)
(***************************************************************************)
OrderedBy(R, q) ==
  \A i, j \in 1 .. Len(q) : i < j => <<q[j], q[i]>> \notin R

\* in order but for the place of n
OrderedByBut(R, q, n) ==
  \A i, j \in 1 .. Len(q) : i < j /\ q[i] # n /\ q[j] # n => <<q[j], q[i]>> \notin R

\* R says which entries of S go ahead of which; the others are equal.
StrictWeakOrder(R, S) ==
  /\ \A a, b \in S : <<a, b>> \in R => <<b, a>> \notin R
  /\ \A a, b, c \in S : <<a, b>> \notin R /\ <<b, c>> \notin R => <<a, c>> \notin R

\* Node::remove keeps the order of the others.
LEMMA RemoveFirstOrdered ==
  ASSUME NEW S, NEW R, NEW q \in Seq(S), NEW n, NoDuplicates(q), OrderedByBut(R, q, n)
  PROVE  OrderedBy(R, RemoveFirst(q, n))
<1>1. CASE ~ \E i \in 1 .. Len(q) : q[i] = n
  <2>1. RemoveFirst(q, n) = q
    BY <1>1 DEF RemoveFirst
  <2> QED BY <1>1, <2>1 DEF OrderedBy, OrderedByBut
<1>2. CASE \E i \in 1 .. Len(q) : q[i] = n
  <2> DEFINE I == {i \in 1 .. Len(q) : q[i] = n}
             k == Min(I)
  <2>1. I \in SUBSET Nat /\ I # {}
    BY <1>2
  <2>2. k \in I
    <3> HIDE DEF I
    <3> QED BY <2>1, MinInSet
  <2>3. k \in 1 .. Len(q) /\ q[k] = n
    BY <2>2
  <2>4. RemoveFirst(q, n) = RemoveAt(q, k)
    BY <1>2 DEF RemoveFirst, SelectInSeq
  <2> HIDE DEF k, I
  <2> DEFINE r == RemoveAt(q, k)
  <2>5. /\ Len(r) = Len(q) - 1
        /\ \A i \in 1 .. Len(q) - 1 : r[i] = IF i < k THEN q[i] ELSE q[i + 1]
    BY <2>3, RemoveAtFacts
  <2> HIDE DEF r
  <2>6. Len(q) \in Nat
    BY LenProperties
  <2>7. ASSUME NEW i \in 1 .. Len(q) - 1, NEW j \in 1 .. Len(q) - 1, i < j
        PROVE  <<r[j], r[i]>> \notin R
    <3> DEFINE up(x) == IF x < k THEN x ELSE x + 1
    <3>1. /\ up(i) \in 1 .. Len(q) /\ up(j) \in 1 .. Len(q) /\ up(i) < up(j)
          /\ up(i) # k /\ up(j) # k /\ r[i] = q[up(i)] /\ r[j] = q[up(j)]
      BY <2>3, <2>5, <2>6, <2>7
    <3> HIDE DEF up
    <3>2. q[up(i)] # n /\ q[up(j)] # n
      BY <3>1, <2>3 DEF NoDuplicates
    <3> QED BY <3>1, <3>2 DEF OrderedByBut
  <2> QED BY <2>4, <2>5, <2>7 DEF OrderedBy, r
<1> QED BY <1>1, <1>2

\* List::insertSorted puts n behind the last entry it does not go ahead of.
PlaceOf(R, q, n) == 1 + Max({0} \cup {i \in 1 .. Len(q) : <<n, q[i]>> \notin R})

\* n goes ahead of none before its place, and none from there on ahead of n.
LEMMA PlaceOfFacts ==
  ASSUME NEW S, NEW R, StrictWeakOrder(R, S), NEW q \in Seq(S), NEW n \in S,
         OrderedBy(R, q), NEW k, k = PlaceOf(R, q, n)
  PROVE  /\ k \in 1 .. Len(q) + 1
         /\ \A i \in 1 .. Len(q) : IF i < k THEN <<n, q[i]>> \notin R ELSE <<q[i], n>> \notin R
<1> DEFINE Stays == {i \in 1 .. Len(q) : <<n, q[i]>> \notin R}
<1>1. Len(q) \in Nat /\ \A i \in 1 .. Len(q) : q[i] \in S
  BY LenProperties, ElementOfSeq
<1>2. k \in 1 .. Len(q) + 1
  <2>1. Stays \in SUBSET (1 .. Len(q)) /\ k = 1 + Max({0} \cup Stays)
    BY DEF PlaceOf
  <2> HIDE DEF Stays
  <2> QED BY <2>1, InsertPosition
<1> DEFINE T == {0} \cup Stays
           m == Max(T)
<1>3. m \in T /\ \A i \in T : i <= m
  <2>1. T \in SUBSET (0 .. Len(q)) /\ T # {}
    BY <1>1
  <2> HIDE DEF T
  <2> QED BY <2>1, <1>1, MaxInSet
<1>4. k = 1 + m
  BY DEF PlaceOf
<1>5. m \in 0 .. Len(q)
  <2>1. T \subseteq 0 .. Len(q)
    BY <1>1
  <2> HIDE DEF T, m
  <2> QED BY <2>1, <1>3
<1> HIDE DEF m
<1>6. ASSUME NEW i \in 1 .. Len(q), i < k
      PROVE  <<n, q[i]>> \notin R
  <2>1. m \in 1 .. Len(q) /\ m \in Stays
    BY <1>1, <1>3, <1>4, <1>5, <1>6
  <2>2. <<n, q[m]>> \notin R
    BY <2>1
  <2>3. CASE i = m
    BY <2>2, <2>3
  <2>4. CASE i # m
    <3>1. i < m
      BY <1>4, <1>5, <1>6, <2>4
    <3>2. <<q[m], q[i]>> \notin R
      BY <2>1, <3>1 DEF OrderedBy
    <3>3. q[i] \in S /\ q[m] \in S
      BY <1>1, <2>1
    <3> QED BY <3>2, <3>3, <2>2 DEF StrictWeakOrder
  <2> QED BY <2>3, <2>4
<1>7. ASSUME NEW i \in 1 .. Len(q), ~ (i < k)
      PROVE  <<q[i], n>> \notin R
  <2>1. ~ (i <= m)
    BY <1>4, <1>5, <1>7
  <2>2. i \notin Stays
    BY <2>1, <1>3
  <2>3. q[i] \in S
    BY <1>1
  <2> QED BY <2>2, <2>3 DEF StrictWeakOrder
<1> QED BY <1>2, <1>6, <1>7

LEMMA InsertOrdered ==
  ASSUME NEW S, NEW R, StrictWeakOrder(R, S), NEW q \in Seq(S), NEW n \in S,
         OrderedBy(R, q)
  PROVE  OrderedBy(R, InsertAt(q, PlaceOf(R, q, n), n))
<1> DEFINE k == PlaceOf(R, q, n)
<1>1. /\ k \in 1 .. Len(q) + 1
      /\ \A i \in 1 .. Len(q) : IF i < k THEN <<n, q[i]>> \notin R ELSE <<q[i], n>> \notin R
  BY PlaceOfFacts
<1> HIDE DEF k
<1>2. Len(q) \in Nat
  BY LenProperties
<1> DEFINE r == InsertAt(q, k, n)
<1>3. /\ Len(r) = Len(q) + 1
      /\ \A i \in 1 .. Len(q) + 1 : r[i] = IF i < k THEN q[i] ELSE IF i = k THEN n ELSE q[i - 1]
  BY <1>1, InsertAtFacts
<1> HIDE DEF r
<1>4. ASSUME NEW i \in 1 .. Len(q) + 1, NEW j \in 1 .. Len(q) + 1, i < j
      PROVE  <<r[j], r[i]>> \notin R
  <2>1. CASE j < k
    <3>1. i \in 1 .. Len(q) /\ j \in 1 .. Len(q) /\ r[i] = q[i] /\ r[j] = q[j]
      BY <1>1, <1>2, <1>3, <1>4, <2>1
    <3> QED BY <3>1, <1>4 DEF OrderedBy
  <2>2. CASE j = k
    <3>1. i \in 1 .. Len(q) /\ i < k /\ r[i] = q[i] /\ r[j] = n
      BY <1>1, <1>2, <1>3, <1>4, <2>2
    <3> QED BY <3>1, <1>1
  <2>3. CASE j > k /\ i = k
    <3>1. j - 1 \in 1 .. Len(q) /\ ~ (j - 1 < k) /\ r[i] = n /\ r[j] = q[j - 1]
      BY <1>1, <1>2, <1>3, <1>4, <2>3
    <3> QED BY <3>1, <1>1
  <2>4. CASE j > k /\ i < k
    <3>1. i \in 1 .. Len(q) /\ j - 1 \in 1 .. Len(q) /\ i < j - 1
      BY <1>1, <1>2, <1>4, <2>4
    <3>2. r[i] = q[i] /\ r[j] = q[j - 1]
      BY <1>1, <1>2, <1>3, <2>4
    <3> QED BY <3>1, <3>2 DEF OrderedBy
  <2>5. CASE j > k /\ i > k
    <3>1. i - 1 \in 1 .. Len(q) /\ j - 1 \in 1 .. Len(q) /\ i - 1 < j - 1
      BY <1>1, <1>2, <1>4, <2>5
    <3>2. r[i] = q[i - 1] /\ r[j] = q[j - 1]
      BY <1>1, <1>2, <1>3, <2>5
    <3> QED BY <3>1, <3>2 DEF OrderedBy
  <2> QED BY <1>1, <1>2, <1>4, <2>1, <2>2, <2>3, <2>4, <2>5
<1> QED BY <1>3, <1>4 DEF OrderedBy, r, k

-----------------------------------------------------------------------------
(***************************************************************************)
(* Queues in the order of the keys of their entries.                       *)
(***************************************************************************)
InOrder(W, q) ==
  \A i, j \in 1 .. Len(q) : i < j => W[q[i]] <= W[q[j]]

\* in order but for the place of n
InOrderBut(W, q, n) ==
  \A i, j \in 1 .. Len(q) : i < j /\ q[i] # n /\ q[j] # n => W[q[i]] <= W[q[j]]

\* Entries with smaller keys go ahead.
Lighter(W, S) == {p \in S \X S : ~ (W[p[2]] <= W[p[1]])}

LEMMA LighterFacts ==
  ASSUME NEW S, NEW W
  PROVE  \A a, b \in S : <<a, b>> \notin Lighter(W, S) <=> W[b] <= W[a]
  BY DEF Lighter

LEMMA InOrderIsOrderedBy ==
  ASSUME NEW S, NEW W, NEW q \in Seq(S)
  PROVE  /\ InOrder(W, q) <=> OrderedBy(Lighter(W, S), q)
         /\ \A n : InOrderBut(W, q, n) <=> OrderedByBut(Lighter(W, S), q, n)
<1>1. \A i \in 1 .. Len(q) : q[i] \in S
  BY LenProperties, ElementOfSeq
<1>2. \A i, j \in 1 .. Len(q) : <<q[j], q[i]>> \notin Lighter(W, S) <=> W[q[i]] <= W[q[j]]
  BY <1>1, LighterFacts
<1> QED BY <1>2 DEF InOrder, InOrderBut, OrderedBy, OrderedByBut

LEMMA KeysOrder ==
  ASSUME NEW S, NEW W \in [S -> Int]
  PROVE  StrictWeakOrder(Lighter(W, S), S)
<1>1. \A a \in S : W[a] \in Int
  OBVIOUS
<1>2. ASSUME NEW a \in S, NEW b \in S
      PROVE  <<a, b>> \in Lighter(W, S) <=> W[a] < W[b]
  <2>1. <<a, b>> \notin Lighter(W, S) <=> W[b] <= W[a]
    BY LighterFacts
  <2>2. W[a] \in Int /\ W[b] \in Int
    BY <1>1
  <2> QED BY <2>1, <2>2
<1> QED BY <1>1, <1>2 DEF StrictWeakOrder

LEMMA RemoveFirstInOrder ==
  ASSUME NEW S, NEW W, NEW q \in Seq(S), NEW n, NoDuplicates(q), InOrderBut(W, q, n)
  PROVE  InOrder(W, RemoveFirst(q, n))
<1>1. OrderedBy(Lighter(W, S), RemoveFirst(q, n))
  BY InOrderIsOrderedBy, RemoveFirstOrdered
<1>2. RemoveFirst(q, n) \in Seq(S)
  BY RemoveFirstFacts
<1> QED BY <1>1, <1>2, InOrderIsOrderedBy

\* List::insertSorted by the key W
LEMMA InsertInOrder ==
  ASSUME NEW S, NEW W \in [S -> Int], NEW q \in Seq(S), NEW n \in S, InOrder(W, q),
         NEW k, k = 1 + Max({0} \cup {i \in 1 .. Len(q) : ~ (W[n] < W[q[i]])})
  PROVE  InOrder(W, InsertAt(q, k, n))
<1> DEFINE R == Lighter(W, S)
           Stays == {i \in 1 .. Len(q) : ~ (W[n] < W[q[i]])}
<1>1. StrictWeakOrder(R, S) /\ OrderedBy(R, q)
  BY KeysOrder, InOrderIsOrderedBy
<1>2. ASSUME NEW i \in 1 .. Len(q)
      PROVE  ~ (W[n] < W[q[i]]) <=> <<n, q[i]>> \notin R
  <2>1. q[i] \in S
    BY LenProperties, ElementOfSeq
  <2>2. W[n] \in Int /\ W[q[i]] \in Int
    BY <2>1
  <2>3. <<n, q[i]>> \notin R <=> W[q[i]] <= W[n]
    BY <2>1, LighterFacts
  <2> QED BY <2>2, <2>3
<1>3. Stays = {i \in 1 .. Len(q) : <<n, q[i]>> \notin R}
  <2> HIDE DEF R
  <2> QED BY <1>2
<1>4. k = PlaceOf(R, q, n)
  <2>1. k = 1 + Max({0} \cup Stays)
    OBVIOUS
  <2> HIDE DEF Stays, R
  <2> QED BY <2>1, <1>3 DEF PlaceOf
<1>5. k \in 1 .. Len(q) + 1
  <2>1. Stays \in SUBSET (1 .. Len(q)) /\ k = 1 + Max({0} \cup Stays)
    OBVIOUS
  <2> HIDE DEF Stays
  <2> QED BY <2>1, InsertPosition
<1>6. OrderedBy(R, InsertAt(q, k, n))
  <2> HIDE DEF R
  <2> QED BY <1>1, <1>4, InsertOrdered
<1>7. InsertAt(q, k, n) \in Seq(S)
  BY <1>5, InsertAtFacts
<1> QED BY <1>6, <1>7, InOrderIsOrderedBy

-----------------------------------------------------------------------------
(***************************************************************************)
(* Induction.  A set stands for the property.                              *)
(***************************************************************************)
LEMMA AllNumbers ==
  ASSUME NEW Good, 0 \in Good, \A n \in Nat : n \in Good => n + 1 \in Good
  PROVE  Nat \subseteq Good
<1> DEFINE Bad == Nat \ Good
<1>1. SUFFICES ASSUME Bad # {} PROVE FALSE
  OBVIOUS
<1>2. Bad \in SUBSET Nat
  OBVIOUS
<1> HIDE DEF Bad
<1>3. PICK k \in Bad : \A j \in Bad : k <= j
  BY <1>1, <1>2, MinInSet
<1>4. k \in Nat /\ k # 0
  BY <1>3 DEF Bad
<1>5. k - 1 \in Nat /\ ~ (k <= k - 1)
  BY <1>4
<1>6. k - 1 \in Good
  BY <1>3, <1>5 DEF Bad
<1>7. (k - 1) + 1 \in Good
  BY <1>5, <1>6
<1> QED BY <1>3, <1>4, <1>7 DEF Bad

LEMMA AllSequences ==
  ASSUME NEW A, NEW Good, << >> \in Good,
         \A q \in Seq(A), x \in A : q \in Good => Append(q, x) \in Good
  PROVE  Seq(A) \subseteq Good
<1> DEFINE Done == {n \in Nat : \A q \in Seq(A) : Len(q) = n => q \in Good}
<1>1. 0 \in Done
  BY EmptySeq
<1>2. ASSUME NEW n \in Nat, n \in Done PROVE n + 1 \in Done
  <2> SUFFICES ASSUME NEW q \in Seq(A), Len(q) = n + 1 PROVE q \in Good
    OBVIOUS
  <2>1. q # << >>
    OBVIOUS
  <2>2. PICK r \in Seq(A), x \in A : q = Append(r, x)
    BY <2>1, SequenceEmptyOrAppend
  <2>3. Len(r) = n
    BY <2>2, AppendProperties
  <2> QED BY <1>2, <2>2, <2>3
<1> HIDE DEF Done
<1>3. Nat \subseteq Done
  BY <1>1, <1>2, AllNumbers
<1> QED BY <1>3 DEF Done

-----------------------------------------------------------------------------
(***************************************************************************)
(* Among.                                                                  *)
(***************************************************************************)
\* f holds what Among(q, M) has picked out of the first k elements, k <= n.
Picks(q, M, f, n) ==
  f = [k \in 0 .. n |->
         IF k = 0 THEN << >> ELSE IF q[k] \in M THEN Append(f[k - 1], q[k]) ELSE f[k - 1]]

LEMMA PicksExists ==
  ASSUME NEW q, NEW M, NEW n \in Nat
  PROVE  \E f : Picks(q, M, f, n)
<1> DEFINE Done == {k \in Nat : \E f : Picks(q, M, f, k)}
<1>1. 0 \in Done
  <2>1. Picks(q, M, [k \in 0 .. 0 |-> << >>], 0)
    BY DEF Picks
  <2> QED BY <2>1
<1>2. ASSUME NEW k \in Nat, k \in Done PROVE k + 1 \in Done
  <2>1. PICK f : Picks(q, M, f, k)
    BY <1>2
  <2> DEFINE g == [j \in 0 .. k + 1 |->
                     IF j = k + 1 THEN IF q[j] \in M THEN Append(f[k], q[j]) ELSE f[k]
                     ELSE f[j]]
  <2>2. ASSUME NEW j \in 0 .. k + 1
        PROVE  g[j] = IF j = 0 THEN << >>
                      ELSE IF q[j] \in M THEN Append(g[j - 1], q[j]) ELSE g[j - 1]
    <3>1. CASE j = k + 1
      <4>1. j - 1 = k /\ k \in 0 .. k + 1 /\ j # 0 /\ k # k + 1
        BY <3>1
      <4>2. g[j - 1] = f[k]
        BY <4>1
      <4> QED BY <3>1, <4>1, <4>2
    <3>2. CASE j # k + 1
      <4>1. j \in 0 .. k
        BY <3>2
      <4>2. g[j] = f[j]
        BY <3>2
      <4>3. j # 0 => j - 1 \in 0 .. k + 1 /\ j - 1 # k + 1
        BY <4>1
      <4>4. j # 0 => g[j - 1] = f[j - 1]
        BY <4>3
      <4> HIDE DEF g
      <4> QED BY <2>1, <4>1, <4>2, <4>4 DEF Picks
    <3> QED BY <3>1, <3>2
  <2>3. g = [j \in 0 .. k + 1 |-> g[j]]
    OBVIOUS
  <2> HIDE DEF g
  <2>4. Picks(q, M, g, k + 1)
    BY <2>2, <2>3 DEF Picks
  <2> QED BY <2>4
<1> HIDE DEF Done
<1>3. Nat \subseteq Done
  BY <1>1, <1>2, AllNumbers
<1> QED BY <1>3 DEF Done

LEMMA AmongPicks ==
  ASSUME NEW q, NEW M, Len(q) \in Nat
  PROVE  \E f : Picks(q, M, f, Len(q)) /\ Among(q, M) = f[Len(q)]
<1> DEFINE f == CHOOSE g : Picks(q, M, g, Len(q))
<1>1. Picks(q, M, f, Len(q))
  BY PicksExists
<1>2. Among(q, M) = f[Len(q)]
  BY DEF Among, Picks
<1> QED BY <1>1, <1>2

\* What is picked depends on the elements looked at only.
LEMMA PicksAgree ==
  ASSUME NEW q, NEW r, NEW M, NEW m \in Nat, NEW n \in Nat, NEW f, NEW g,
         Picks(q, M, f, m), Picks(r, M, g, n), m <= n, \A k \in 1 .. m : q[k] = r[k]
  PROVE  f[m] = g[m]
<1> DEFINE Done == {k \in Nat : k <= m => f[k] = g[k]}
<1>1. 0 \in Done
  BY DEF Picks
<1>2. ASSUME NEW k \in Nat, k \in Done PROVE k + 1 \in Done
  <2> SUFFICES ASSUME k + 1 <= m PROVE f[k + 1] = g[k + 1]
    OBVIOUS
  <2>1. k + 1 \in 1 .. m /\ k + 1 \in 0 .. m /\ k + 1 \in 0 .. n /\ (k + 1) - 1 = k /\ k <= m /\ k + 1 # 0
    OBVIOUS
  <2>2. f[k] = g[k] /\ q[k + 1] = r[k + 1]
    BY <1>2, <2>1
  <2>3. f[k + 1] = IF q[k + 1] \in M THEN Append(f[k], q[k + 1]) ELSE f[k]
    BY <2>1 DEF Picks
  <2>4. g[k + 1] = IF r[k + 1] \in M THEN Append(g[k], r[k + 1]) ELSE g[k]
    BY <2>1 DEF Picks
  <2> QED BY <2>2, <2>3, <2>4
<1> HIDE DEF Done
<1>3. Nat \subseteq Done
  BY <1>1, <1>2, AllNumbers
<1> QED BY <1>3 DEF Done

LEMMA AmongEmpty ==
  ASSUME NEW M
  PROVE  Among(<< >>, M) = << >>
<1>1. Len(<< >>) = 0
  OBVIOUS
<1>2. PICK f : Picks(<< >>, M, f, 0) /\ Among(<< >>, M) = f[0]
  BY <1>1, AmongPicks
<1> QED BY <1>2 DEF Picks

LEMMA AmongAppend ==
  ASSUME NEW A, NEW q \in Seq(A), NEW x \in A, NEW M
  PROVE  Among(Append(q, x), M) = IF x \in M THEN Append(Among(q, M), x) ELSE Among(q, M)
<1> DEFINE r == Append(q, x)
           n == Len(q)
<1>1. n \in Nat /\ Len(r) = n + 1 /\ r[n + 1] = x /\ \A k \in 1 .. n : r[k] = q[k]
  BY AppendProperties
<1> HIDE DEF r, n
<1>2. PICK f : Picks(q, M, f, n) /\ Among(q, M) = f[n]
  BY <1>1, AmongPicks DEF n
<1>3. PICK g : Picks(r, M, g, n + 1) /\ Among(r, M) = g[n + 1]
  BY <1>1, AmongPicks
<1>4. n + 1 \in Nat /\ n <= n + 1 /\ n + 1 \in 0 .. n + 1 /\ (n + 1) - 1 = n /\ n + 1 # 0
  BY <1>1
<1>5. f[n] = g[n]
  BY <1>1, <1>2, <1>3, <1>4, PicksAgree
<1>6. g[n + 1] = IF r[n + 1] \in M THEN Append(g[n], r[n + 1]) ELSE g[n]
  BY <1>3, <1>4 DEF Picks
<1> QED BY <1>1, <1>2, <1>3, <1>5, <1>6 DEF r

\* Appending after a concatenation.
LEMMA AppendToConcat ==
  ASSUME NEW A, NEW q \in Seq(A), NEW r \in Seq(A), NEW x \in A
  PROVE  q \o Append(r, x) = Append(q \o r, x)
<1>1. Append(r, x) = r \o <<x>> /\ <<x>> \in Seq(A) /\ q \o r \in Seq(A)
  BY AppendIsConcat, ConcatProperties
<1>2. Append(q \o r, x) = (q \o r) \o <<x>>
  BY <1>1, AppendIsConcat
<1> QED BY <1>1, <1>2, ConcatAssociative

LEMMA HeadAndTail ==
  ASSUME NEW A, NEW q \in Seq(A), q # << >>
  PROVE  /\ q = <<Head(q)>> \o Tail(q) /\ Head(q) = q[1]
         /\ Head(q) \in A /\ Tail(q) \in Seq(A) /\ <<Head(q)>> \in Seq(A)
         /\ Len(q) \in Nat \ {0} /\ Len(Tail(q)) = Len(q) - 1
         /\ \A k \in 1 .. Len(q) - 1 : Tail(q)[k] = q[k + 1]
<1>1. /\ Head(q) \in A /\ Tail(q) \in Seq(A) /\ Len(Tail(q)) = Len(q) - 1
      /\ \A k \in 1 .. Len(Tail(q)) : Tail(q)[k] = q[k + 1]
  BY HeadTailProperties
<1>2. Len(q) \in Nat \ {0} /\ Head(q) = q[1] /\ <<Head(q)>> \in Seq(A)
  BY <1>1, EmptySeq
<1> DEFINE r == <<Head(q)>> \o Tail(q)
<1>3. r \in Seq(A) /\ Len(r) = 1 + Len(Tail(q))
      /\ \A k \in 1 .. 1 + Len(Tail(q)) : r[k] = IF k <= 1 THEN <<Head(q)>>[k] ELSE Tail(q)[k - 1]
  BY <1>1, <1>2, ConcatProperties
<1> HIDE DEF r
<1>4. \A k \in 1 .. Len(q) : r[k] = q[k]
  <2> TAKE k \in 1 .. Len(q)
  <2>1. CASE k = 1
    BY <1>1, <1>2, <1>3, <2>1
  <2>2. CASE k # 1
    <3>1. k - 1 \in 1 .. Len(Tail(q)) /\ (k - 1) + 1 = k /\ ~ (k <= 1) /\ k \in 1 .. 1 + Len(Tail(q))
      BY <1>1, <1>2, <2>2
    <3> QED BY <1>1, <1>3, <3>1
  <2> QED BY <2>1, <2>2
<1>5. Len(r) = Len(q)
  BY <1>1, <1>2, <1>3
<1>6. r = q
  BY <1>3, <1>4, <1>5, SeqEqual
<1> QED BY <1>1, <1>2, <1>6 DEF r

-----------------------------------------------------------------------------
LEMMA AmongType ==
  ASSUME NEW A, NEW M, NEW q \in Seq(A)
  PROVE  Among(q, M) \in Seq(A \cap M) /\ Among(q, M) \in Seq(A)
<1> DEFINE Good == {r \in Seq(A) : Among(r, M) \in Seq(A \cap M)}
<1>1. << >> \in Good
  <2>1. << >> \in Seq(A) /\ << >> \in Seq(A \cap M)
    OBVIOUS
  <2> QED BY <2>1, AmongEmpty
<1>2. ASSUME NEW r \in Seq(A), NEW x \in A, r \in Good PROVE Append(r, x) \in Good
  <2>1. Among(Append(r, x), M) = IF x \in M THEN Append(Among(r, M), x) ELSE Among(r, M)
    BY AmongAppend
  <2>2. Append(r, x) \in Seq(A)
    OBVIOUS
  <2>3. Among(r, M) \in Seq(A \cap M)
    BY <1>2
  <2>4. x \in M => Append(Among(r, M), x) \in Seq(A \cap M)
    BY <2>3, AppendProperties
  <2> QED BY <2>1, <2>2, <2>3, <2>4
<1> HIDE DEF Good
<1>3. Seq(A) \subseteq Good
  BY <1>1, <1>2, AllSequences
<1>4. Among(q, M) \in Seq(A \cap M)
  BY <1>3 DEF Good
<1> QED BY <1>4, SeqMonotonic

\* Every element of Among(q, M) is one of q, and only M matters.
LEMMA AmongAgree ==
  ASSUME NEW A, NEW M, NEW D, NEW q \in Seq(A),
         \A k \in 1 .. Len(q) : q[k] \in M <=> q[k] \in D
  PROVE  Among(q, M) = Among(q, D)
<1> DEFINE Good == {r \in Seq(A) : (\A k \in 1 .. Len(r) : r[k] \in M <=> r[k] \in D)
                                     => Among(r, M) = Among(r, D)}
<1>1. << >> \in Good
  BY AmongEmpty
<1>2. ASSUME NEW r \in Seq(A), NEW x \in A, r \in Good PROVE Append(r, x) \in Good
  <2> DEFINE s == Append(r, x)
  <2>0. s \in Seq(A)
    BY AppendProperties
  <2> SUFFICES ASSUME \A k \in 1 .. Len(s) : s[k] \in M <=> s[k] \in D
               PROVE  Among(s, M) = Among(s, D)
    BY <2>0
  <2>1. Len(s) = Len(r) + 1 /\ s[Len(r) + 1] = x /\ \A k \in 1 .. Len(r) : s[k] = r[k]
    BY AppendProperties
  <2>2. Len(r) \in Nat
    OBVIOUS
  <2>3. (x \in M <=> x \in D) /\ \A k \in 1 .. Len(r) : r[k] \in M <=> r[k] \in D
    BY <2>1, <2>2
  <2>4. Among(r, M) = Among(r, D)
    BY <1>2, <2>3
  <2>5. \A S : Among(s, S) = IF x \in S THEN Append(Among(r, S), x) ELSE Among(r, S)
    BY AmongAppend
  <2> QED BY <2>3, <2>4, <2>5
<1> HIDE DEF Good
<1>3. Seq(A) \subseteq Good
  BY <1>1, <1>2, AllSequences
<1> QED BY <1>3 DEF Good

LEMMA AmongConcat ==
  ASSUME NEW A, NEW M, NEW q \in Seq(A), NEW r \in Seq(A)
  PROVE  Among(q \o r, M) = Among(q, M) \o Among(r, M)
<1> DEFINE Good == {s \in Seq(A) : Among(q \o s, M) = Among(q, M) \o Among(s, M)}
<1>1. << >> \in Good
  <2>1. Among(q, M) \in Seq(A)
    BY AmongType
  <2> QED BY <2>1, AmongEmpty, ConcatEmptySeq, EmptySeq
<1>2. ASSUME NEW s \in Seq(A), NEW x \in A, s \in Good PROVE Append(s, x) \in Good
  <2>1. q \o Append(s, x) = Append(q \o s, x) /\ q \o s \in Seq(A) /\ Append(s, x) \in Seq(A)
    BY AppendToConcat, ConcatProperties, AppendProperties
  <2>2. Among(q, M) \in Seq(A) /\ Among(s, M) \in Seq(A)
    BY AmongType
  <2>3. Among(q \o s, M) = Among(q, M) \o Among(s, M)
    BY <1>2
  <2>4. CASE x \in M
    <3>1. Among(q \o Append(s, x), M) = Append(Among(q \o s, M), x)
      BY <2>1, <2>4, AmongAppend
    <3>2. Among(Append(s, x), M) = Append(Among(s, M), x)
      BY <2>4, AmongAppend
    <3>3. Among(q, M) \o Append(Among(s, M), x) = Append(Among(q, M) \o Among(s, M), x)
      BY <2>2, AppendToConcat
    <3> QED BY <2>1, <2>3, <3>1, <3>2, <3>3
  <2>5. CASE x \notin M
    <3>1. Among(q \o Append(s, x), M) = Among(q \o s, M)
      BY <2>1, <2>5, AmongAppend
    <3>2. Among(Append(s, x), M) = Among(s, M)
      BY <2>5, AmongAppend
    <3> QED BY <2>1, <2>3, <3>1, <3>2
  <2> QED BY <2>4, <2>5
<1> HIDE DEF Good
<1>3. Seq(A) \subseteq Good
  BY <1>1, <1>2, AllSequences
<1> QED BY <1>3 DEF Good

LEMMA AmongNone ==
  ASSUME NEW A, NEW M, NEW q \in Seq(A), \A k \in 1 .. Len(q) : q[k] \notin M
  PROVE  Among(q, M) = << >>
<1>1. Among(q, M) = Among(q, {})
  BY AmongAgree
<1>2. Among(q, {}) \in Seq(A \cap {})
  BY AmongType
<1> QED BY <1>1, <1>2

LEMMA AmongAll ==
  ASSUME NEW A, NEW M, NEW q \in Seq(A), \A k \in 1 .. Len(q) : q[k] \in M
  PROVE  Among(q, M) = q
<1> DEFINE Good == {r \in Seq(A) : Among(r, A) = r}
<1>1. << >> \in Good
  BY AmongEmpty
<1>2. ASSUME NEW r \in Seq(A), NEW x \in A, r \in Good PROVE Append(r, x) \in Good
  BY <1>2, AmongAppend
<1> HIDE DEF Good
<1>3. Seq(A) \subseteq Good
  BY <1>1, <1>2, AllSequences
<1>4. Among(q, M) = Among(q, A)
  BY AmongAgree
<1> QED BY <1>3, <1>4 DEF Good

LEMMA AmongOf1 ==
  ASSUME NEW x, NEW M
  PROVE  Among(<<x>>, M) = IF x \in M THEN <<x>> ELSE << >>
<1>1. << >> \in Seq({x}) /\ x \in {x} /\ <<x>> = Append(<< >>, x)
  OBVIOUS
<1>2. Among(Append(<< >>, x), M) = IF x \in M THEN Append(Among(<< >>, M), x) ELSE Among(<< >>, M)
  BY <1>1, AmongAppend
<1> QED BY <1>1, <1>2, AmongEmpty

\* The elements of Among(q, M) are those of q in M.
LEMMA AmongElements ==
  ASSUME NEW A, NEW M, NEW q \in Seq(A)
  PROVE  /\ ToSet(Among(q, M)) = ToSet(q) \cap M
         /\ \A k \in 1 .. Len(Among(q, M)) : Among(q, M)[k] \in M /\ \E j \in 1 .. Len(q) : q[j] = Among(q, M)[k]
<1> DEFINE Good == {r \in Seq(A) : ToSet(Among(r, M)) = ToSet(r) \cap M}
<1>0. \A r \in Seq(A), x \in A : ToSet(Append(r, x)) = ToSet(r) \cup {x}
  <2> TAKE r \in Seq(A), x \in A
  <2>1. Len(r) \in Nat
    OBVIOUS
  <2>2. Append(r, x) \in Seq(A) /\ Len(Append(r, x)) = Len(r) + 1 /\ Append(r, x)[Len(r) + 1] = x
        /\ \A k \in 1 .. Len(r) : Append(r, x)[k] = r[k]
    BY AppendProperties
  <2> QED BY <2>1, <2>2 DEF ToSet
<1>1. << >> \in Good
  BY AmongEmpty DEF ToSet
<1>2. ASSUME NEW r \in Seq(A), NEW x \in A, r \in Good PROVE Append(r, x) \in Good
  <2>1. Among(Append(r, x), M) = IF x \in M THEN Append(Among(r, M), x) ELSE Among(r, M)
    BY AmongAppend
  <2>2. Append(r, x) \in Seq(A) /\ Among(r, M) \in Seq(A)
    BY AmongType, AppendProperties
  <2>3. ToSet(Among(r, M)) = ToSet(r) \cap M
    BY <1>2
  <2>4. ToSet(Append(r, x)) = ToSet(r) \cup {x} /\ ToSet(Append(Among(r, M), x)) = ToSet(Among(r, M)) \cup {x}
    BY <1>0, <2>2
  <2> QED BY <2>1, <2>2, <2>3, <2>4
<1> HIDE DEF Good
<1>3. Seq(A) \subseteq Good
  BY <1>1, <1>2, AllSequences
<1>4. ToSet(Among(q, M)) = ToSet(q) \cap M
  BY <1>3 DEF Good
<1>5. Among(q, M) \in Seq(A)
  BY AmongType
<1>6. \A k \in 1 .. Len(Among(q, M)) : Among(q, M)[k] \in ToSet(Among(q, M))
  BY <1>5 DEF ToSet
<1>7. \A x \in ToSet(q) : \E j \in 1 .. Len(q) : q[j] = x
  BY DEF ToSet
<1> QED BY <1>4, <1>6, <1>7

LEMMA AmongTail ==
  ASSUME NEW A, NEW M, NEW q \in Seq(A), q # << >>
  PROVE  Among(q, M) = IF Head(q) \in M THEN <<Head(q)>> \o Among(Tail(q), M)
                       ELSE Among(Tail(q), M)
<1>1. q = <<Head(q)>> \o Tail(q) /\ Tail(q) \in Seq(A) /\ <<Head(q)>> \in Seq(A)
  BY HeadAndTail
<1>2. Among(q, M) = Among(<<Head(q)>>, M) \o Among(Tail(q), M)
  BY <1>1, AmongConcat
<1>3. Among(<<Head(q)>>, M) = IF Head(q) \in M THEN <<Head(q)>> ELSE << >>
  BY AmongOf1
<1>4. Among(Tail(q), M) \in Seq(A)
  BY <1>1, AmongType
<1> QED BY <1>2, <1>3, <1>4, ConcatEmptySeq

\* A sequence with exactly one element in M.
LEMMA AmongSplitAt ==
  ASSUME NEW A, NEW q \in Seq(A), NEW n \in 1 .. Len(q)
  PROVE  /\ q = (SubSeq(q, 1, n - 1) \o <<q[n]>>) \o SubSeq(q, n + 1, Len(q))
         /\ SubSeq(q, 1, n - 1) \in Seq(A) /\ SubSeq(q, n + 1, Len(q)) \in Seq(A)
         /\ Len(SubSeq(q, 1, n - 1)) = n - 1 /\ Len(SubSeq(q, n + 1, Len(q))) = Len(q) - n
         /\ \A k \in 1 .. n - 1 : SubSeq(q, 1, n - 1)[k] = q[k]
         /\ \A k \in 1 .. Len(q) - n : SubSeq(q, n + 1, Len(q))[k] = q[k + n]
<1>1. Len(q) \in Nat /\ \A k \in 1 .. Len(q) : q[k] \in A
  OBVIOUS
<1>2. /\ SubSeq(q, 1, n - 1) \in Seq(A) /\ Len(SubSeq(q, 1, n - 1)) = n - 1
      /\ \A k \in 1 .. n - 1 : SubSeq(q, 1, n - 1)[k] = q[k]
  <2>1. \A k \in 1 .. n - 1 : q[k] \in A
    BY <1>1
  <2>2. /\ SubSeq(q, 1, n - 1) \in Seq(A)
        /\ Len(SubSeq(q, 1, n - 1)) = IF 1 <= n - 1 THEN n - 1 - 1 + 1 ELSE 0
        /\ \A k \in 1 .. n - 1 - 1 + 1 : SubSeq(q, 1, n - 1)[k] = q[1 + k - 1]
    BY <1>1, <2>1, SubSeqProperties
  <2> QED BY <1>1, <2>2
<1>3. /\ SubSeq(q, n + 1, Len(q)) \in Seq(A) /\ Len(SubSeq(q, n + 1, Len(q))) = Len(q) - n
      /\ \A k \in 1 .. Len(q) - n : SubSeq(q, n + 1, Len(q))[k] = q[k + n]
  <2>1. \A k \in n + 1 .. Len(q) : q[k] \in A
    BY <1>1
  <2>2. /\ SubSeq(q, n + 1, Len(q)) \in Seq(A)
        /\ Len(SubSeq(q, n + 1, Len(q))) = IF n + 1 <= Len(q) THEN Len(q) - (n + 1) + 1 ELSE 0
        /\ \A k \in 1 .. Len(q) - (n + 1) + 1 : SubSeq(q, n + 1, Len(q))[k] = q[(n + 1) + k - 1]
    BY <1>1, <2>1, SubSeqProperties
  <2>3. /\ Len(q) - (n + 1) + 1 = Len(q) - n
        /\ (IF n + 1 <= Len(q) THEN Len(q) - n ELSE 0) = Len(q) - n
    BY <1>1
  <2>4. ASSUME NEW k \in 1 .. Len(q) - n PROVE SubSeq(q, n + 1, Len(q))[k] = q[k + n]
    <3>1. k \in 1 .. Len(q) - (n + 1) + 1 /\ (n + 1) + k - 1 = k + n
      BY <1>1
    <3>2. SubSeq(q, n + 1, Len(q))[k] = q[(n + 1) + k - 1]
      BY <2>2, <3>1
    <3> QED BY <3>1, <3>2
  <2> QED BY <2>2, <2>3, <2>4
<1>4. SubSeq(q, 1, n - 1) \o SubSeq(q, n, Len(q)) = q
  <2>1. 1 \in 1 .. Len(q) + 1 /\ n - 1 \in 1 - 1 .. Len(q) /\ Len(q) \in n - 1 .. Len(q) /\ (n - 1) + 1 = n
    BY <1>1
  <2>2. SubSeq(q, 1, n - 1) \o SubSeq(q, (n - 1) + 1, Len(q)) = SubSeq(q, 1, Len(q))
    BY <2>1, ConcatAdjacentSubSeq
  <2> QED BY <2>1, <2>2, SubSeqFull
<1>5. SubSeq(q, n, Len(q)) = <<q[n]>> \o SubSeq(q, n + 1, Len(q))
  BY <1>1, SubSeqRecursiveFirst
<1>6. <<q[n]>> \in Seq(A)
  BY <1>1
<1>7. (SubSeq(q, 1, n - 1) \o <<q[n]>>) \o SubSeq(q, n + 1, Len(q))
        = SubSeq(q, 1, n - 1) \o (<<q[n]>> \o SubSeq(q, n + 1, Len(q)))
  <2> DEFINE a == SubSeq(q, 1, n - 1)
             b == <<q[n]>>
             c == SubSeq(q, n + 1, Len(q))
  <2>1. a \in Seq(A) /\ b \in Seq(A) /\ c \in Seq(A)
    BY <1>2, <1>3, <1>6
  <2> HIDE DEF a, b, c
  <2>2. \A s, t, u \in Seq(A) : (s \o t) \o u = s \o (t \o u)
    BY ConcatAssociative
  <2>3. (a \o b) \o c = a \o (b \o c)
    BY <2>1, <2>2, Zenon
  <2> QED BY <2>3 DEF a, b, c
<1> QED BY <1>2, <1>3, <1>4, <1>5, <1>7

LEMMA AmongOne ==
  ASSUME NEW A, NEW M, NEW q \in Seq(A), NEW n \in 1 .. Len(q), q[n] \in M,
         \A k \in 1 .. Len(q) : q[k] \in M => k = n
  PROVE  Among(q, M) = <<q[n]>>
<1> DEFINE a == SubSeq(q, 1, n - 1)
           b == SubSeq(q, n + 1, Len(q))
<1>1. q = (a \o <<q[n]>>) \o b /\ a \in Seq(A) /\ b \in Seq(A)
  BY AmongSplitAt
<1>2. /\ Len(a) = n - 1 /\ \A k \in 1 .. n - 1 : a[k] = q[k]
      /\ Len(b) = Len(q) - n /\ \A j \in 1 .. Len(q) - n : b[j] = q[j + n]
  BY AmongSplitAt
<1> HIDE DEF a, b
<1>3. Len(q) \in Nat /\ <<q[n]>> \in Seq(A) /\ a \o <<q[n]>> \in Seq(A)
  BY <1>1
<1>4. Among(a, M) = << >>
  <2>1. \A k \in 1 .. Len(a) : a[k] \notin M
    BY <1>2, <1>3
  <2> QED BY <1>1, <2>1, AmongNone
<1>5. Among(b, M) = << >>
  <2>1. ASSUME NEW k \in 1 .. Len(b) PROVE b[k] \notin M
    <3>1. k \in 1 .. Len(q) - n /\ k + n \in 1 .. Len(q) /\ k + n # n
      BY <1>2, <1>3
    <3> QED BY <1>2, <3>1
  <2> QED BY <1>1, <2>1, AmongNone
<1>6. Among(<<q[n]>>, M) = <<q[n]>>
  BY AmongOf1
<1>7. Among(q, M) = (Among(a, M) \o Among(<<q[n]>>, M)) \o Among(b, M)
  <2>1. Among((a \o <<q[n]>>) \o b, M) = Among(a \o <<q[n]>>, M) \o Among(b, M)
    BY <1>1, <1>3, AmongConcat
  <2>2. Among(a \o <<q[n]>>, M) = Among(a, M) \o Among(<<q[n]>>, M)
    BY <1>1, <1>3, AmongConcat
  <2> QED BY <1>1, <2>1, <2>2
<1> QED BY <1>3, <1>4, <1>5, <1>6, <1>7, ConcatEmptySeq

LEMMA AmongAmong ==
  ASSUME NEW A, NEW D, NEW E, NEW q \in Seq(A)
  PROVE  Among(Among(q, D), E) = Among(q, D \cap E)
<1> DEFINE Good == {r \in Seq(A) : Among(Among(r, D), E) = Among(r, D \cap E)}
<1>1. << >> \in Good
  BY AmongEmpty
<1>2. ASSUME NEW r \in Seq(A), NEW x \in A, r \in Good PROVE Append(r, x) \in Good
  <2>1. Among(r, D) \in Seq(A) /\ Append(r, x) \in Seq(A)
    BY AmongType, AppendProperties
  <2>2. \A M : Among(Append(r, x), M) = IF x \in M THEN Append(Among(r, M), x) ELSE Among(r, M)
    BY AmongAppend
  <2>3. Among(Append(Among(r, D), x), E)
          = IF x \in E THEN Append(Among(Among(r, D), E), x) ELSE Among(Among(r, D), E)
    BY <2>1, AmongAppend
  <2>4. Among(Among(r, D), E) = Among(r, D \cap E)
    BY <1>2
  <2>5. Among(Among(Append(r, x), D), E) = Among(Append(r, x), D \cap E)
    BY <2>2, <2>3, <2>4
  <2> QED BY <2>1, <2>5
<1> HIDE DEF Good
<1>3. Seq(A) \subseteq Good
  BY <1>1, <1>2, AllSequences
<1> QED BY <1>3 DEF Good

\* Of the elements of q that are in E, those in D come before the others.
InFront(q, D, E) ==
  \A j, k \in 1 .. Len(q) : j < k /\ q[j] \in E \ D /\ q[k] \in E => q[k] \notin D

PickedFirst(q, D, E) == Among(q, E) = Among(q, D \cap E) \o Among(q, E \ D)

LEMMA AmongFirst ==
  ASSUME NEW A, NEW D, NEW E, NEW q \in Seq(A), InFront(q, D, E)
  PROVE  PickedFirst(q, D, E)
<1> DEFINE Good == {r \in Seq(A) : InFront(r, D, E) => Among(r, E) = Among(r, D \cap E) \o Among(r, E \ D)}
<1>1. << >> \in Good
  BY AmongEmpty, ConcatEmptySeq, EmptySeq
<1>2. ASSUME NEW r \in Seq(A), NEW x \in A, r \in Good PROVE Append(r, x) \in Good
  <2> DEFINE s == Append(r, x)
  <2>0. s \in Seq(A)
    BY AppendProperties
  <2> SUFFICES ASSUME InFront(s, D, E)
               PROVE  Among(s, E) = Among(s, D \cap E) \o Among(s, E \ D)
    BY <2>0
  <2>1. Len(s) = Len(r) + 1 /\ s[Len(r) + 1] = x /\ Len(r) \in Nat /\ \A k \in 1 .. Len(r) : s[k] = r[k]
    BY AppendProperties
  <2> HIDE DEF s
  <2>2. InFront(r, D, E)
    BY <2>1 DEF InFront
  <2>3. Among(r, E) = Among(r, D \cap E) \o Among(r, E \ D)
    BY <1>2, <2>2
  <2>4. \A M : Among(s, M) = IF x \in M THEN Append(Among(r, M), x) ELSE Among(r, M)
    BY AmongAppend DEF s
  <2>5. Among(r, D \cap E) \in Seq(A) /\ Among(r, E \ D) \in Seq(A)
    BY AmongType
  <2>6. CASE x \notin E
    <3>1. x \notin D \cap E /\ x \notin E \ D
      BY <2>6
    <3> QED BY <2>3, <2>4, <2>6, <3>1
  <2>7. CASE x \in E \ D
    <3>1. x \notin D \cap E /\ x \in E
      BY <2>7
    <3>2. /\ Among(s, E) = Append(Among(r, E), x) /\ Among(s, D \cap E) = Among(r, D \cap E)
          /\ Among(s, E \ D) = Append(Among(r, E \ D), x)
      BY <2>4, <2>7, <3>1
    <3>3. Among(r, D \cap E) \o Append(Among(r, E \ D), x)
            = Append(Among(r, D \cap E) \o Among(r, E \ D), x)
      BY <2>5, AppendToConcat
    <3> QED BY <2>3, <3>2, <3>3
  <2>8. CASE x \in E \cap D
    <3>1. \A j \in 1 .. Len(r) : r[j] \notin E \ D
      BY <2>1, <2>8 DEF InFront
    <3>2. Among(r, E \ D) = << >>
      BY <3>1, AmongNone
    <3>3. Among(s, E) = Append(Among(r, E), x) /\ Among(s, D \cap E) = Append(Among(r, D \cap E), x)
          /\ Among(s, E \ D) = << >>
      BY <2>4, <2>8, <3>2
    <3>4. Append(Among(r, D \cap E), x) \in Seq(A)
      BY <2>5, AppendProperties
    <3> QED BY <2>3, <2>5, <3>2, <3>3, <3>4, ConcatEmptySeq
  <2> QED BY <2>6, <2>7, <2>8
<1> HIDE DEF Good
<1>3. Seq(A) \subseteq Good
  BY <1>1, <1>2, AllSequences
<1> QED BY <1>3 DEF Good, PickedFirst

-----------------------------------------------------------------------------
(***************************************************************************)
(* IsSubsequence.                                                          *)
(***************************************************************************)
LEMMA SubsequenceSelf ==
  ASSUME NEW A, NEW s \in Seq(A)
  PROVE  IsSubsequence(s, s)
<1> DEFINE place == [i \in 1 .. Len(s) |-> i]
<1>1. place \in [1 .. Len(s) -> 1 .. Len(s)]
  OBVIOUS
<1>2. \A i \in 1 .. Len(s) : s[i] = s[place[i]] /\ \A j \in 1 .. i - 1 : place[j] < place[i]
  OBVIOUS
<1> QED BY <1>1, <1>2 DEF IsSubsequence

LEMMA SubsequenceEmpty ==
  ASSUME NEW t
  PROVE  IsSubsequence(<< >>, t)
<1> DEFINE place == [i \in 1 .. 0 |-> i]
<1>1. place \in [1 .. Len(<< >>) -> 1 .. Len(t)] /\ Len(<< >>) = 0
  OBVIOUS
<1>2. 1 .. Len(<< >>) = {}
  BY <1>1
<1> QED BY <1>1, <1>2 DEF IsSubsequence

LEMMA SubsequenceTransitive ==
  ASSUME NEW A, NEW s \in Seq(A), NEW t \in Seq(A), NEW u \in Seq(A),
         IsSubsequence(s, t), IsSubsequence(t, u)
  PROVE  IsSubsequence(s, u)
<1>1. PICK p \in [1 .. Len(s) -> 1 .. Len(t)] :
        \A i \in 1 .. Len(s) : s[i] = t[p[i]] /\ \A j \in 1 .. i - 1 : p[j] < p[i]
  BY DEF IsSubsequence
<1>2. PICK r \in [1 .. Len(t) -> 1 .. Len(u)] :
        \A i \in 1 .. Len(t) : t[i] = u[r[i]] /\ \A j \in 1 .. i - 1 : r[j] < r[i]
  BY DEF IsSubsequence
<1> DEFINE place == [i \in 1 .. Len(s) |-> r[p[i]]]
<1>3. place \in [1 .. Len(s) -> 1 .. Len(u)]
  OBVIOUS
<1>4. ASSUME NEW i \in 1 .. Len(s)
      PROVE  s[i] = u[place[i]] /\ \A j \in 1 .. i - 1 : place[j] < place[i]
  <2>1. p[i] \in 1 .. Len(t) /\ s[i] = t[p[i]] /\ place[i] = r[p[i]] /\ t[p[i]] = u[r[p[i]]]
    BY <1>1, <1>2
  <2>2. ASSUME NEW j \in 1 .. i - 1 PROVE place[j] < place[i]
    <3>1. j \in 1 .. Len(s)
      OBVIOUS
    <3>2. p[j] \in 1 .. Len(t) /\ p[j] < p[i] /\ place[j] = r[p[j]]
      BY <1>1, <3>1
    <3>3. p[j] \in 1 .. p[i] - 1
      BY <2>1, <3>2
    <3> QED BY <1>2, <2>1, <3>2, <3>3
  <2> QED BY <2>1, <2>2
<1> HIDE DEF place
<1> QED BY <1>3, <1>4 DEF IsSubsequence

LEMMA SubsequenceConcat ==
  ASSUME NEW A, NEW s \in Seq(A), NEW t \in Seq(A), NEW u \in Seq(A), NEW v \in Seq(A),
         IsSubsequence(s, t), IsSubsequence(u, v)
  PROVE  IsSubsequence(s \o u, t \o v)
<1>1. PICK p \in [1 .. Len(s) -> 1 .. Len(t)] :
        \A i \in 1 .. Len(s) : s[i] = t[p[i]] /\ \A j \in 1 .. i - 1 : p[j] < p[i]
  BY DEF IsSubsequence
<1>2. PICK r \in [1 .. Len(u) -> 1 .. Len(v)] :
        \A i \in 1 .. Len(u) : u[i] = v[r[i]] /\ \A j \in 1 .. i - 1 : r[j] < r[i]
  BY DEF IsSubsequence
<1> DEFINE ls == Len(s)
           lt == Len(t)
           lu == Len(u)
           lv == Len(v)
           place == [i \in 1 .. ls + lu |-> IF i <= ls THEN p[i] ELSE lt + r[i - ls]]
<1>3. /\ ls \in Nat /\ lt \in Nat /\ lu \in Nat /\ lv \in Nat
      /\ Len(s \o u) = ls + lu /\ Len(t \o v) = lt + lv
      /\ \A i \in 1 .. ls + lu : (s \o u)[i] = IF i <= ls THEN s[i] ELSE u[i - ls]
      /\ \A i \in 1 .. lt + lv : (t \o v)[i] = IF i <= lt THEN t[i] ELSE v[i - lt]
  BY ConcatProperties
<1>8. ls \in Nat /\ lt \in Nat /\ lu \in Nat /\ lv \in Nat
  OBVIOUS
<1>4. p \in [1 .. ls -> 1 .. lt] /\ r \in [1 .. lu -> 1 .. lv]
  OBVIOUS
<1>5. /\ \A i \in 1 .. ls : s[i] = t[p[i]] /\ \A j \in 1 .. i - 1 : p[j] < p[i]
      /\ \A i \in 1 .. lu : u[i] = v[r[i]] /\ \A j \in 1 .. i - 1 : r[j] < r[i]
  BY <1>1, <1>2
<1> HIDE DEF ls, lt, lu, lv
<1>6. ASSUME NEW i \in 1 .. ls + lu
      PROVE  /\ place[i] \in 1 .. lt + lv
             /\ (s \o u)[i] = (t \o v)[place[i]]
             /\ \A j \in 1 .. i - 1 : place[j] < place[i]
  <2>1. CASE i <= ls
    <3>1. i \in 1 .. ls /\ place[i] = p[i] /\ p[i] \in 1 .. lt
      BY <1>3, <1>4, <2>1
    <3>2. p[i] \in 1 .. lt + lv /\ p[i] <= lt
      BY <1>3, <3>1
    <3>3. ASSUME NEW j \in 1 .. i - 1 PROVE place[j] = p[j]
      BY <1>8, <2>1
    <3> HIDE DEF place
    <3>4. (s \o u)[i] = s[i] /\ (t \o v)[place[i]] = t[place[i]]
      BY <1>3, <2>1, <3>1, <3>2
    <3> QED BY <1>5, <3>1, <3>2, <3>3, <3>4
  <2>2. CASE i > ls
    <3>1. i - ls \in 1 .. lu /\ ~ (i <= ls)
      BY <1>3, <2>2
    <3>2. place[i] = lt + r[i - ls] /\ r[i - ls] \in 1 .. lv
      BY <1>4, <3>1
    <3>3. lt + r[i - ls] \in 1 .. lt + lv /\ ~ (lt + r[i - ls] <= lt) /\ (lt + r[i - ls]) - lt = r[i - ls]
      BY <1>8, <3>2
    <3>4. ASSUME NEW j \in 1 .. i - 1 PROVE place[j] < place[i]
      <4>1. CASE j <= ls
        <5>1. j \in 1 .. ls /\ place[j] = p[j] /\ p[j] \in 1 .. lt
          BY <1>3, <1>4, <2>2, <4>1
        <5> HIDE DEF place
        <5> QED BY <1>8, <3>2, <5>1
      <4>2. CASE j > ls
        <5>1. j - ls \in 1 .. (i - ls) - 1 /\ j - ls \in 1 .. lu /\ j \in 1 .. ls + lu /\ ~ (j <= ls)
          BY <1>8, <4>2
        <5>2. place[j] = lt + r[j - ls] /\ r[j - ls] \in 1 .. lv /\ r[j - ls] < r[i - ls]
          BY <1>4, <1>5, <3>1, <5>1
        <5> HIDE DEF place
        <5> QED BY <1>8, <3>2, <5>2
      <4> QED BY <1>8, <4>1, <4>2
    <3> HIDE DEF place
    <3>5. (t \o v)[place[i]] = v[r[i - ls]] /\ (s \o u)[i] = u[i - ls]
      BY <1>3, <3>1, <3>2, <3>3
    <3> QED BY <1>5, <3>1, <3>2, <3>3, <3>4, <3>5
  <2>3. i <= ls \/ i > ls
    BY <1>8
  <2> HIDE DEF place
  <2> QED BY <2>1, <2>2, <2>3, Zenon
<1>7. place \in [1 .. ls + lu -> 1 .. lt + lv]
  BY <1>6
<1> HIDE DEF place
<1> QED BY <1>3, <1>6, <1>7 DEF IsSubsequence

LEMMA SubsequenceOfTail ==
  ASSUME NEW A, NEW q \in Seq(A), q # << >>
  PROVE  IsSubsequence(Tail(q), q) /\ IsSubsequence(<<Head(q)>>, q)
<1>1. q = <<Head(q)>> \o Tail(q) /\ Tail(q) \in Seq(A) /\ <<Head(q)>> \in Seq(A) /\ << >> \in Seq(A)
  BY HeadAndTail
<1>2. IsSubsequence(Tail(q), Tail(q)) /\ IsSubsequence(<<Head(q)>>, <<Head(q)>>)
  BY <1>1, SubsequenceSelf
<1>3. IsSubsequence(<< >>, Tail(q)) /\ IsSubsequence(<< >>, <<Head(q)>>)
  BY SubsequenceEmpty
<1>4. IsSubsequence(<< >> \o Tail(q), <<Head(q)>> \o Tail(q))
  BY <1>1, <1>2, <1>3, SubsequenceConcat
<1>5. IsSubsequence(<<Head(q)>> \o << >>, <<Head(q)>> \o Tail(q))
  BY <1>1, <1>2, <1>3, SubsequenceConcat
<1>6. << >> \o Tail(q) = Tail(q) /\ <<Head(q)>> \o << >> = <<Head(q)>>
  BY <1>1, ConcatEmptySeq
<1> QED BY <1>1, <1>4, <1>5, <1>6

LEMMA AmongSubsequence ==
  ASSUME NEW A, NEW M, NEW q \in Seq(A)
  PROVE  IsSubsequence(Among(q, M), q)
<1> DEFINE Good == {r \in Seq(A) : IsSubsequence(Among(r, M), r)}
<1>1. << >> \in Good
  BY AmongEmpty, SubsequenceEmpty
<1>2. ASSUME NEW r \in Seq(A), NEW x \in A, r \in Good PROVE Append(r, x) \in Good
  <2>0. Among(r, M) \in Seq(A)
    BY AmongType
  <2>1. Among(r, M) \in Seq(A) /\ <<x>> \in Seq(A) /\ << >> \in Seq(A) /\ Append(r, x) \in Seq(A)
    BY <2>0
  <2>2. Append(r, x) = r \o <<x>> /\ Append(Among(r, M), x) = Among(r, M) \o <<x>>
    BY <2>1, AppendIsConcat
  <2>3. IsSubsequence(Among(r, M), r)
    BY <1>2
  <2>4. IsSubsequence(<<x>>, <<x>>) /\ IsSubsequence(<< >>, <<x>>)
    BY <2>1, SubsequenceSelf, SubsequenceEmpty
  <2>5. IsSubsequence(Among(r, M) \o <<x>>, r \o <<x>>)
    BY <2>1, <2>3, <2>4, SubsequenceConcat
  <2>6. IsSubsequence(Among(r, M) \o << >>, r \o <<x>>)
    BY <2>1, <2>3, <2>4, SubsequenceConcat
  <2>7. Among(r, M) \o << >> = Among(r, M)
    BY <2>1, ConcatEmptySeq
  <2>8. Among(Append(r, x), M) = IF x \in M THEN Append(Among(r, M), x) ELSE Among(r, M)
    BY AmongAppend
  <2> QED BY <2>1, <2>2, <2>5, <2>6, <2>7, <2>8
<1> HIDE DEF Good
<1>3. Seq(A) \subseteq Good
  BY <1>1, <1>2, AllSequences
<1> QED BY <1>3 DEF Good
=============================================================================
