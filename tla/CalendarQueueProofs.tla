------------------------- MODULE CalendarQueueProofs -------------------------
(***************************************************************************)
(* The queue holds one event per agent, and the clock passes none of them  *)
(* as long as no delay reaches around the array.                           *)
(***************************************************************************)
EXTENDS CalendarQueue, TLAPS, SequenceTheorems, WellFoundedInduction

USE SizesAssumption, TimesAssumption

-----------------------------------------------------------------------------
(* Arithmetic                                                              *)

LEMMA DivisionFacts ==
  ASSUME NEW n \in Nat \ {0}, NEW a \in Int
  PROVE  /\ a = n * (a \div n) + (a % n)
         /\ a % n \in 0 .. n - 1
         /\ a \div n \in Int
BY SMTT(20)

LEMMA DifferenceOfProducts ==
  ASSUME NEW n \in Int, NEW p \in Int, NEW q \in Int
  PROVE  n * q - n * p = n * (q - p)
BY SMTT(20)

LEMMA ProductOfPositive ==
  ASSUME NEW n \in Nat \ {0}, NEW q \in Int, q >= 1
  PROVE  n * q >= n
BY SMTT(20)

\* A larger quotient means a larger number.
LEMMA QuotientOrders ==
  ASSUME NEW n \in Nat \ {0}, NEW p \in Int, NEW q \in Int, p < q,
         NEW r \in 0 .. n - 1, NEW s \in 0 .. n - 1
  PROVE  n * p + r < n * q + s
<1>1. n * q - n * p >= n
  BY DifferenceOfProducts, ProductOfPositive
<1>2. n * p \in Int /\ n * q \in Int
  OBVIOUS
<1> QED  BY <1>1, <1>2

LEMMA DivisionIsUnique ==
  ASSUME NEW n \in Nat \ {0}, NEW p \in Int, NEW q \in Int,
         NEW r \in 0 .. n - 1, NEW s \in 0 .. n - 1,
         n * p + r = n * q + s
  PROVE  p = q /\ r = s
<1>1. ~(p < q) /\ ~(q < p)
  <2>1. n * p + r \in Int /\ n * q + s \in Int
    OBVIOUS
  <2> QED  BY <2>1, QuotientOrders
<1>2. p = q
  BY <1>1
<1>3. n * p \in Int
  OBVIOUS
<1> QED  BY <1>2, <1>3

\* Less than n apart, two numbers are as far apart as their remainders are on a
\* circle of n.
LEMMA RemainderDistance ==
  ASSUME NEW n \in Nat \ {0}, NEW a \in Int, NEW b \in Int, a <= b, b < a + n
  PROVE  ((b % n) - (a % n)) % n = b - a
<1> DEFINE k == (a \div n) - (b \div n)
           d == (b % n) - (a % n)
<1>1. /\ a \div n \in Int /\ b \div n \in Int /\ k \in Int
      /\ a % n \in Int /\ b % n \in Int /\ d \in Int
  BY DivisionFacts
<1>2. n * (a \div n) - n * (b \div n) = n * k
  BY <1>1, DifferenceOfProducts
<1>3. d = n * k + (b - a)
  <2>1. a = n * (a \div n) + (a % n) /\ b = n * (b \div n) + (b % n)
    BY DivisionFacts
  <2>2. n * (a \div n) \in Int /\ n * (b \div n) \in Int /\ n * k \in Int
    BY <1>1
  <2> QED  BY <1>1, <1>2, <2>1, <2>2
<1>4. d = n * (d \div n) + (d % n) /\ d % n \in 0 .. n - 1 /\ d \div n \in Int
  BY <1>1, DivisionFacts
<1>5. b - a \in 0 .. n - 1
  OBVIOUS
<1> QED  BY <1>1, <1>3, <1>4, <1>5, DivisionIsUnique

LEMMA UnitFacts ==
  ASSUME NEW t \in Nat
  PROVE  /\ Unit(t) \in Nat
         /\ Unit(t) * Resolution <= t
<1>1. /\ t = Resolution * Unit(t) + (t % Resolution)
      /\ t % Resolution \in 0 .. Resolution - 1
      /\ Unit(t) \in Int
  BY DivisionFacts DEF Unit
<1>2. Unit(t) >= 0
  <2> SUFFICES ASSUME Unit(t) <= -1 PROVE FALSE
    BY <1>1
  <2>1. Resolution * Unit(t) + (t % Resolution) < Resolution * 0 + 0
    BY <1>1, QuotientOrders
  <2> QED  BY <1>1, <2>1
<1>3. Unit(t) * Resolution = Resolution * Unit(t) /\ Resolution * Unit(t) \in Int
  BY <1>1
<1> QED  BY <1>1, <1>2, <1>3

\* An earlier unit is an earlier time.
LEMMA UnitIsMonotonic ==
  ASSUME NEW t \in Nat, NEW u \in Nat, Unit(t) < Unit(u)
  PROVE  t < u
<1>1. /\ t = Resolution * Unit(t) + (t % Resolution) /\ t % Resolution \in 0 .. Resolution - 1
      /\ u = Resolution * Unit(u) + (u % Resolution) /\ u % Resolution \in 0 .. Resolution - 1
      /\ Unit(t) \in Int /\ Unit(u) \in Int
  BY DivisionFacts DEF Unit
<1> QED  BY <1>1, QuotientOrders

LEMMA BucketOfInPositions ==
  ASSUME NEW t \in Nat
  PROVE  BucketOf(t) \in Positions
<1>1. Unit(t) \in Int
  BY UnitFacts
<1>2. Unit(t) % Buckets \in 0 .. Buckets - 1
  BY <1>1, DivisionFacts
<1> QED  BY <1>2 DEF BucketOf, Positions

\* A set of natural numbers has a least element.
LEMMA LeastExists ==
  ASSUME NEW S \in SUBSET Nat, S # {}
  PROVE  \E x \in S : \A y \in S : x <= y
<1>1. PICK x \in S : \A y \in S : ~(<<y, x>> \in OpToRel(<, Nat))
  BY WFMin, NatLessThanWellFounded
<1>2. \A y \in Nat, z \in Nat : y < z => <<y, z>> \in OpToRel(<, Nat)
  BY DEF OpToRel
<1>3. \A y \in S : ~(y < x)
  BY <1>1, <1>2
<1> QED  BY <1>3

-----------------------------------------------------------------------------
(* Buckets                                                                 *)

Sorted(s) == \A j, k \in 1..Len(s) : j < k => s[j].time >= s[k].time

LEMMA EventFacts ==
  ASSUME NEW e \in Events
  PROVE  e.time \in Nat /\ e.time \in Times /\ e.pos \in Agents
BY DEF Events, Times

\* std::upper_bound finds the end of the events that are not earlier.
LEMMA UpperBoundExists ==
  ASSUME NEW s \in Seq(Events), Sorted(s), NEW e \in Events
  PROVE  \E k \in 0 .. Len(s) :
           /\ \A i \in 1 .. k : s[i].time >= e.time
           /\ \A i \in k + 1 .. Len(s) : s[i].time < e.time
<1> DEFINE later == {i \in 1 .. Len(s) : s[i].time < e.time}
<1>1. /\ Len(s) \in Nat
      /\ e.time \in Nat
      /\ \A i \in 1 .. Len(s) : s[i].time \in Nat
  BY LenProperties, ElementOfSeq, EventFacts
<1>2. CASE later = {}
  <2>1. \A i \in 1 .. Len(s) : s[i].time >= e.time
    BY <1>1, <1>2
  <2> WITNESS Len(s) \in 0 .. Len(s)
  <2> QED  BY <1>1, <2>1
<1>3. CASE later # {}
  <2>1. PICK m \in later : \A i \in later : m <= i
    <3>1. later \in SUBSET Nat
      OBVIOUS
    <3> QED  BY <1>3, <3>1, LeastExists
  <2>2. m \in 1 .. Len(s) /\ m - 1 \in 0 .. Len(s)
    BY <1>1
  <2>3. \A i \in 1 .. m - 1 : s[i].time >= e.time
    BY <1>1, <2>1, <2>2
  <2>4. ASSUME NEW i \in m .. Len(s) PROVE s[i].time < e.time
    <3>1. s[m].time >= s[i].time
      BY <1>1, <2>2, <2>4 DEF Sorted
    <3> QED  BY <1>1, <2>1, <2>2, <2>4, <3>1
  <2> WITNESS m - 1 \in 0 .. Len(s)
  <2> QED  BY <2>2, <2>3, <2>4
<1> QED  BY <1>2, <1>3

LEMMA SpliceFacts ==
  ASSUME NEW S, NEW f \in Seq(S), NEW e \in S, NEW g \in Seq(S)
  PROVE  /\ f \o <<e>> \o g \in Seq(S)
         /\ Len(f \o <<e>> \o g) = Len(f) + Len(g) + 1
         /\ \A i \in 1 .. Len(f) : (f \o <<e>> \o g)[i] = f[i]
         /\ (f \o <<e>> \o g)[Len(f) + 1] = e
         /\ \A i \in 1 .. Len(g) : (f \o <<e>> \o g)[Len(f) + 1 + i] = g[i]
<1>1. Len(f) \in Nat /\ Len(g) \in Nat
  BY LenProperties
<1>2. <<e>> \in Seq(S) /\ Len(<<e>>) = 1 /\ <<e>>[1] = e
  OBVIOUS
<1>3. /\ f \o <<e>> \in Seq(S) /\ Len(f \o <<e>>) = Len(f) + 1
      /\ \A i \in 1 .. Len(f) : (f \o <<e>>)[i] = f[i]
      /\ (f \o <<e>>)[Len(f) + 1] = e
  BY <1>1, <1>2, ConcatProperties
<1>4. /\ f \o <<e>> \o g \in Seq(S) /\ Len(f \o <<e>> \o g) = Len(f) + 1 + Len(g)
      /\ \A i \in 1 .. Len(f) + 1 + Len(g) :
           (f \o <<e>> \o g)[i] =
             IF i <= Len(f) + 1 THEN (f \o <<e>>)[i] ELSE g[i - (Len(f) + 1)]
  BY <1>3, ConcatProperties
<1>5. \A i \in 1 .. Len(g) : (Len(f) + 1 + i) - (Len(f) + 1) = i
  BY <1>1
<1> QED  BY <1>1, <1>3, <1>4, <1>5

\* An event that is inserted leaves the others where they are or moves them one
\* up, and the bucket sorted.
LEMMA InsertedFacts ==
  ASSUME NEW s \in Seq(Events), Sorted(s), NEW e \in Events
  PROVE  /\ Inserted(s, e) \in Seq(Events)
         /\ Sorted(Inserted(s, e))
         /\ \E k \in 0 .. Len(s) :
              /\ Len(Inserted(s, e)) = Len(s) + 1
              /\ \A i \in 1 .. k : Inserted(s, e)[i] = s[i]
              /\ Inserted(s, e)[k + 1] = e
              /\ \A i \in k + 1 .. Len(s) : Inserted(s, e)[i + 1] = s[i]
<1>1. PICK k \in 0 .. Len(s) :
        /\ \A i \in 1 .. k : s[i].time >= e.time
        /\ \A i \in k + 1 .. Len(s) : s[i].time < e.time
        /\ Inserted(s, e) = InsertAt(s, k + 1, e)
  BY UpperBoundExists DEF Inserted
<1>2. k \in Int /\ 0 <= k /\ k <= Len(s) /\ (k + 1) - 1 = k
  BY LenProperties
<1>3. /\ Len(s) \in Nat /\ e.time \in Nat
      /\ \A i \in 1 .. Len(s) : s[i] \in Events /\ s[i].time \in Nat
  BY LenProperties, ElementOfSeq, EventFacts
<1> DEFINE f == SubSeq(s, 1, k)
           g == SubSeq(s, k + 1, Len(s))
           r == f \o <<e>> \o g
<1>4. /\ f \in Seq(Events) /\ Len(f) = k
      /\ \A i \in 1 .. k : f[i] = s[i]
  BY <1>2, <1>3, SubSeqProperties
<1>5. /\ g \in Seq(Events) /\ Len(g) = Len(s) - k
      /\ \A i \in 1 .. Len(s) - k : g[i] = s[k + i]
  BY <1>2, <1>3, SubSeqProperties
<1>6. Inserted(s, e) = r
  <2>1. InsertAt(s, k + 1, e) = SubSeq(s, 1, (k + 1) - 1) \o <<e>> \o SubSeq(s, k + 1, Len(s))
    BY DEF InsertAt
  <2> QED  BY <1>1, <1>2, <2>1
<1> HIDE DEF f, g
<1>7. /\ r \in Seq(Events) /\ Len(r) = Len(f) + Len(g) + 1
      /\ \A i \in 1 .. Len(f) : r[i] = f[i]
      /\ r[Len(f) + 1] = e
      /\ \A i \in 1 .. Len(g) : r[Len(f) + 1 + i] = g[i]
  <2>1. f \in Seq(Events) /\ g \in Seq(Events) /\ e \in Events
    BY <1>4, <1>5
  <2> QED  BY <2>1, SpliceFacts
<1> HIDE DEF r
<1>8. /\ Len(r) = Len(s) + 1
      /\ \A i \in 1 .. k : r[i] = s[i]
      /\ r[k + 1] = e
  <2>1. Len(f) = k /\ Len(g) = Len(s) - k
    BY <1>4, <1>5
  <2>2. Len(r) = k + (Len(s) - k) + 1
    BY <1>7, <2>1
  <2>3. \A i \in 1 .. k : r[i] = s[i]
    BY <1>4, <1>7, <2>1
  <2>4. r[k + 1] = e
    BY <1>7, <2>1
  <2>5. Len(r) = Len(s) + 1
    BY <1>2, <1>3, <2>2
  <2> QED  BY <2>3, <2>4, <2>5
<1>9. ASSUME NEW i \in k + 1 .. Len(s) PROVE r[i + 1] = s[i]
  <2>1. /\ i - k \in 1 .. Len(s) - k /\ k + 1 + (i - k) = i + 1
        /\ k + (i - k) = i
    BY <1>2, <1>3
  <2>2. Len(f) = k /\ Len(g) = Len(s) - k
    BY <1>4, <1>5
  <2>3. r[k + 1 + (i - k)] = g[i - k]
    BY <1>7, <2>1, <2>2
  <2>4. g[i - k] = s[k + (i - k)]
    BY <1>5, <2>1
  <2> QED  BY <2>1, <2>3, <2>4
<1>10. Sorted(r)
  <2> SUFFICES ASSUME NEW j \in 1 .. Len(s) + 1, NEW m \in 1 .. Len(s) + 1, j < m
               PROVE  r[j].time >= r[m].time
    BY <1>8 DEF Sorted
  <2>1. CASE m <= k
    BY <1>1, <1>3, <1>8, <2>1 DEF Sorted
  <2>2. CASE m = k + 1
    BY <1>1, <1>3, <1>8, <2>2
  <2>3. CASE m > k + 1
    <3>1. m - 1 \in k + 1 .. Len(s) /\ r[m] = s[m - 1]
      <4>1. m - 1 \in k + 1 .. Len(s) /\ (m - 1) + 1 = m
        BY <1>1, <1>3, <2>3
      <4> QED  BY <1>9, <4>1
    <3>2. CASE j <= k
      <4>1. r[j] = s[j] /\ s[j].time >= e.time /\ j \in 1 .. Len(s)
        BY <1>1, <1>2, <1>3, <1>8, <3>2
      <4>2. s[m - 1].time < e.time /\ m - 1 \in 1 .. Len(s)
        BY <1>1, <1>2, <1>3, <3>1
      <4>3. s[j].time \in Nat /\ s[m - 1].time \in Nat
        BY <1>3, <4>1, <4>2
      <4> QED  BY <1>3, <3>1, <4>1, <4>2, <4>3
    <3>3. CASE j = k + 1
      BY <1>1, <1>3, <1>8, <3>1, <3>3
    <3>4. CASE j > k + 1
      <4>1. j - 1 \in k + 1 .. Len(s) /\ (j - 1) + 1 = j
        BY <1>1, <1>3, <3>4, <3>1
      <4>2. r[j] = s[j - 1]
        BY <1>9, <4>1
      <4> QED  BY <1>1, <1>3, <3>1, <4>1, <4>2 DEF Sorted
    <3> QED  BY <1>1, <3>2, <3>3, <3>4
  <2> QED  BY <1>1, <2>1, <2>2, <2>3
<1> QED  BY <1>1, <1>6, <1>7, <1>8, <1>9, <1>10

-----------------------------------------------------------------------------
(* The array                                                               *)

\* The parts of TypeOK and OneEventEach that speak of the array, for any array.
ArrayOK(bs) ==
  /\ bs \in [Positions -> Seq(Events)]
  /\ \A b \in Positions :
       /\ \A k \in 1..Len(bs[b]) : BucketOf(bs[b][k].time) = b
       /\ Sorted(bs[b])

Holds(bs, e) == \E b \in Positions : \E k \in 1..Len(bs[b]) : bs[b][k] = e

Single(bs) ==
  \A b, c \in Positions :
    \A j \in 1..Len(bs[b]), k \in 1..Len(bs[c]) : bs[b][j].pos = bs[c][k].pos => b = c /\ j = k

LEMMA ArrayFacts ==
  ASSUME NEW bs, ArrayOK(bs), NEW b \in Positions
  PROVE  /\ bs[b] \in Seq(Events) /\ Len(bs[b]) \in Nat /\ Sorted(bs[b])
         /\ \A k \in 1..Len(bs[b]) :
              bs[b][k] \in Events /\ bs[b][k].time \in Nat /\ BucketOf(bs[b][k].time) = b
<1>1. bs[b] \in Seq(Events) /\ Sorted(bs[b])
  BY DEF ArrayOK
<1>2. Len(bs[b]) \in Nat /\ \A k \in 1..Len(bs[b]) : bs[b][k] \in Events
  BY <1>1, LenProperties, ElementOfSeq
<1> QED  BY <1>1, <1>2, EventFacts DEF ArrayOK

\* Push adds one event and disturbs no other.
LEMMA PushFacts ==
  ASSUME NEW bs, ArrayOK(bs), NEW e \in Events
  PROVE  /\ ArrayOK(Push(bs, e))
         /\ \A x : Holds(Push(bs, e), x) <=> Holds(bs, x) \/ x = e
         /\ Single(bs) /\ (\A x : Holds(bs, x) => x.pos # e.pos) => Single(Push(bs, e))
<1> DEFINE p == BucketOf(e.time)
           new == Inserted(bs[p], e)
<1>1. p \in Positions
  BY EventFacts, BucketOfInPositions
<1>2. bs[p] \in Seq(Events) /\ Len(bs[p]) \in Nat /\ Sorted(bs[p])
  BY <1>1, ArrayFacts
<1>3. new \in Seq(Events) /\ Sorted(new)
  BY <1>2, InsertedFacts
<1>4. PICK k \in 0 .. Len(bs[p]) :
        /\ Len(new) = Len(bs[p]) + 1
        /\ \A i \in 1 .. k : new[i] = bs[p][i]
        /\ new[k + 1] = e
        /\ \A i \in k + 1 .. Len(bs[p]) : new[i + 1] = bs[p][i]
  BY <1>2, InsertedFacts
<1>5. Push(bs, e) = [bs EXCEPT ![p] = new]
  BY DEF Push
<1>6. bs \in [Positions -> Seq(Events)]
  BY DEF ArrayOK
<1> HIDE DEF p, new
<1>7. /\ Push(bs, e) \in [Positions -> Seq(Events)]
      /\ Push(bs, e)[p] = new
      /\ \A b \in Positions : b # p => Push(bs, e)[b] = bs[b]
  BY <1>1, <1>3, <1>5, <1>6
\* Where an event of the new bucket was before.
<1> DEFINE old(i) == IF i <= k THEN i ELSE i - 1
<1>8. ASSUME NEW i \in 1 .. Len(new), i # k + 1
      PROVE  old(i) \in 1 .. Len(bs[p]) /\ new[i] = bs[p][old(i)]
  <2>1. CASE i <= k
    BY <1>2, <1>4, <2>1
  <2>2. CASE i > k + 1
    <3>1. i - 1 \in k + 1 .. Len(bs[p]) /\ (i - 1) + 1 = i
      BY <1>2, <1>4, <2>2
    <3>2. new[(i - 1) + 1] = bs[p][i - 1]
      BY <1>4, <3>1
    <3> QED  BY <1>2, <1>4, <2>2, <3>1, <3>2
  <2> QED  BY <1>2, <1>4, <1>8, <2>1, <2>2
<1>9. ASSUME NEW i \in 1 .. Len(bs[p])
      PROVE  \E m \in 1 .. Len(new) : new[m] = bs[p][i]
  <2>1. CASE i <= k
    BY <1>2, <1>4, <2>1
  <2>2. CASE i > k
    <3>1. i \in k + 1 .. Len(bs[p]) /\ i + 1 \in 1 .. Len(new)
      BY <1>2, <1>4, <2>2
    <3> QED  BY <1>4, <3>1
  <2> QED  BY <1>2, <1>4, <2>1, <2>2
<1>10. k + 1 \in 1 .. Len(new) /\ new[k + 1] = e
  BY <1>2, <1>4
<1> HIDE DEF old
<1>11. ArrayOK(Push(bs, e))
  <2>1. ASSUME NEW i \in 1 .. Len(new) PROVE BucketOf(new[i].time) = p
    BY <1>1, <1>8, <1>10, <2>1, ArrayFacts DEF p
  <2>2. ASSUME NEW b \in Positions
        PROVE  /\ \A i \in 1..Len(Push(bs, e)[b]) : BucketOf(Push(bs, e)[b][i].time) = b
               /\ Sorted(Push(bs, e)[b])
    <3>1. CASE b = p
      BY <1>3, <1>7, <2>1, <3>1
    <3>2. CASE b # p
      BY <1>7, <3>2, ArrayFacts
    <3> QED  BY <3>1, <3>2
  <2> QED  BY <1>7, <2>2 DEF ArrayOK
<1>12. ASSUME NEW x
       PROVE  Holds(Push(bs, e), x) <=> Holds(bs, x) \/ x = e
  <2>1. ASSUME Holds(Push(bs, e), x) PROVE Holds(bs, x) \/ x = e
    <3>0. PICK b \in Positions : \E i \in 1 .. Len(Push(bs, e)[b]) : Push(bs, e)[b][i] = x
      BY <2>1 DEF Holds
    <3>1. PICK i \in 1 .. Len(Push(bs, e)[b]) : Push(bs, e)[b][i] = x
      BY <3>0
    <3>2. CASE b # p
      BY <1>7, <3>1, <3>2 DEF Holds
    <3>3. CASE b = p
      BY <1>1, <1>7, <1>8, <1>10, <3>1, <3>3 DEF Holds
    <3> QED  BY <3>2, <3>3
  <2>2. ASSUME Holds(bs, x) PROVE Holds(Push(bs, e), x)
    <3>0. PICK b \in Positions : \E i \in 1 .. Len(bs[b]) : bs[b][i] = x
      BY <2>2 DEF Holds
    <3>1. PICK i \in 1 .. Len(bs[b]) : bs[b][i] = x
      BY <3>0
    <3>2. CASE b # p
      BY <1>7, <3>1, <3>2 DEF Holds
    <3>3. CASE b = p
      BY <1>1, <1>7, <1>9, <3>1, <3>3 DEF Holds
    <3> QED  BY <3>2, <3>3
  <2>3. Holds(Push(bs, e), e)
    BY <1>1, <1>7, <1>10 DEF Holds
  <2> QED  BY <2>1, <2>2, <2>3
<1>13. ASSUME Single(bs), \A x : Holds(bs, x) => x.pos # e.pos
       PROVE  Single(Push(bs, e))
  <2> SUFFICES ASSUME NEW b \in Positions, NEW c \in Positions,
                      NEW i \in 1..Len(Push(bs, e)[b]), NEW m \in 1..Len(Push(bs, e)[c]),
                      Push(bs, e)[b][i].pos = Push(bs, e)[c][m].pos
               PROVE  b = c /\ i = m
    BY DEF Single
  <2>1. \A d \in Positions : \A n \in 1..Len(bs[d]) : bs[d][n].pos # e.pos
    BY <1>13 DEF Holds
  <2>2. CASE b # p /\ c # p
    BY <1>7, <1>13, <2>2 DEF Single
  \* No event of another bucket has the agent of one of the new bucket.
  <2>3. ASSUME NEW d \in Positions, d # p, NEW n \in 1..Len(bs[d]), NEW q \in 1..Len(new)
        PROVE  new[q].pos # bs[d][n].pos
    <3>1. CASE q = k + 1
      BY <1>10, <2>1, <2>3, <3>1
    <3>2. CASE q # k + 1
      <4>1. old(q) \in 1 .. Len(bs[p]) /\ new[q] = bs[p][old(q)]
        BY <1>8, <2>3, <3>2
      <4> QED  BY <1>1, <1>13, <2>3, <4>1 DEF Single
    <3> QED  BY <3>1, <3>2
  <2>4. CASE b = p /\ c # p
    BY <1>7, <2>3, <2>4
  <2>5. CASE b # p /\ c = p
    BY <1>7, <2>3, <2>5
  <2>6. CASE b = p /\ c = p
    <3>1. i \in 1 .. Len(new) /\ m \in 1 .. Len(new) /\ new[i].pos = new[m].pos
      BY <1>7, <2>6
    <3>2. CASE i = k + 1 \/ m = k + 1
      BY <1>1, <1>8, <1>10, <2>1, <2>6, <3>1, <3>2
    <3>3. CASE i # k + 1 /\ m # k + 1
      <4>1. old(i) = old(m)
        <5>1. /\ old(i) \in 1 .. Len(bs[p]) /\ new[i] = bs[p][old(i)]
              /\ old(m) \in 1 .. Len(bs[p]) /\ new[m] = bs[p][old(m)]
          BY <1>8, <3>1, <3>3
        <5>2. \A x, y \in 1 .. Len(bs[p]) : bs[p][x].pos = bs[p][y].pos => x = y
          BY <1>1, <1>13 DEF Single
        <5>3. bs[p][old(i)].pos = bs[p][old(m)].pos
          BY <3>1, <5>1
        <5> QED  BY <5>1, <5>2, <5>3
      <4> QED  BY <1>2, <1>4, <2>6, <3>1, <3>3, <4>1 DEF old
    <3> QED  BY <3>2, <3>3
  <2> QED  BY <2>2, <2>4, <2>5, <2>6
<1> QED  BY <1>11, <1>12, <1>13

\* The array without the last event of a bucket.
Popped(bs, p) == [bs EXCEPT ![p] = Front(@)]

\* Pop takes the last event of a bucket, which no event of the bucket is earlier
\* than, and disturbs no other.
LEMMA PopFacts ==
  ASSUME NEW bs, ArrayOK(bs), NEW p \in Positions, bs[p] # <<>>
  PROVE  /\ Last(bs[p]) \in Events /\ Holds(bs, Last(bs[p])) /\ BucketOf(Last(bs[p]).time) = p
         /\ \A k \in 1..Len(bs[p]) : Last(bs[p]).time <= bs[p][k].time
         /\ ArrayOK(Popped(bs, p))
         /\ \A x : Holds(Popped(bs, p), x) => Holds(bs, x)
         /\ \A x : Holds(bs, x) => Holds(Popped(bs, p), x) \/ x = Last(bs[p])
         /\ Single(bs) =>
              Single(Popped(bs, p)) /\ \A x : Holds(Popped(bs, p), x) => x.pos # Last(bs[p]).pos
<1> DEFINE n == Len(bs[p])
           popped == Popped(bs, p)
           last == Last(bs[p])
<1>1. /\ bs[p] \in Seq(Events) /\ Sorted(bs[p])
      /\ \A k \in 1..n :
           bs[p][k] \in Events /\ bs[p][k].time \in Nat /\ BucketOf(bs[p][k].time) = p
  BY ArrayFacts
<1>2. n \in Nat \ {0}
  BY <1>1, EmptySeq, LenProperties
<1>3. last = bs[p][n] /\ n \in 1..n
  BY <1>2 DEF Last
<1> HIDE DEF last
<1>4. /\ Front(bs[p]) \in Seq(Events) /\ Len(Front(bs[p])) = n - 1
      /\ \A k \in 1..n - 1 : Front(bs[p])[k] = bs[p][k]
  <2>1. Front(bs[p]) = SubSeq(bs[p], 1, n - 1)
    BY DEF Front
  <2> QED  BY <1>1, <1>2, <2>1, SubSeqProperties
<1>5. bs \in [Positions -> Seq(Events)]
  BY DEF ArrayOK
<1>6. /\ popped \in [Positions -> Seq(Events)]
      /\ popped[p] = Front(bs[p])
      /\ \A b \in Positions : b # p => popped[b] = bs[b]
  BY <1>4, <1>5 DEF Popped
<1> HIDE DEF popped
<1> HIDE DEF n
<1>7. ASSUME NEW b \in Positions, NEW k \in 1..Len(popped[b])
      PROVE  k \in 1..Len(bs[b]) /\ popped[b][k] = bs[b][k] /\ (b = p => k # n)
  <2>1. CASE b = p
    BY <1>2, <1>4, <1>6, <2>1 DEF n
  <2>2. CASE b # p
    BY <1>6, <2>2
  <2> QED  BY <2>1, <2>2
<1>8. Holds(bs, last)
  BY <1>3 DEF Holds, n
<1>9. ASSUME NEW k \in 1..Len(bs[p]) PROVE last.time <= bs[p][k].time
  <2>1. k \in 1..n /\ bs[p][k].time \in Nat /\ Len(bs[p]) = n
    BY <1>1 DEF n
  <2>2. k = n \/ k < n
    BY <1>2, <2>1
  <2>3. k < n => bs[p][k].time >= bs[p][n].time
    BY <1>1, <1>3, <2>1 DEF Sorted
  <2> QED  BY <1>1, <1>3, <2>1, <2>2, <2>3
<1>10. ArrayOK(popped)
  <2>1. ASSUME NEW b \in Positions
        PROVE  /\ \A k \in 1..Len(popped[b]) : BucketOf(popped[b][k].time) = b
               /\ Sorted(popped[b])
    <3>1. \A k \in 1..Len(popped[b]) : BucketOf(popped[b][k].time) = b
      BY <1>7, ArrayFacts
    <3>2. Sorted(popped[b])
      <4> SUFFICES ASSUME NEW j \in 1..Len(popped[b]), NEW k \in 1..Len(popped[b]), j < k
                   PROVE  popped[b][j].time >= popped[b][k].time
        BY DEF Sorted
      <4>1. /\ j \in 1..Len(bs[b]) /\ popped[b][j] = bs[b][j]
            /\ k \in 1..Len(bs[b]) /\ popped[b][k] = bs[b][k]
        BY <1>7
      <4>2. Sorted(bs[b])
        BY ArrayFacts
      <4> QED  BY <4>1, <4>2 DEF Sorted
    <3> QED  BY <3>1, <3>2
  <2> QED  BY <1>6, <2>1 DEF ArrayOK
<1>11. ASSUME NEW x, Holds(popped, x) PROVE Holds(bs, x)
  BY <1>7, <1>11 DEF Holds
<1>12. ASSUME NEW x, Holds(bs, x) PROVE Holds(popped, x) \/ x = last
  <2>1. PICK b \in Positions : \E k \in 1..Len(bs[b]) : bs[b][k] = x
    BY <1>12 DEF Holds
  <2>2. PICK k \in 1..Len(bs[b]) : bs[b][k] = x
    BY <2>1
  <2>3. CASE b = p /\ k = n
    BY <1>3, <2>2, <2>3
  <2>4. CASE b = p /\ k # n
    <3>1. k \in 1..n - 1
      BY <1>2, <2>4 DEF n
    <3> QED  BY <1>4, <1>6, <2>2, <2>4, <3>1 DEF Holds
  <2>5. CASE b # p
    BY <1>6, <2>2, <2>5 DEF Holds
  <2> QED  BY <2>3, <2>4, <2>5
<1>13. ASSUME Single(bs)
       PROVE  Single(popped) /\ \A x : Holds(popped, x) => x.pos # last.pos
  <2>1. Single(popped)
    <3> SUFFICES ASSUME NEW b \in Positions, NEW c \in Positions,
                        NEW j \in 1..Len(popped[b]), NEW k \in 1..Len(popped[c]),
                        popped[b][j].pos = popped[c][k].pos
                 PROVE  b = c /\ j = k
      BY DEF Single
    <3>1. /\ j \in 1..Len(bs[b]) /\ popped[b][j] = bs[b][j]
          /\ k \in 1..Len(bs[c]) /\ popped[c][k] = bs[c][k]
      BY <1>7
    <3>2. bs[b][j].pos = bs[c][k].pos
      BY <3>1
    <3> HIDE DEF Single
    <3>3. \A u, v \in Positions : \A x \in 1..Len(bs[u]), y \in 1..Len(bs[v]) :
            bs[u][x].pos = bs[v][y].pos => u = v /\ x = y
      BY <1>13 DEF Single
    <3> QED  BY <3>1, <3>2, <3>3
  <2>2. ASSUME NEW b \in Positions, NEW k \in 1..Len(popped[b])
        PROVE  popped[b][k].pos # last.pos
    <3>1. k \in 1..Len(bs[b]) /\ popped[b][k] = bs[b][k] /\ (b = p => k # n)
      BY <1>7
    <3>2. n \in 1..Len(bs[p]) /\ last = bs[p][n]
      BY <1>3 DEF n
    <3> QED  BY <1>13, <3>1, <3>2 DEF Single
  <2> QED  BY <2>1, <2>2 DEF Holds
<1> QED  BY <1>1, <1>3, <1>8, <1>9, <1>10, <1>11, <1>12, <1>13 DEF n, popped, last

LEMMA QueuedIsHeld ==
  ASSUME NEW x
  PROVE  /\ ArrayOK(buckets) => (x \in Queued <=> Holds(buckets, x))
         /\ ArrayOK(buckets') => (x \in Queued' <=> Holds(buckets', x))
<1>1. ASSUME ArrayOK(buckets) PROVE x \in Queued <=> Holds(buckets, x)
  <2>1. \A b \in Positions : DOMAIN buckets[b] = 1..Len(buckets[b])
    BY <1>1, ArrayFacts, LenProperties
  <2> QED  BY <2>1 DEF Queued, Holds, Range
<1>2. ASSUME ArrayOK(buckets') PROVE x \in Queued' <=> Holds(buckets', x)
  <2>1. \A b \in Positions : DOMAIN buckets'[b] = 1..Len(buckets'[b])
    BY <1>2, ArrayFacts, LenProperties
  <2> QED  BY <2>1 DEF Queued, Holds, Range
<1> QED  BY <1>1, <1>2

-----------------------------------------------------------------------------
(* The steps                                                               *)

\* Before the clock has run out, no event is later than it can still be
\* scheduled by a turn.
NoneTooLate ==
  now < MaxTime => \A e \in Queued : e.time <= MaxTime * Resolution + MaxDelay

QueueInv == TypeOK /\ OneEventEach /\ NoneTooLate

LEMMA ProductOrders ==
  ASSUME NEW p \in Nat, NEW q \in Nat, p <= q
  PROVE  p * Resolution \in Nat /\ q * Resolution \in Nat /\ p * Resolution <= q * Resolution
<1>1. q * Resolution - p * Resolution = (q - p) * Resolution /\ (q - p) * Resolution >= 0
  BY SMTT(20)
<1>2. p * Resolution \in Nat /\ q * Resolution \in Nat
  BY SMTT(20)
<1> QED  BY <1>1, <1>2

LEMMA TypeFacts ==
  ASSUME TypeOK
  PROVE  /\ ArrayOK(buckets)
         /\ head \in Positions /\ warmed \in 0..NAgents /\ now \in Nat /\ event \in Events
BY DEF TypeOK, ArrayOK, Sorted

LEMMA TypeFactsNext ==
  ASSUME ArrayOK(buckets'),
         head' \in Positions, warmed' \in 0..NAgents, now' \in Nat, event' \in Events
  PROVE  TypeOK'
BY DEF TypeOK, ArrayOK, Sorted

LEMMA QueuedIsEvent ==
  ASSUME TypeOK, NEW x \in Queued
  PROVE  x \in Events
<1>1. ArrayOK(buckets)
  BY TypeFacts
<1>2. PICK c \in Positions : \E k \in 1..Len(buckets[c]) : buckets[c][k] = x
  BY <1>1, QueuedIsHeld DEF Holds
<1> QED  BY <1>1, <1>2, ArrayFacts

\* While an event is queued Pop finds the bucket that is nearest to head_.
LEMMA NextBucketFacts ==
  ASSUME TypeOK, OneEventEach, warmed = NAgents
  PROVE  /\ NextBucket \in Positions
         /\ buckets[NextBucket] # <<>>
         /\ \A c \in Positions :
              buckets[c] # <<>> => (NextBucket - head) % Buckets <= (c - head) % Buckets
<1> DEFINE full == {b \in Positions : buckets[b] # <<>>}
           away(b) == (b - head) % Buckets
           S == {away(b) : b \in full}
<1>1. ArrayOK(buckets) /\ head \in Positions
  BY TypeFacts
<1>2. full # {}
  <2>1. 1 \in {e.pos : e \in Queued}
    BY DEF OneEventEach
  <2>2. PICK e \in Queued : e.pos = 1
    BY <2>1
  <2>3. PICK b \in Positions : \E k \in 1..Len(buckets[b]) : buckets[b][k] = e
    BY <1>1, QueuedIsHeld DEF Holds
  <2>4. Len(buckets[b]) # 0
    BY <1>1, <2>3, ArrayFacts
  <2>5. buckets[b] # <<>>
    BY <2>4
  <2> QED  BY <2>5
<1>3. S \in SUBSET Nat
  <2>1. ASSUME NEW b \in Positions PROVE away(b) \in Nat
    <3>1. b - head \in Int
      BY <1>1 DEF Positions
    <3>2. away(b) \in 0 .. Buckets - 1
      BY <3>1, DivisionFacts
    <3> QED  BY <3>2
  <2> HIDE DEF away
  <2> QED  BY <2>1
<1> HIDE DEF away
<1>4. PICK least \in S : \A y \in S : least <= y
  <2>1. S # {}
    BY <1>2
  <2> HIDE DEF S
  <2> QED  BY <1>3, <2>1, LeastExists
<1>5. PICK b \in full : away(b) = least
  BY <1>4
<1>6. /\ b \in Positions /\ buckets[b] # <<>>
      /\ \A c \in Positions : buckets[c] # <<>> => away(b) <= away(c)
  BY <1>4, <1>5
<1> QED  BY <1>6 DEF NextBucket, away

\* WarmUp adds the event of one more agent.
LEMMA WarmUpFacts ==
  ASSUME TypeOK, OneEventEach, NEW d \in Delays, WarmUp(d),
         NEW e, e = [time |-> d, pos |-> warmed + 1]
  PROVE  /\ e \in Events
         /\ ArrayOK(buckets') /\ Single(buckets')
         /\ \A x : x \in Queued' <=> x \in Queued \/ x = e
         /\ warmed' = warmed + 1 /\ warmed' \in 0..NAgents
<1>1. ArrayOK(buckets) /\ Single(buckets) /\ warmed \in 0..NAgents
  BY TypeFacts DEF OneEventEach, Single
<1>2. warmed' = warmed + 1 /\ warmed' \in 0..NAgents /\ buckets' = Push(buckets, e)
  BY <1>1 DEF WarmUp
<1>3. e \in Events
  <2>1. MaxTime * Resolution \in Nat
    BY ProductOrders
  <2>2. d \in Times
    BY <2>1 DEF Delays, Times
  <2>3. warmed + 1 \in Agents
    BY <1>1 DEF WarmUp, Agents
  <2> QED  BY <2>2, <2>3 DEF Events
<1>4. \A x : Holds(buckets, x) => x.pos # e.pos
  <2>1. ASSUME NEW x \in Queued PROVE x.pos # warmed + 1
    <3>1. x.pos \in 1..warmed
      BY DEF OneEventEach
    <3> QED  BY <1>1, <3>1
  <2> QED  BY <1>1, <2>1, QueuedIsHeld
<1>5. /\ ArrayOK(buckets') /\ Single(buckets')
      /\ \A x : Holds(buckets', x) <=> Holds(buckets, x) \/ x = e
  BY <1>1, <1>2, <1>3, <1>4, PushFacts
<1> QED  BY <1>1, <1>2, <1>3, <1>5, QueuedIsHeld

\* A turn replaces the event it pops by a later one of the same agent.
LEMMA TurnFacts ==
  ASSUME QueueInv, NEW d \in Delays, Turn(d),
         NEW e, e = [time |-> now' * Resolution + d, pos |-> event'.pos]
  PROVE  /\ event' \in Queued /\ event' \in Events
         /\ head' \in Positions /\ BucketOf(event'.time) = head'
         /\ \A k \in 1..Len(buckets[head']) : event'.time <= buckets[head'][k].time
         /\ now' = Unit(event'.time) /\ now' \in Nat
         /\ e \in Events /\ e.time <= event'.time + MaxDelay
         /\ ArrayOK(buckets') /\ Single(buckets')
         /\ \A x : x \in Queued' <=> (x \in Queued /\ x # event') \/ x = e
<1> DEFINE popped == Popped(buckets, head')
<1>1. /\ ArrayOK(buckets) /\ Single(buckets)
      /\ warmed = NAgents /\ now < MaxTime /\ now \in Nat
      /\ head' = NextBucket /\ event' = Last(buckets[head']) /\ now' = Unit(event'.time)
      /\ buckets' = Push(popped, e)
  BY TypeFacts DEF QueueInv, OneEventEach, Single, Turn, Without, Popped
<1>2. head' \in Positions /\ buckets[head'] # <<>>
  BY <1>1, NextBucketFacts DEF QueueInv
<1> HIDE DEF popped
<1>4. /\ event' \in Events /\ Holds(buckets, event') /\ BucketOf(event'.time) = head'
      /\ \A k \in 1..Len(buckets[head']) : event'.time <= buckets[head'][k].time
      /\ ArrayOK(popped) /\ Single(popped)
      /\ \A x : Holds(popped, x) => Holds(buckets, x) /\ x.pos # event'.pos
      /\ \A x : Holds(buckets, x) => Holds(popped, x) \/ x = event'
  BY <1>1, <1>2, PopFacts DEF popped
<1>5. event' \in Queued
  BY <1>1, <1>4, QueuedIsHeld
<1>6. now' \in Nat /\ now' * Resolution <= event'.time /\ now' * Resolution \in Nat
  <2>1. event'.time \in Nat
    BY <1>4, EventFacts
  <2>2. now' \in Nat /\ now' * Resolution <= event'.time
    BY <1>1, <2>1, UnitFacts
  <2>3. \A n \in Nat : n * Resolution \in Nat
    BY ProductOrders
  <2> QED  BY <2>2, <2>3
<1>7. e \in Events /\ e.time <= event'.time + MaxDelay
  <2>1. event'.time <= MaxTime * Resolution + MaxDelay /\ MaxTime * Resolution \in Nat
    BY <1>1, <1>5, ProductOrders DEF QueueInv, NoneTooLate
  <2>2. event'.time \in Nat /\ event'.pos \in Agents
    BY <1>4, EventFacts
  <2>3. e.time = now' * Resolution + d /\ e.pos = event'.pos
    OBVIOUS
  <2>4. d \in Nat /\ d <= MaxDelay
    BY DEF Delays
  <2>5. now' * Resolution + d \in Times /\ now' * Resolution + d <= event'.time + MaxDelay
    <3> DEFINE start == now' * Resolution
               end == MaxTime * Resolution
    <3>1. /\ start \in Nat /\ end \in Nat /\ start <= event'.time
          /\ event'.time <= end + MaxDelay
      BY <1>6, <2>1
    <3> HIDE DEF start, end
    <3>2. start + d \in 0..(end + 2 * MaxDelay) /\ start + d <= event'.time + MaxDelay
      BY <2>2, <2>4, <3>1
    <3> QED  BY <3>2 DEF Times, start, end
  <2> QED  BY <2>2, <2>5 DEF Events
<1>8. /\ ArrayOK(buckets') /\ Single(buckets')
      /\ \A x : Holds(buckets', x) <=> Holds(popped, x) \/ x = e
  <2>1. \A x : Holds(popped, x) => x.pos # e.pos
    BY <1>4
  <2> QED  BY <1>1, <1>4, <1>7, <2>1, PushFacts
<1>9. \A x : x \in Queued' <=> (x \in Queued /\ x # event') \/ x = e
  <2>1. \A x : Holds(popped, x) <=> Holds(buckets, x) /\ x # event'
    BY <1>4
  <2> QED  BY <1>1, <1>8, <2>1, QueuedIsHeld
<1> QED  BY <1>1, <1>2, <1>4, <1>5, <1>6, <1>7, <1>8, <1>9

-----------------------------------------------------------------------------
(* The invariant                                                           *)

LEMMA QueueInitially == Init => QueueInv
<1> SUFFICES ASSUME Init PROVE QueueInv
  OBVIOUS
<1>1. /\ 0 \in Positions /\ 0 \in 0..NAgents /\ 0 \in Nat
      /\ [time |-> 0, pos |-> 1] \in Events
  <2>1. MaxTime * Resolution \in Nat
    BY ProductOrders
  <2>2. 0 \in Times /\ 1 \in Agents
    BY <2>1 DEF Times, Agents
  <2> QED  BY <2>2 DEF Positions, Events
<1>2. /\ buckets \in [Positions -> Seq(Events)]
      /\ \A b \in Positions : buckets[b] = <<>> /\ Len(buckets[b]) = 0
  BY DEF Init
<1>3. ArrayOK(buckets)
  BY <1>2 DEF ArrayOK, Sorted
<1>4. TypeOK
  BY <1>1, <1>2 DEF Init, TypeOK
<1>5. Queued = {}
  BY <1>2, <1>3, QueuedIsHeld DEF Holds
<1>6. OneEventEach
  BY <1>2, <1>5 DEF OneEventEach, Init
<1> QED  BY <1>4, <1>5, <1>6 DEF QueueInv, NoneTooLate

LEMMA WarmUpKeepsQueue ==
  ASSUME QueueInv, NEW d \in Delays, WarmUp(d)
  PROVE  QueueInv'
<1> DEFINE e == [time |-> d, pos |-> warmed + 1]
<1>1. /\ e \in Events
      /\ ArrayOK(buckets') /\ Single(buckets')
      /\ \A x : x \in Queued' <=> x \in Queued \/ x = e
      /\ warmed' = warmed + 1 /\ warmed' \in 0..NAgents
  BY WarmUpFacts DEF QueueInv
<1>2. TypeOK'
  <2>1. /\ head \in Positions /\ now \in Nat /\ event \in Events
        /\ head' = head /\ now' = now /\ event' = event
    BY TypeFacts DEF QueueInv, WarmUp
  <2> QED  BY <1>1, <2>1, TypeFactsNext
<1>3. OneEventEach'
  <2>1. {x.pos : x \in Queued'} = {x.pos : x \in Queued} \cup {warmed + 1}
    BY <1>1
  <2>2. {x.pos : x \in Queued} = 1..warmed /\ warmed \in 0..NAgents
    BY TypeFacts DEF QueueInv, OneEventEach
  <2>3. {x.pos : x \in Queued'} = 1..warmed'
    BY <1>1, <2>1, <2>2
  <2> QED  BY <1>1, <2>3 DEF OneEventEach, Single
<1>4. NoneTooLate'
  <2>1. MaxTime * Resolution \in Nat /\ d \in Nat /\ d <= MaxDelay
    BY ProductOrders DEF Delays
  <2>2. e.time <= MaxTime * Resolution + MaxDelay
    BY <2>1
  <2>3. now' = now
    BY DEF WarmUp
  <2> QED  BY <1>1, <2>2, <2>3 DEF QueueInv, NoneTooLate
<1> QED  BY <1>2, <1>3, <1>4 DEF QueueInv

LEMMA TurnKeepsQueue ==
  ASSUME QueueInv, NEW d \in Delays, Turn(d)
  PROVE  QueueInv'
<1> DEFINE e == [time |-> now' * Resolution + d, pos |-> event'.pos]
<1>1. /\ event' \in Queued /\ event' \in Events
      /\ head' \in Positions
      /\ now' = Unit(event'.time) /\ now' \in Nat
      /\ e \in Events
      /\ ArrayOK(buckets') /\ Single(buckets')
      /\ \A x : x \in Queued' <=> (x \in Queued /\ x # event') \/ x = e
  BY TurnFacts
<1>2. TypeOK'
  <2>1. warmed' = warmed /\ warmed \in 0..NAgents
    BY TypeFacts DEF QueueInv, Turn
  <2> QED  BY <1>1, <2>1, TypeFactsNext
<1>3. OneEventEach'
  <2>1. e.pos = event'.pos
    OBVIOUS
  <2>2. {x.pos : x \in Queued'} = {x.pos : x \in Queued}
    BY <1>1, <2>1
  <2>3. warmed' = warmed
    BY DEF Turn
  <2> QED  BY <1>1, <2>2, <2>3 DEF QueueInv, OneEventEach, Single
<1>4. NoneTooLate'
  <2> SUFFICES ASSUME now' < MaxTime, NEW x \in Queued'
               PROVE  x.time <= MaxTime * Resolution + MaxDelay
    BY DEF NoneTooLate
  <2>1. CASE x \in Queued
    BY <2>1 DEF QueueInv, NoneTooLate, Turn
  <2>2. CASE x = e
    <3>1. d \in Nat /\ d <= MaxDelay
      BY DEF Delays
    <3>2. /\ now' * Resolution \in Nat /\ MaxTime * Resolution \in Nat
          /\ now' * Resolution <= MaxTime * Resolution
      BY <1>1, ProductOrders
    <3>3. x.time = now' * Resolution + d
      BY <2>2
    <3> QED  BY <3>1, <3>2, <3>3
  <2> QED  BY <1>1, <2>1, <2>2
<1> QED  BY <1>2, <1>3, <1>4 DEF QueueInv

LEMMA QueueStutters ==
  ASSUME QueueInv, UNCHANGED vars
  PROVE  QueueInv'
BY DEF QueueInv, vars, TypeOK, OneEventEach, NoneTooLate, Queued

LEMMA QueueInvariant == Spec => []QueueInv
<1>1. Init => QueueInv
  BY QueueInitially
<1>2. QueueInv /\ [Next]_vars => QueueInv'
  BY WarmUpKeepsQueue, TurnKeepsQueue, QueueStutters DEF Next
<1> QED  BY <1>1, <1>2, PTL DEF Spec

\* Every event stays in the bucket of its time, and the buckets stay sorted: no
\* delay and no number of turns brings Push and Pop apart
\* (CalenderQueue.h:30-57).
THEOREM QueueTypes == Spec => []TypeOK
BY QueueInvariant, PTL DEF QueueInv

\* No agent is lost from the queue and none is in it twice, also when a delay
\* reaches around the array (AgentManager.cpp:24-46).
THEOREM QueueHoldsEachOnce == Spec => []OneEventEach
BY QueueInvariant, PTL DEF QueueInv

-----------------------------------------------------------------------------
(* Delays that do not reach around the array                               *)

\* Every queued event is less than a turn of the array ahead of the clock, whose
\* bucket Pop searches from.
Window ==
  /\ warmed < NAgents => now = 0
  /\ head = now % Buckets
  /\ \A e \in Queued : now <= Unit(e.time) /\ Unit(e.time) < now + Buckets

\* A delay counts in whole units from the clock on.
LEMMA UnitAhead ==
  ASSUME MaxDelay < Buckets * Resolution, NEW n \in Nat, NEW d \in Delays
  PROVE  n <= Unit(n * Resolution + d) /\ Unit(n * Resolution + d) < n + Buckets
<1> DEFINE u == Unit(n * Resolution + d)
           q == Unit(d)
           t == n * Resolution + d
<1>1. /\ d \in Nat /\ d <= MaxDelay
      /\ n * Resolution = Resolution * n /\ n * Resolution \in Nat /\ t \in Nat
      /\ Buckets * Resolution = Resolution * Buckets /\ Resolution * Buckets \in Nat
  <2>1. n * Resolution \in Nat /\ Buckets * Resolution \in Nat
    BY ProductOrders
  <2>2. d \in Nat /\ d <= MaxDelay
    BY DEF Delays
  <2>3. n * Resolution = Resolution * n /\ Buckets * Resolution = Resolution * Buckets
    BY SMTT(20)
  <2> QED  BY <2>1, <2>2, <2>3
<1> HIDE DEF t
<1>2. /\ d = Resolution * q + (d % Resolution) /\ d % Resolution \in 0 .. Resolution - 1
      /\ q \in Nat
  BY <1>1, DivisionFacts, UnitFacts DEF Unit
<1>3. /\ t = Resolution * u + (t % Resolution) /\ t % Resolution \in 0 .. Resolution - 1
      /\ u \in Nat
  <2>1. u = Unit(t)
    BY DEF t
  <2> HIDE DEF u
  <2>2. u \in Nat /\ u = t \div Resolution
    BY <1>1, <2>1, UnitFacts DEF Unit
  <2>3. t = Resolution * (t \div Resolution) + (t % Resolution)
    BY <1>1, DivisionFacts
  <2>4. t % Resolution \in 0 .. Resolution - 1
    BY <1>1, DivisionFacts
  <2> QED  BY <2>2, <2>3, <2>4
<1> HIDE DEF u, q
<1> DEFINE r == d % Resolution
           s == t % Resolution
<1> HIDE DEF r, s
<1>4. Resolution * (n + q) = Resolution * n + Resolution * q
  <2>1. Resolution * (n + q) - Resolution * n = Resolution * ((n + q) - n)
    BY <1>2, DifferenceOfProducts
  <2>2. (n + q) - n = q
    BY <1>2
  <2>3. Resolution * (n + q) \in Int /\ Resolution * n \in Int /\ Resolution * q \in Int
    BY <1>2
  <2> QED  BY <2>1, <2>2, <2>3
<1>5. u = n + q
  <2>1. t = Resolution * n + (Resolution * q + r)
    BY <1>1, <1>2 DEF t, r
  <2>2. Resolution * n \in Int /\ Resolution * q \in Int /\ r \in 0 .. Resolution - 1
    BY <1>2 DEF r
  <2>3. Resolution * (n + q) + r = Resolution * u + s
    BY <1>3, <1>4, <2>1, <2>2 DEF s
  <2>4. s \in 0 .. Resolution - 1 /\ n + q \in Int /\ u \in Int
    BY <1>2, <1>3 DEF s
  <2> QED  BY <2>2, <2>3, <2>4, DivisionIsUnique
<1>6. q < Buckets
  <2>1. d < Resolution * Buckets
    BY <1>1
  <2>2. CASE Buckets < q
    <3>1. Resolution * Buckets + 0 < Resolution * q + r
      <4>1. r \in 0 .. Resolution - 1 /\ 0 \in 0 .. Resolution - 1
        BY <1>2 DEF r
      <4> QED  BY <1>2, <2>2, <4>1, QuotientOrders
    <3> QED  BY <1>1, <1>2, <2>1, <3>1 DEF r
  <2>3. CASE Buckets = q
    <3>1. Resolution * q = Resolution * Buckets /\ Resolution * Buckets \in Nat
      BY <1>1, <2>3
    <3> QED  BY <1>1, <1>2, <2>1, <3>1
  <2> QED  BY <1>2, <2>2, <2>3
<1> QED  BY <1>2, <1>5, <1>6 DEF u, t

\* In the window the nearest bucket with an event has the earliest unit, so that
\* the event popped is the earliest of all.
LEMMA TurnPopsEarliest ==
  ASSUME QueueInv, Window, NEW d \in Delays, Turn(d), NEW x \in Queued
  PROVE  event'.time <= x.time
<1> DEFINE e == [time |-> now' * Resolution + d, pos |-> event'.pos]
           u == Unit(event'.time)
           v == Unit(x.time)
<1>1. /\ event' \in Queued /\ event' \in Events
      /\ BucketOf(event'.time) = head'
      /\ \A k \in 1..Len(buckets[head']) : event'.time <= buckets[head'][k].time
  BY TurnFacts
<1>2. PICK c \in Positions : \E k \in 1..Len(buckets[c]) : buckets[c][k] = x
  BY TypeFacts, QueuedIsHeld DEF QueueInv, Holds
<1>3. PICK k \in 1..Len(buckets[c]) : buckets[c][k] = x
  BY <1>2
<1>4. x \in Events /\ BucketOf(x.time) = c /\ buckets[c] # <<>>
  <2>1. ArrayOK(buckets)
    BY TypeFacts DEF QueueInv
  <2>2. x \in Events /\ BucketOf(x.time) = c /\ Len(buckets[c]) # 0
    BY <1>3, <2>1, ArrayFacts
  <2> QED  BY <2>2
<1>5. event'.time \in Nat /\ x.time \in Nat /\ u \in Nat /\ v \in Nat /\ now \in Nat
  BY <1>1, <1>4, EventFacts, UnitFacts, TypeFacts DEF QueueInv
<1>6. now <= u /\ u < now + Buckets /\ now <= v /\ v < now + Buckets
  BY <1>1 DEF Window
<1>7. (head' - head) % Buckets <= (c - head) % Buckets
  BY <1>4, NextBucketFacts DEF QueueInv, Turn
<1>8. /\ head' = u % Buckets /\ c = v % Buckets /\ head = now % Buckets
  BY <1>1, <1>4 DEF Window, BucketOf
<1> HIDE DEF u, v
<1>9. (head' - head) % Buckets = u - now /\ (c - head) % Buckets = v - now
  <2>1. ASSUME NEW w \in Nat, now <= w, w < now + Buckets
        PROVE  ((w % Buckets) - (now % Buckets)) % Buckets = w - now
    <3>1. now \in Int /\ w \in Int /\ Buckets \in Nat \ {0}
      BY <1>5
    <3> QED  BY <2>1, <3>1, RemainderDistance
  <2>2. ((u % Buckets) - (now % Buckets)) % Buckets = u - now
    BY <1>5, <1>6, <2>1
  <2>3. ((v % Buckets) - (now % Buckets)) % Buckets = v - now
    BY <1>5, <1>6, <2>1
  <2> QED  BY <1>8, <2>2, <2>3
<1>10. u <= v
  BY <1>5, <1>7, <1>9
<1>11. CASE u = v
  <2>1. c = head'
    BY <1>8, <1>11
  <2> QED  BY <1>1, <1>3, <2>1
<1>12. CASE u < v
  <2>1. event'.time < x.time
    BY <1>5, <1>12, UnitIsMonotonic DEF u, v
  <2> QED  BY <1>5, <2>1
<1> QED  BY <1>5, <1>10, <1>11, <1>12

LEMMA UnitsInOrder ==
  ASSUME NEW t \in Nat, NEW u \in Nat, t <= u
  PROVE  Unit(t) <= Unit(u)
<1>1. Unit(t) \in Nat /\ Unit(u) \in Nat
  BY UnitFacts
<1>2. ~(Unit(u) < Unit(t))
  BY UnitIsMonotonic
<1> QED  BY <1>1, <1>2

LEMMA WindowInitially == Init => Window
<1> SUFFICES ASSUME Init PROVE Window
  OBVIOUS
<1>1. Queued = {}
  <2>1. \A b \in Positions : Range(buckets[b]) = {}
    BY DEF Init, Range
  <2> QED  BY <2>1 DEF Queued
<1>2. 0 % Buckets = 0
  <2>1. 0 = Buckets * (0 \div Buckets) + (0 % Buckets) /\ 0 % Buckets \in 0 .. Buckets - 1
        /\ 0 \div Buckets \in Int
    BY DivisionFacts
  <2>2. 0 = Buckets * 0 + 0
    OBVIOUS
  <2> QED  BY <2>1, <2>2, DivisionIsUnique
<1> QED  BY <1>1, <1>2 DEF Init, Window

LEMMA WarmUpKeepsWindow ==
  ASSUME MaxDelay < Buckets * Resolution, QueueInv, Window, NEW d \in Delays, WarmUp(d)
  PROVE  Window'
<1> DEFINE e == [time |-> d, pos |-> warmed + 1]
<1>1. \A x : x \in Queued' <=> x \in Queued \/ x = e
  BY WarmUpFacts DEF QueueInv
<1>2. now = 0 /\ now' = now /\ head' = head
  BY DEF Window, WarmUp
<1>3. 0 <= Unit(e.time) /\ Unit(e.time) < 0 + Buckets
  <2>1. 0 * Resolution + d = d /\ 0 \in Nat
    BY DEF Delays
  <2>2. 0 <= Unit(0 * Resolution + d) /\ Unit(0 * Resolution + d) < 0 + Buckets
    BY <2>1, UnitAhead
  <2> QED  BY <2>1, <2>2
<1> HIDE DEF e
<1> QED  BY <1>1, <1>2, <1>3 DEF Window

LEMMA TurnKeepsWindow ==
  ASSUME MaxDelay < Buckets * Resolution, QueueInv, Window, NEW d \in Delays, Turn(d)
  PROVE  Window'
<1> DEFINE e == [time |-> now' * Resolution + d, pos |-> event'.pos]
<1>1. /\ event' \in Queued /\ event' \in Events
      /\ BucketOf(event'.time) = head'
      /\ now' = Unit(event'.time) /\ now' \in Nat
      /\ \A x : x \in Queued' <=> (x \in Queued /\ x # event') \/ x = e
  BY TurnFacts
<1>2. head' = now' % Buckets
  BY <1>1 DEF BucketOf
<1>3. ~(warmed' < NAgents)
  BY DEF Turn
<1>4. now <= now' /\ now \in Nat
  BY <1>1, TypeFacts DEF Window, QueueInv
<1>5. ASSUME NEW x \in Queued PROVE now' <= Unit(x.time) /\ Unit(x.time) < now' + Buckets
  <2>1. x \in Events
    BY QueuedIsEvent DEF QueueInv
  <2>2. x.time \in Nat /\ event'.time \in Nat /\ Unit(x.time) \in Nat
    BY <1>1, <2>1, EventFacts, UnitFacts
  <2>3. now' <= Unit(x.time)
    BY <1>1, <2>2, TurnPopsEarliest, UnitsInOrder
  <2>4. Unit(x.time) < now + Buckets
    BY DEF Window
  <2> QED  BY <1>1, <1>4, <2>2, <2>3, <2>4
<1>6. now' <= Unit(e.time) /\ Unit(e.time) < now' + Buckets
  BY <1>1, UnitAhead
<1> HIDE DEF e
<1> QED  BY <1>1, <1>2, <1>3, <1>5, <1>6 DEF Window

\* The window holds as long as no delay reaches around the array.
LEMMA WindowInvariant ==
  ASSUME MaxDelay < Buckets * Resolution
  PROVE  Spec => [](QueueInv /\ Window)
<1>1. Init => QueueInv /\ Window
  BY QueueInitially, WindowInitially
<1>2. ASSUME QueueInv, Window, UNCHANGED vars PROVE Window'
  BY <1>2 DEF Window, Queued, vars
<1>3. QueueInv /\ Window /\ [Next]_vars => (QueueInv /\ Window)'
  BY <1>2, WarmUpKeepsQueue, TurnKeepsQueue, QueueStutters,
     WarmUpKeepsWindow, TurnKeepsWindow DEF Next
<1> QED  BY <1>1, <1>3, PTL DEF Spec

\* The clock passes no event that is still queued, for any number of agents and
\* buckets, when every delay is shorter than the array is long
\* (CalenderQueue.h:27-57).
THEOREM QueueNothingOverdue ==
  ASSUME MaxDelay < Buckets * Resolution
  PROVE  Spec => []NothingOverdue
<1>1. QueueInv /\ Window => NothingOverdue
  <2> SUFFICES ASSUME QueueInv, Window, NEW e \in Queued PROVE Unit(e.time) >= now
    BY DEF NothingOverdue
  <2>1. Unit(e.time) \in Nat /\ now \in Nat
    BY QueuedIsEvent, EventFacts, UnitFacts, TypeFacts DEF QueueInv
  <2> QED  BY <2>1 DEF Window
<1> QED  BY <1>1, WindowInvariant, PTL

\* A turn serves the earliest event of the queue, under the same bound on the
\* delays (CalenderQueue.h:36-38, 49-54).
THEOREM QueuePopsEarliest ==
  ASSUME MaxDelay < Buckets * Resolution
  PROVE  Spec => PopsEarliest
<1>1. QueueInv /\ Window /\ [Next]_vars =>
        [warmed = NAgents => \A e \in Queued : event'.time <= e.time]_vars
  <2> SUFFICES ASSUME QueueInv, Window, NEW d \in Delays, WarmUp(d) \/ Turn(d),
                      warmed = NAgents, NEW e \in Queued
               PROVE  event'.time <= e.time
    BY DEF Next
  <2>1. ~WarmUp(d)
    BY DEF WarmUp
  <2> QED  BY <2>1, TurnPopsEarliest
<1> QED  BY <1>1, WindowInvariant, PTL DEF Spec, PopsEarliest

=============================================================================
