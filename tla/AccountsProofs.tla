---------------------------- MODULE AccountsProofs ----------------------------
(***************************************************************************)
(* What holds of the agents' accounts and of the pool for any agents, any  *)
(* number of nodes, levels and orders, and ring buffers of any size.       *)
(***************************************************************************)
EXTENDS AccountsProperties, TLAPS, SequenceTheorems, FiniteSetTheorems, WellFoundedInduction

USE PoolAssumption, LevelAssumption, StrategyAssumption, OrdersAssumption, BalanceAssumption

\* A set of natural numbers has a least element.
LEMMA LeastExists ==
  ASSUME NEW S \in SUBSET Nat, S # {}
  PROVE  \E x \in S : \A y \in S : x <= y
<1>1. PICK x \in S : \A y \in S : ~(<<y, x>> \in OpToRel(<, Nat))
  BY WFMin, NatLessThanWellFounded
<1>2. \A y \in Nat, z \in Nat : y < z => <<y, z>> \in OpToRel(<, Nat)
  BY DEF OpToRel
<1>3. \A y \in S : ~(y < x)
  BY <1>1, <1>2
<1> QED  BY <1>3

-----------------------------------------------------------------------------
(* The pool                                                                *)

\* S are the nodes on the free list.
Frees(p, S) == p \in Pools /\ \E L : IsFreeList(p, L) /\ Range(L) = S

LEMMA PoolFields ==
  ASSUME NEW p \in Pools
  PROVE  /\ p.free_head \in PoolNodes \union {NoNode}
         /\ p.next_free \in [PoolNodes -> PoolNodes \union {NoNode}]
         /\ NoNode \notin PoolNodes
BY DEF Pools, PoolNodes, NoNode

\* allocate takes a node off the list.
LEMMA AllocatedFacts ==
  ASSUME NEW p, NEW S, Frees(p, S), ~Exhausted(p)
  PROVE  /\ NextNode(p) \in S
         /\ Frees(Allocated(p), S \ {NextNode(p)})
<1>1. PICK L : IsFreeList(p, L) /\ Range(L) = S
  BY DEF Frees
<1>2. /\ p \in Pools /\ L \in Seq(PoolNodes) /\ Len(L) \in Nat /\ L # <<>>
      /\ DOMAIN L = 1 .. Len(L) /\ Len(L) >= 1
  BY <1>1, LenProperties, EmptySeq DEF Frees, IsFreeList, Exhausted
<1>3. p.free_head = L[1] /\ NextNode(p) = L[1] /\ L[1] \in PoolNodes
  <2>1. p.free_head = L[1]
    BY <1>1, <1>2 DEF IsFreeList
  <2>2. L[1] \in PoolNodes
    BY <1>2, ElementOfSeq
  <2> QED  BY <2>1, <2>2 DEF NextNode
<1>4. Allocated(p).free_head = p.next_free[L[1]] /\ Allocated(p).next_free = p.next_free
  BY <1>2, <1>3 DEF Allocated, Pools
<1>5. Allocated(p) \in Pools
  BY <1>2, <1>3, PoolFields DEF Allocated, Pools
<1>6. /\ Tail(L) \in Seq(PoolNodes) /\ Len(Tail(L)) = Len(L) - 1
      /\ \A k \in 1 .. Len(L) - 1 : Tail(L)[k] = L[k + 1]
  BY <1>2, HeadTailProperties
<1>7. IsFreeList(Allocated(p), Tail(L))
  <2>1. ASSUME NEW k \in 1 .. Len(Tail(L)), NEW m \in 1 .. Len(Tail(L)), Tail(L)[k] = Tail(L)[m]
        PROVE  k = m
    <3>1. k \in 1 .. Len(L) - 1 /\ m \in 1 .. Len(L) - 1
      BY <1>6
    <3>2. L[k + 1] = L[m + 1]
      BY <1>6, <2>1, <3>1
    <3>3. k + 1 \in 1 .. Len(L) /\ m + 1 \in 1 .. Len(L)
      BY <1>2, <3>1
    <3>4. k + 1 = m + 1
      BY <1>1, <3>2, <3>3 DEF IsFreeList
    <3> QED  BY <3>1, <3>4
  <2>2. Allocated(p).free_head = IF Tail(L) = <<>> THEN NoNode ELSE Tail(L)[1]
    <3>1. p.next_free[L[1]] = IF 1 = Len(L) THEN NoNode ELSE L[1 + 1]
      <4>1. 1 \in 1 .. Len(L)
        BY <1>2
      <4> QED  BY <1>1, <4>1 DEF IsFreeList
    <3>2. Tail(L) = <<>> <=> 1 = Len(L)
      <4>1. Tail(L) = <<>> <=> Len(Tail(L)) = 0
        BY <1>6, EmptySeq
      <4> QED  BY <1>2, <1>6, <4>1
    <3>3. 1 # Len(L) => Tail(L)[1] = L[1 + 1]
      <4>1. 1 # Len(L) => 1 \in 1 .. Len(L) - 1
        BY <1>2
      <4> QED  BY <1>6, <4>1
    <3> QED  BY <1>4, <3>1, <3>2, <3>3
  <2>3. ASSUME NEW k \in 1 .. Len(Tail(L))
        PROVE  Allocated(p).next_free[Tail(L)[k]] = IF k = Len(Tail(L)) THEN NoNode ELSE Tail(L)[k + 1]
    <3>1. k + 1 \in 1 .. Len(L) /\ Tail(L)[k] = L[k + 1]
      BY <1>2, <1>6
    <3>2. p.next_free[L[k + 1]] = IF k + 1 = Len(L) THEN NoNode ELSE L[(k + 1) + 1]
      BY <1>1, <3>1 DEF IsFreeList
    <3>3. k + 1 # Len(L) => Tail(L)[k + 1] = L[(k + 1) + 1]
      <4>1. k \in 1 .. Len(L) - 1
        BY <1>6
      <4>2. k + 1 # Len(L) => k + 1 \in 1 .. Len(L) - 1
        BY Len(L) \in Nat, <4>1
      <4> QED  BY <1>6, <4>2
    <3>4. k = Len(Tail(L)) <=> k + 1 = Len(L)
      BY <1>2, <1>6
    <3> QED  BY <1>4, <3>1, <3>2, <3>3, <3>4
  <2> QED  BY <1>6, <2>1, <2>2, <2>3 DEF IsFreeList
<1>8. Range(Tail(L)) = S \ {L[1]}
  <2>1. DOMAIN Tail(L) = 1 .. Len(L) - 1
    BY <1>6, LenProperties
  <2>2. ASSUME NEW x \in Range(Tail(L)) PROVE x \in S \ {L[1]}
    <3>1. PICK k \in 1 .. Len(L) - 1 : x = Tail(L)[k]
      BY <2>1, <2>2 DEF Range
    <3>2. k + 1 \in 1 .. Len(L) /\ x = L[k + 1] /\ k + 1 # 1 /\ 1 \in 1 .. Len(L)
      BY <1>2, <1>6, <3>1
    <3> QED  BY <1>1, <1>2, <3>2 DEF IsFreeList, Range
  <2>3. ASSUME NEW x \in S \ {L[1]} PROVE x \in Range(Tail(L))
    <3>1. PICK k \in 1 .. Len(L) : x = L[k]
      BY <1>1, <1>2 DEF Range
    <3>2. k - 1 \in 1 .. Len(L) - 1 /\ (k - 1) + 1 = k
      BY <1>2, <3>1
    <3>3. Tail(L)[k - 1] = x
      BY <1>6, <3>1, <3>2
    <3> QED  BY <2>1, <3>2, <3>3 DEF Range
  <2> QED  BY <2>2, <2>3
<1>9. L[1] \in S
  BY <1>1, <1>2 DEF Range
<1> QED  BY <1>3, <1>5, <1>7, <1>8, <1>9 DEF Frees

\* deallocate puts a node that is not on the list in front of it.
LEMMA DeallocatedFacts ==
  ASSUME NEW p, NEW S, Frees(p, S), NEW i \in PoolNodes \ S
  PROVE  Frees(Deallocated(p, i), S \union {i})
<1>1. PICK L : IsFreeList(p, L) /\ Range(L) = S
  BY DEF Frees
<1>2. p \in Pools /\ L \in Seq(PoolNodes) /\ Len(L) \in Nat /\ DOMAIN L = 1 .. Len(L)
  BY <1>1, LenProperties DEF Frees, IsFreeList
<1> DEFINE d == Deallocated(p, i)
           M == <<i>> \o L
<1>3. /\ d.free_head = i
      /\ d.next_free[i] = p.free_head
      /\ \A j \in PoolNodes : j # i => d.next_free[j] = p.next_free[j]
      /\ d \in Pools
  BY <1>2, PoolFields DEF Deallocated, Pools
<1>4. <<i>> \in Seq(PoolNodes) /\ Len(<<i>>) = 1 /\ <<i>>[1] = i
  OBVIOUS
<1>5. /\ M \in Seq(PoolNodes) /\ Len(M) = Len(L) + 1 /\ M[1] = i
      /\ \A k \in 2 .. Len(L) + 1 : M[k] = L[k - 1]
  BY <1>2, <1>4, ConcatProperties
<1>6. \A k \in 1 .. Len(L) : L[k] \in PoolNodes /\ L[k] # i
  BY <1>1, <1>2, ElementOfSeq DEF Range
<1> HIDE DEF d, M
<1>7. IsFreeList(d, M)
  <2>1. ASSUME NEW k \in 1 .. Len(M), NEW m \in 1 .. Len(M), M[k] = M[m] PROVE k = m
    <3>1. CASE k = 1 \/ m = 1
      BY <1>2, <1>5, <1>6, <2>1, <3>1
    <3>2. CASE k # 1 /\ m # 1
      <4>1. k - 1 \in 1 .. Len(L) /\ m - 1 \in 1 .. Len(L) /\ L[k - 1] = L[m - 1]
        BY <1>2, <1>5, <2>1, <3>2
      <4>2. k - 1 = m - 1
        BY <1>1, <4>1 DEF IsFreeList
      <4> QED  BY <1>2, <1>5, <4>2
    <3> QED  BY <3>1, <3>2
  <2>2. d.free_head = IF M = <<>> THEN NoNode ELSE M[1]
    BY <1>2, <1>3, <1>5, EmptySeq
  <2>3. ASSUME NEW k \in 1 .. Len(M)
        PROVE  d.next_free[M[k]] = IF k = Len(M) THEN NoNode ELSE M[k + 1]
    <3>1. CASE k = 1
      <4>1. d.next_free[M[k]] = IF L = <<>> THEN NoNode ELSE L[1]
        BY <1>1, <1>3, <1>5, <3>1 DEF IsFreeList
      <4>2. L = <<>> <=> Len(L) = 0
        BY <1>2, EmptySeq
      <4>3. Len(L) # 0 => M[2] = L[1]
        BY <1>2, <1>5
      <4> QED  BY <1>2, <1>5, <3>1, <4>1, <4>2, <4>3
    <3>2. CASE k # 1
      <4>1. k - 1 \in 1 .. Len(L) /\ M[k] = L[k - 1] /\ (k - 1) + 1 = k
        BY <1>2, <1>5, <3>2
      <4>2. d.next_free[M[k]] = IF k - 1 = Len(L) THEN NoNode ELSE L[(k - 1) + 1]
        BY <1>1, <1>3, <1>6, <4>1 DEF IsFreeList
      <4>3. k # Len(M) => M[k + 1] = L[k]
        <5>1. k # Len(M) => k + 1 \in 1 .. Len(M) /\ k + 1 # 1 /\ (k + 1) - 1 = k
          BY <1>2, <1>5
        <5> QED  BY <1>5, <5>1
      <4> QED  BY <1>2, <1>5, <4>1, <4>2, <4>3
    <3> QED  BY <3>1, <3>2
  <2> QED  BY <1>5, <2>1, <2>2, <2>3 DEF IsFreeList
<1>8. Range(M) = S \union {i}
  <2>1. DOMAIN M = 1 .. Len(L) + 1
    BY <1>5, LenProperties
  <2>2. ASSUME NEW x \in Range(M) PROVE x \in S \union {i}
    <3>1. PICK k \in 1 .. Len(L) + 1 : x = M[k]
      BY <2>1, <2>2 DEF Range
    <3>2. CASE k = 1
      BY <1>5, <3>1, <3>2
    <3>3. CASE k # 1
      <4>1. k - 1 \in 1 .. Len(L) /\ M[(k - 1) + 1] = L[k - 1] /\ (k - 1) + 1 = k
        BY <1>2, <1>5, <3>1, <3>3
      <4> QED  BY <1>1, <1>2, <3>1, <4>1 DEF Range
    <3> QED  BY <3>2, <3>3
  <2>3. ASSUME NEW x \in S PROVE x \in Range(M)
    <3>1. PICK k \in 1 .. Len(L) : x = L[k]
      BY <1>1, <1>2 DEF Range
    <3>2. k + 1 \in 2 .. Len(L) + 1 /\ (k + 1) - 1 = k
      BY <1>2
    <3>3. M[k + 1] = x
      BY <1>5, <3>1, <3>2
    <3> QED  BY <1>2, <2>1, <3>2, <3>3 DEF Range
  <2>4. i \in Range(M)
    BY <1>2, <1>5, <2>1 DEF Range
  <2> QED  BY <2>2, <2>3, <2>4
<1> QED  BY <1>3, <1>7, <1>8 DEF Frees, d

\* The nodes of a new pool are linked in their order.
LEMMA InitialPoolFacts == Frees(InitialPool, PoolNodes)
<1> DEFINE L == [k \in 1 .. PoolSize |-> k - 1]
<1>1. L \in Seq(PoolNodes) /\ Len(L) = PoolSize /\ DOMAIN L = 1 .. PoolSize
  BY DEF PoolNodes
<1>2. InitialPool \in Pools
  BY DEF InitialPool, Pools, PoolNodes, NoNode
<1>3. IsFreeList(InitialPool, L)
  <2>1. \A k, m \in 1 .. Len(L) : L[k] = L[m] => k = m
    BY <1>1
  <2>2. L # <<>> /\ L[1] = 0
    BY <1>1, EmptySeq
  <2>3. \A k \in 1 .. Len(L) :
          InitialPool.next_free[L[k]] = IF k = Len(L) THEN NoNode ELSE L[k + 1]
    BY <1>1 DEF InitialPool, PoolNodes
  <2> QED  BY <1>1, <2>1, <2>2, <2>3 DEF IsFreeList, InitialPool
<1>4. Range(L) = PoolNodes
  <2>1. ASSUME NEW i \in PoolNodes PROVE i \in Range(L)
    <3>1. i + 1 \in 1 .. PoolSize /\ L[i + 1] = i
      BY DEF PoolNodes
    <3> QED  BY <3>1 DEF Range
  <2> QED  BY <2>1 DEF Range, PoolNodes
<1> QED  BY <1>2, <1>3, <1>4 DEF Frees

\* The k-th node of n allocations in a row.
Taken(p, n, k) == NextNode(Allocations(p, n)[k])

\* The pools between allocations.
LEMMA AllocationsSteps ==
  ASSUME NEW p, NEW n \in Nat
  PROVE  /\ Allocations(p, n)[1] = p
         /\ \A k \in 1 .. n : Allocations(p, n)[k + 1] = Allocated(Allocations(p, n)[k])
<1> DEFINE b == Allocations(p, n)
           F(m, g) == [k \in 1 .. m + 1 |-> IF k = 1 THEN p ELSE Allocated(g[k - 1])]
           Bad == {m \in Nat : \A g : g # F(m, g)}
<1>1. Bad = {}
  <2> SUFFICES ASSUME Bad # {} PROVE FALSE
    OBVIOUS
  <2>1. PICK m \in Bad : \A y \in Bad : m <= y
    BY LeastExists
  <2>2. m \in Nat /\ \A g : g # F(m, g)
    OBVIOUS
  <2>3. CASE m = 0
    <3> DEFINE g == [k \in 1 .. m + 1 |-> p]
    <3>1. \A k \in 1 .. m + 1 : k = 1
      BY <2>3
    <3>2. g = F(m, g)
      BY <3>1
    <3> QED  BY <2>2, <3>2
  <2>4. CASE m # 0
    <3>1. m - 1 \in Nat /\ m - 1 \notin Bad /\ (m - 1) + 1 = m
      BY <2>1, <2>2, <2>4
    <3>2. PICK g : g = F(m - 1, g)
      BY <3>1
    <3>3. \A k \in 1 .. m : g[k] = IF k = 1 THEN p ELSE Allocated(g[k - 1])
      BY <3>1, <3>2
    <3> DEFINE h == [k \in 1 .. m + 1 |-> IF k <= m THEN g[k] ELSE Allocated(g[m])]
    <3>4. ASSUME NEW k \in 1 .. m + 1
          PROVE  h[k] = IF k = 1 THEN p ELSE Allocated(h[k - 1])
      <4>1. k # 1 => k - 1 \in 1 .. m + 1 /\ k - 1 <= m
        BY <2>2
      <4>2. k # 1 => h[k - 1] = g[k - 1]
        BY <4>1
      <4>3. CASE k <= m
        <5>1. k \in 1 .. m
          BY <2>2, <4>3
        <5> QED  BY <3>3, <4>2, <4>3, <5>1
      <4>4. CASE ~(k <= m)
        <5>1. k - 1 = m /\ k # 1
          BY <2>2, <2>4, <4>4
        <5> QED  BY <4>2, <4>4, <5>1
      <4> QED  BY <4>3, <4>4
    <3>5. h = F(m, h)
      BY <3>4
    <3> QED  BY <2>2, <3>5
  <2> QED  BY <2>3, <2>4
<1>2. PICK g : g = F(n, g)
  <2> HIDE DEF F
  <2>1. n \notin Bad
    BY <1>1
  <2>2. ~ \A g : g # F(n, g)
    BY <2>1
  <2> QED  BY <2>2
<1>3. b = CHOOSE x : x = F(n, x)
  BY DEF Allocations
<1>4. b = F(n, b)
  BY <1>2, <1>3
<1>5. \A k \in 1 .. n : k + 1 \in 1 .. n + 1 /\ k + 1 # 1 /\ (k + 1) - 1 = k
  OBVIOUS
<1> HIDE DEF b
<1>6. b[1] = p /\ \A k \in 1 .. n : b[k + 1] = Allocated(b[k])
  BY <1>4, <1>5
<1> QED  BY <1>6 DEF b

\* Allocations in a row take different nodes off the list.
LEMMA AllocationsFacts ==
  ASSUME NEW p, NEW S, Frees(p, S), NEW n \in Nat,
         \A k \in 1 .. n : ~Exhausted(Allocations(p, n)[k])
  PROVE  /\ \A k \in 1 .. n : Taken(p, n, k) \in S
         /\ \A j, k \in 1 .. n : Taken(p, n, j) = Taken(p, n, k) => j = k
         /\ Frees(Allocations(p, n)[n + 1], S \ {Taken(p, n, k) : k \in 1 .. n})
<1> DEFINE b == Allocations(p, n)
           t(k) == Taken(p, n, k)
           T(i) == {t(k) : k \in 1 .. i}
           Good(i) == /\ \A k \in 1 .. i : t(k) \in S
                      /\ \A j, k \in 1 .. i : t(j) = t(k) => j = k
                      /\ Frees(b[i + 1], S \ T(i))
           Bad == {i \in 0 .. n : ~Good(i)}
<1>1. b[1] = p /\ \A k \in 1 .. n : b[k + 1] = Allocated(b[k])
  BY AllocationsSteps
<1>2. \A k \in 1 .. n : t(k) = NextNode(b[k]) /\ ~Exhausted(b[k])
  BY DEF Taken
<1> HIDE DEF b, t
<1>3. Bad = {}
  <2> SUFFICES ASSUME Bad # {} PROVE FALSE
    OBVIOUS
  <2>1. PICK i \in Bad : \A y \in Bad : i <= y
    <3>1. Bad \in SUBSET Nat
      OBVIOUS
    <3> HIDE DEF Bad
    <3> QED  BY <3>1, LeastExists
  <2>2. i \in 0 .. n /\ ~Good(i)
    OBVIOUS
  <2>3. CASE i = 0
    <3>1. 1 .. i = {} /\ i + 1 = 1
      BY <2>3
    <3>2. S \ T(i) = S
      BY <3>1
    <3>3. Good(i)
      BY <1>1, <3>1, <3>2
    <3> QED  BY <2>2, <3>3
  <2>4. CASE i # 0
    <3>1. i - 1 \in 0 .. n /\ i - 1 \notin Bad /\ i \in 1 .. n /\ (i - 1) + 1 = i
      <4>1. i \in Nat /\ i \in 0 .. n
        BY <2>2
      <4> HIDE DEF Bad, Good
      <4> QED  BY <2>1, <2>4, <4>1
    <3>2. Good(i - 1)
      BY <3>1
    <3>3. /\ \A k \in 1 .. i - 1 : t(k) \in S
          /\ \A j, k \in 1 .. i - 1 : t(j) = t(k) => j = k
          /\ Frees(b[i], S \ T(i - 1))
      BY <3>1, <3>2
    <3> HIDE DEF T
    <3>4. t(i) \in S \ T(i - 1) /\ Frees(b[i + 1], (S \ T(i - 1)) \ {t(i)})
      BY <1>1, <1>2, <3>1, <3>3, AllocatedFacts
    <3>5. \A k \in 1 .. i : k = i \/ k \in 1 .. i - 1
      BY <3>1
    <3>6. T(i) = T(i - 1) \union {t(i)}
      <4>1. \A k \in 1 .. i - 1 : k \in 1 .. i
        BY <3>1
      <4>2. i \in 1 .. i
        BY <3>1
      <4> QED  BY <3>5, <4>1, <4>2 DEF T
    <3>7. \A k \in 1 .. i - 1 : t(k) # t(i)
      BY <3>4 DEF T
    <3>8. (S \ T(i - 1)) \ {t(i)} = S \ T(i)
      BY <3>6
    <3>9. Good(i)
      BY <3>3, <3>4, <3>5, <3>7, <3>8
    <3> QED  BY <2>2, <3>9
  <2> QED  BY <2>3, <2>4
<1>4. n \in 0 .. n
  OBVIOUS
<1>5. Good(n)
  BY <1>3, <1>4
<1> QED  BY <1>5 DEF b, t

\* A sequence without repetition is not longer than the set its elements are from.
LEMMA ListLength ==
  ASSUME NEW p, NEW L, IsFreeList(p, L)
  PROVE  Len(L) \in 0 .. PoolSize
<1>1. L \in Seq(PoolNodes) /\ Len(L) \in Nat /\ L \in [1 .. Len(L) -> PoolNodes]
  BY LenProperties DEF IsFreeList
<1>2. \A k, m \in 1 .. Len(L) : L[k] = L[m] => k = m
  BY DEF IsFreeList
<1>3. IsFiniteSet(PoolNodes) /\ Cardinality(PoolNodes) = PoolSize
  BY FS_Interval DEF PoolNodes
<1>4. IsFiniteSet(1 .. Len(L)) /\ Cardinality(1 .. Len(L)) = Len(L)
  BY <1>1, FS_Interval
<1>5. Cardinality(1 .. Len(L)) <= Cardinality(PoolNodes)
  BY <1>1, <1>2, <1>3, FS_Injection DEF ExistsInjection, Injection, IsInjective
<1> QED  BY <1>1, <1>3, <1>4, <1>5

\* The walk along the free list finds the list.
LEMMA FreeListFacts ==
  ASSUME NEW p \in Pools, NEW L, IsFreeList(p, L)
  PROVE  FreeList(p) = L
<1> DEFINE K == 0 .. PoolSize
           met(k) == IF k <= Len(L) THEN SubSeq(L, 1, k) ELSE L
           next(w) == LET n == IF w = <<>> THEN p.free_head ELSE p.next_free[w[Len(w)]]
                      IN IF n = NoNode THEN w ELSE Append(w, n)
           F(g) == [k \in K |-> IF k = 0 THEN <<>> ELSE next(g[k - 1])]
           W == [k \in K |-> met(k)]
<1>1. L \in Seq(PoolNodes) /\ Len(L) \in Nat /\ Len(L) <= PoolSize /\ NoNode \notin PoolNodes
  <2>1. Len(L) \in 0 .. PoolSize
    BY ListLength
  <2> QED  BY <2>1 DEF IsFreeList, PoolNodes, NoNode
<1>2. met(0) = <<>>
  BY <1>1, SubSeqProperties, EmptySeq
<1>3. ASSUME NEW k \in 1 .. PoolSize PROVE met(k) = next(met(k - 1))
  <2>1. CASE k <= Len(L)
    <3> DEFINE w == SubSeq(L, 1, k - 1)
    <3>1. k - 1 \in 0 .. Len(L) /\ met(k - 1) = w
      BY <1>1, <2>1
    <3>2. /\ w \in Seq(PoolNodes) /\ Len(w) = k - 1
          /\ \A j \in 1 .. k - 1 : w[j] = L[j]
      BY <1>1, <3>1, SubSeqProperties
    <3>3. L[k] \in PoolNodes /\ L[k] # NoNode
      BY <1>1, <2>1, ElementOfSeq
    <3>4. (IF w = <<>> THEN p.free_head ELSE p.next_free[w[Len(w)]]) = L[k]
      <4>1. CASE k = 1
        <5>1. w = <<>> /\ L # <<>>
          BY <1>1, <2>1, <3>2, <4>1, EmptySeq
        <5> QED  BY <4>1, <5>1 DEF IsFreeList
      <4>2. CASE k # 1
        <5>1. w # <<>> /\ w[Len(w)] = L[k - 1] /\ k - 1 \in 1 .. Len(L)
              /\ k - 1 # Len(L) /\ (k - 1) + 1 = k
          BY <1>1, <2>1, <3>2, <4>2, EmptySeq
        <5> QED  BY <5>1 DEF IsFreeList
      <4> QED  BY <4>1, <4>2
    <3>5. Append(w, L[k]) = SubSeq(L, 1, k)
      <4> DEFINE u == SubSeq(L, 1, k)
      <4>1. /\ u \in Seq(PoolNodes) /\ Len(u) = k
            /\ \A j \in 1 .. k : u[j] = L[j]
        BY <1>1, <2>1, SubSeqProperties
      <4>2. /\ Append(w, L[k]) \in Seq(PoolNodes) /\ Len(Append(w, L[k])) = (k - 1) + 1
            /\ \A j \in 1 .. k - 1 : Append(w, L[k])[j] = w[j]
            /\ Append(w, L[k])[(k - 1) + 1] = L[k]
        BY <3>2, <3>3, AppendProperties
      <4> DEFINE v == Append(w, L[k])
      <4> HIDE DEF u, w
      <4>3. \A j \in 1 .. k : u[j] = v[j]
        BY <3>2, <4>1, <4>2
      <4>4. Len(u) = Len(v) /\ Len(u) = k /\ u \in Seq(PoolNodes) /\ v \in Seq(PoolNodes)
        BY <4>1, <4>2
      <4> HIDE DEF v
      <4>5. u = v
        BY <4>3, <4>4, SeqEqual
      <4> QED  BY <4>5 DEF u, v
    <3>6. next(w) = Append(w, L[k])
      <4> HIDE DEF w
      <4> QED  BY <3>3, <3>4
    <3>7. met(k) = SubSeq(L, 1, k)
      BY <2>1
    <3> HIDE DEF w, met, next
    <3> QED  BY <3>1, <3>5, <3>6, <3>7
  <2>2. CASE k > Len(L)
    <3>1. met(k) = L /\ met(k - 1) = L
      <4>1. SubSeq(L, 1, Len(L)) = L
        BY <1>1, SubSeqFull
      <4>2. ~(k <= Len(L)) /\ (k - 1 <= Len(L) => k - 1 = Len(L))
        BY <1>1, <2>2
      <4> QED  BY <4>1, <4>2
    <3>2. (IF L = <<>> THEN p.free_head ELSE p.next_free[L[Len(L)]]) = NoNode
      <4>1. L # <<>> => Len(L) \in 1 .. Len(L)
        BY <1>1, EmptySeq
      <4> QED  BY <4>1 DEF IsFreeList
    <3>3. next(L) = L
      BY <3>2
    <3>4. next(met(k - 1)) = next(L)
      BY <3>1
    <3> HIDE DEF met, next
    <3> QED  BY <3>1, <3>3, <3>4
  <2>3. k <= Len(L) \/ k > Len(L)
    BY <1>1
  <2> HIDE DEF met, next
  <2> QED  BY <2>1, <2>2, <2>3
<1> HIDE DEF met, next
<1>4. \A k \in K : k # 0 => k \in 1 .. PoolSize /\ k - 1 \in K
  OBVIOUS
<1>5. W = F(W)
  BY <1>2, <1>3, <1>4
<1>6. FreeList(p) = (CHOOSE g : g = F(g))[PoolSize]
  BY DEF FreeList, next
<1> DEFINE G == CHOOSE g : g = F(g)
<1>7. G = F(G)
  BY <1>5
<1> HIDE DEF G
<1>8. \A k \in K : G[k] = met(k)
  <2> DEFINE bad == {k \in K : G[k] # met(k)}
  <2>1. SUFFICES ASSUME bad # {} PROVE FALSE
    OBVIOUS
  <2>2. PICK k \in bad : \A j \in bad : k <= j
    <3>1. bad \in SUBSET Nat
      OBVIOUS
    <3> HIDE DEF bad
    <3> QED  BY <2>1, <3>1, LeastExists
  <2>3. k # 0
    BY <1>2, <1>7, <2>2
  <2>4. k \in 1 .. PoolSize /\ k - 1 \in K /\ ~(k <= k - 1)
    BY <2>2, <2>3
  <2>5. G[k - 1] = met(k - 1)
    BY <2>2, <2>4
  <2> QED  BY <1>3, <1>7, <2>2, <2>3, <2>4, <2>5
<1>9. PoolSize \in K /\ met(PoolSize) = L
  <2>1. SubSeq(L, 1, Len(L)) = L
    BY <1>1, SubSeqFull
  <2>2. PoolSize <= Len(L) => PoolSize = Len(L)
    BY <1>1
  <2>3. PoolSize \in K
    OBVIOUS
  <2> QED  BY <2>1, <2>2, <2>3 DEF met
<1> QED  BY <1>6, <1>8, <1>9 DEF G

-----------------------------------------------------------------------------
(* What the variables range over                                           *)

Balances == [available : Int, reserved : Int, units : Int]

\* What an agent may ask for: a draw, a quote beside the grid or a market price.
AskedPrices == LimitPrices \union (-1 .. MaxLevel + 1)

LEMMA AskedPricesTyped == AskedPrices \subseteq Int
BY DEF AskedPrices

OrderForms(N) ==
  [type : {"LIMIT", "MARKET"}, client : Agents, side : Sides, price : AskedPrices, qty : {Lot},
   index : N]
CancelForms(N) == [type : {"CANCEL"}, client : Agents, index : N]

Drafts == OrderForms({NoNode}) \union CancelForms({NoNode})
Forms == OrderForms(PoolNodes) \union CancelForms(PoolNodes)

EngineOrders ==
  [id : Nat, type : {"LIMIT", "MARKET"}, client : Agents, side : Sides, price : AskedPrices,
   qty : Nat]

AllReports ==
  [orderId : Nat, orderType : {"LIMIT", "MARKET"}, clientRef : Agents, side : Sides, price : Int,
   quantity : Nat, other : [id : Nat, price : Int], type : {"FULL", "PARTIAL", "CANCEL"}]

AccountsTyped ==
  /\ account \in [Agents -> Balances]
  /\ active \in [Agents -> SUBSET Nat]
  /\ \A a \in Agents : IsFiniteSet(active[a])

MailTyped ==
  /\ inbox \in [Agents -> Seq(AllReports)]
  /\ lost \in [Agents -> Seq(AllReports)]
  /\ \A a \in Agents : Len(inbox[a]) <= InboxCap

OrdersTyped ==
  /\ outgoing \in Seq(Forms) /\ orders \in Seq(Forms) /\ dropped \in Seq(Forms)
  /\ Len(orders) <= QueueCap

EngineTyped ==
  /\ lastId \in Nat
  /\ index \in Seq(PoolNodes) /\ Len(index) = lastId
  /\ book \in SUBSET EngineOrders /\ IsFiniteSet(book)
  /\ \A o \in book : o.id \in 1 .. lastId /\ o.qty \in 1 .. Lot
  /\ \A o, r \in book : o.id = r.id => o = r
  /\ taker # NoTaker =>
       /\ taker \in EngineOrders
       /\ taker.id \in 1 .. lastId /\ taker.qty \in 0 .. Lot
       /\ \A o \in book : o.id # taker.id

Typed == AccountsTyped /\ MailTyped /\ OrdersTyped /\ EngineTyped

-----------------------------------------------------------------------------
(* What the strategies want                                                *)

\* What an agent looks at before it sends an order.
Looked(a, o) ==
  /\ o.type = "MARKET" => o.price = MarketPrice(o.side)
  /\ o.type = "LIMIT" /\ a \notin MarketMakers => o.price \in LimitPrices
  /\ IF o.side = "Sell"
       THEN account[a].units >= IF a \in RandomAgents THEN 1 ELSE Lot
       ELSE IF a \in RandomAgents
         THEN account[a].available >= Cents(o.price) /\ o.price \in LimitPrices
         ELSE account[a].available >= Cents(o.price) * Lot

\* Orders of one agent, at most one of each side.
Proposed(a, v) ==
  /\ v \in Seq(OrderForms({NoNode}))
  /\ \A k \in DOMAIN v : v[k].client = a /\ Looked(a, v[k])
  /\ \A j, k \in DOMAIN v : v[j].side = v[k].side => j = k

LEMMA NothingProposed ==
  ASSUME NEW a \in Agents
  PROVE  Proposed(a, <<>>)
BY DEF Proposed

LEMMA OneProposed ==
  ASSUME NEW a \in Agents, NEW type \in {"LIMIT", "MARKET"}, NEW sd \in Sides,
         NEW p \in AskedPrices,
         Looked(a, Order(a, type, sd, p))
  PROVE  Proposed(a, <<Order(a, type, sd, p)>>)
<1> DEFINE o == Order(a, type, sd, p)
<1>1. o \in OrderForms({NoNode}) /\ o.client = a
  BY DEF Order, OrderForms
<1> HIDE DEF o
<1>2. <<o>> \in Seq(OrderForms({NoNode})) /\ Len(<<o>>) = 1 /\ DOMAIN <<o>> = {1} /\ <<o>>[1] = o
  BY <1>1
<1>3. Proposed(a, <<o>>)
  BY <1>1, <1>2 DEF Proposed, o
<1> QED  BY <1>3 DEF o

LEMMA TwoProposed ==
  ASSUME NEW a \in Agents, NEW p \in AskedPrices, NEW q \in AskedPrices,
         Looked(a, Order(a, "LIMIT", "Buy", p)), Looked(a, Order(a, "LIMIT", "Sell", q))
  PROVE  Proposed(a, <<Order(a, "LIMIT", "Buy", p), Order(a, "LIMIT", "Sell", q)>>)
<1> DEFINE o == Order(a, "LIMIT", "Buy", p)
           r == Order(a, "LIMIT", "Sell", q)
<1>1. /\ o \in OrderForms({NoNode}) /\ o.client = a /\ o.side = "Buy"
      /\ r \in OrderForms({NoNode}) /\ r.client = a /\ r.side = "Sell"
  BY DEF Order, OrderForms, Sides
<1> HIDE DEF o, r
<1>2. /\ <<o, r>> \in Seq(OrderForms({NoNode})) /\ Len(<<o, r>>) = 2 /\ DOMAIN <<o, r>> = {1, 2}
      /\ <<o, r>>[1] = o /\ <<o, r>>[2] = r
  BY <1>1
<1>3. Proposed(a, <<o, r>>)
  BY <1>1, <1>2 DEF Proposed, o, r
<1> QED  BY <1>3 DEF o, r

LEMMA RandomFacts ==
  ASSUME AccountsTyped, NEW a \in RandomAgents, NEW v \in RandomOrders(a)
  PROVE  Proposed(a, v)
<1>1. PICK sd \in Sides, p \in LimitPrices :
        v = IF CanAfford(a, sd, p) THEN <<Order(a, "LIMIT", sd, p)>> ELSE <<>>
  BY DEF RandomOrders
<1>2. a \in Agents /\ p \in AskedPrices
  BY DEF Agents, AskedPrices
<1>3. CASE CanAfford(a, sd, p)
  <2>1. Looked(a, Order(a, "LIMIT", sd, p))
    BY <1>3 DEF Looked, Order, CanAfford, Sides
  <2> QED  BY <1>1, <1>2, <1>3, <2>1, OneProposed
<1> QED  BY <1>1, <1>2, <1>3, NothingProposed

LEMMA MarketMakerFacts ==
  ASSUME AccountsTyped, NEW a \in MarketMakers, NEW v \in MarketMakerOrders(a)
  PROVE  Proposed(a, v)
<1>1. PICK l \in BestOf("Buy"), m \in BestOf("Sell") :
        v \in {Quotes(a, ask, bid) : ask \in Rounded(l + m + 2), bid \in Rounded(l + m - 2)}
  BY DEF MarketMakerOrders
<1>2. PICK ask \in Rounded(l + m + 2), bid \in Rounded(l + m - 2) : v = Quotes(a, ask, bid)
  BY <1>1
<1>3. ask \in AskedPrices /\ bid \in AskedPrices /\ bid \in Int
  BY <1>2 DEF Rounded, AskedPrices
<1>4. a \in Agents /\ a \notin RandomAgents
  BY DEF Agents
<1>5. CASE account[a].units > Lot /\ account[a].available > Cents(bid) * Lot
  <2>1. account[a].units \in Int /\ account[a].available \in Int /\ Cents(bid) * Lot \in Int
    BY <1>3, <1>4 DEF AccountsTyped, Balances, Cents
  <2>2. Looked(a, Order(a, "LIMIT", "Sell", ask))
    BY <1>4, <1>5, <2>1 DEF Looked, Order
  <2>3. Looked(a, Order(a, "LIMIT", "Buy", bid))
    BY <1>4, <1>5, <2>1 DEF Looked, Order
  <2> QED  BY <1>2, <1>3, <1>4, <1>5, <2>2, <2>3, TwoProposed DEF Quotes
<1> QED  BY <1>2, <1>4, <1>5, NothingProposed DEF Quotes

LEMMA MomentumFacts ==
  ASSUME AccountsTyped, NEW a \in MomentumTraders, NEW v \in MomentumOrders(a)
  PROVE  Proposed(a, v)
<1>1. a \in Agents /\ a \notin RandomAgents
  BY DEF Agents
<1>2. CASE v # <<>>
  <2>1. PICK sd \in Sides : /\ v = <<Order(a, "MARKET", sd, MarketPrice(sd))>>
                            /\ IF sd = "Buy" THEN account[a].available > Cents(MaxLevel) * Lot
                                             ELSE account[a].units > Lot
    BY <1>2 DEF MomentumOrders
  <2>2. account[a].units \in Int /\ account[a].available \in Int /\ Cents(MaxLevel) * Lot \in Int
        /\ MarketPrice(sd) \in AskedPrices
    BY <1>1 DEF AccountsTyped, Balances, Cents, MarketPrice, AskedPrices
  <2>3. Looked(a, Order(a, "MARKET", sd, MarketPrice(sd)))
    BY <1>1, <2>1, <2>2 DEF Looked, Order, MarketPrice, Sides
  <2> QED  BY <1>1, <2>1, <2>2, <2>3, OneProposed
<1> QED  BY <1>1, <1>2, NothingProposed

LEMMA WantedFacts ==
  ASSUME AccountsTyped, NEW a \in Agents, NEW v \in Wanted(a)
  PROVE  Proposed(a, v)
<1>1. CASE a \in RandomAgents
  BY <1>1, RandomFacts DEF Wanted
<1>2. CASE a \in MarketMakers
  <2>1. v \in MarketMakerOrders(a) \/ v = <<>>
    BY <1>2 DEF Wanted
  <2> QED  BY <1>2, <2>1, MarketMakerFacts, NothingProposed
<1>3. CASE a \notin RandomAgents /\ a \notin MarketMakers
  BY <1>3, MomentumFacts DEF Wanted, Agents
<1> QED  BY <1>1, <1>2, <1>3

\* What Act returns: orders of one agent, at most one of each side, and cancels.
LEMMA SentFacts ==
  ASSUME AccountsTyped, NEW a \in Agents, NEW aims \in Aims(a), NEW v \in Wanted(a)
  PROVE  /\ Len(v) \in Nat /\ Len(Sent(a, aims, v)) \in Nat /\ Len(v) <= Len(Sent(a, aims, v))
         /\ \A k \in 1 .. Len(Sent(a, aims, v)) :
              /\ Sent(a, aims, v)[k] \in Drafts /\ Sent(a, aims, v)[k].client = a
              /\ Sent(a, aims, v)[k].type # "CANCEL" => Looked(a, Sent(a, aims, v)[k])
         /\ \A j, k \in 1 .. Len(Sent(a, aims, v)) :
              /\ Sent(a, aims, v)[j].type # "CANCEL" /\ Sent(a, aims, v)[k].type # "CANCEL"
              /\ Sent(a, aims, v)[j].side = Sent(a, aims, v)[k].side
              => j = k
<1> DEFINE m == Cardinality(aims)
           c == [k \in 1 .. m |-> Cancel(a)]
           w == Sent(a, aims, v)
<1>1. m \in Nat
  <2>1. aims \subseteq active[a] /\ IsFiniteSet(active[a])
    BY DEF Aims, AccountsTyped
  <2> QED  BY <2>1, FS_Subset, FS_CardinalityType
<1>2. /\ Cancel(a) \in Drafts /\ Cancel(a).client = a /\ Cancel(a).type = "CANCEL"
  BY DEF Cancel, Drafts, CancelForms
<1> HIDE DEF m
<1>3. c \in Seq(Drafts) /\ Len(c) = m /\ \A k \in 1 .. m : c[k] = Cancel(a)
  <2>1. c \in [1 .. m -> Drafts]
    BY <1>2
  <2> HIDE DEF c
  <2>2. c \in Seq(Drafts)
    BY <1>1, <2>1, SeqDef
  <2> QED  BY <1>1, <2>1, <2>2, LenProperties DEF c
<1>4. /\ Proposed(a, v) /\ v \in Seq(Drafts) /\ DOMAIN v = 1 .. Len(v) /\ Len(v) \in Nat
      /\ \A k \in 1 .. Len(v) : v[k] \in Drafts
  <2>1. Proposed(a, v) /\ v \in Seq(OrderForms({NoNode}))
    BY WantedFacts DEF Proposed
  <2>2. /\ DOMAIN v = 1 .. Len(v) /\ Len(v) \in Nat
        /\ \A k \in 1 .. Len(v) : v[k] \in OrderForms({NoNode})
    BY <2>1, LenProperties, ElementOfSeq
  <2>3. \A k \in 1 .. Len(v) : v[k] \in Drafts
    BY <2>2 DEF Drafts
  <2>4. v \in [1 .. Len(v) -> Drafts]
    BY <2>1, <2>2, <2>3
  <2> QED  BY <2>1, <2>2, <2>3, <2>4, SeqDef
<1>5. w = v \o c
  BY DEF Sent, m
<1> HIDE DEF c, w
<1>6. /\ Len(w) = Len(v) + m
      /\ \A k \in 1 .. Len(v) + m : w[k] = IF k <= Len(v) THEN v[k] ELSE c[k - Len(v)]
  <2>1. v \in Seq(Drafts) /\ c \in Seq(Drafts) /\ Len(c) = m
    BY <1>3, <1>4
  <2> QED  BY ONLY <1>5, <2>1, ConcatProperties
<1>7. ASSUME NEW k \in 1 .. Len(w)
      PROVE  \/ k \in 1 .. Len(v) /\ w[k] = v[k]
             \/ w[k] = Cancel(a)
  <2>1. CASE k <= Len(v)
    BY <1>1, <1>4, <1>6, <2>1
  <2>2. CASE ~(k <= Len(v))
    <3>1. k - Len(v) \in 1 .. m
      BY <1>1, <1>4, <1>6, <2>2
    <3> QED  BY <1>3, <1>6, <2>2, <3>1
  <2> QED  BY <2>1, <2>2
<1>8. ASSUME NEW k \in 1 .. Len(w)
      PROVE  w[k] \in Drafts /\ w[k].client = a /\ (w[k].type # "CANCEL" => Looked(a, w[k]))
  BY <1>2, <1>4, <1>7 DEF Proposed
<1>9. ASSUME NEW j \in 1 .. Len(w), NEW k \in 1 .. Len(w),
             w[j].type # "CANCEL", w[k].type # "CANCEL", w[j].side = w[k].side
      PROVE  j = k
  <2>1. j \in DOMAIN v /\ k \in DOMAIN v /\ w[j] = v[j] /\ w[k] = v[k]
    BY <1>2, <1>4, <1>7, <1>9
  <2> QED  BY <1>4, <1>9, <2>1 DEF Proposed
<1>10. Len(w) \in Nat /\ Len(v) <= Len(w)
  BY <1>1, <1>4, <1>6
<1> QED  BY <1>4, <1>8, <1>9, <1>10 DEF w

-----------------------------------------------------------------------------
(* The nodes in somebody's hands                                           *)

Nodes(s) == {s[k].index : k \in DOMAIN s}
Distinct(s) == \A j, k \in DOMAIN s : s[j].index = s[k].index => j = k

LEMMA EmptyNodes == Nodes(<<>>) = {} /\ Distinct(<<>>)
BY DEF Nodes, Distinct

LEMMA FormFacts ==
  ASSUME NEW o \in Forms
  PROVE  o.index \in PoolNodes /\ o.client \in Agents
         /\ (o.type # "CANCEL" => o \in OrderForms(PoolNodes))
         /\ (o.type = "CANCEL" => o \in CancelForms(PoolNodes))
BY DEF Forms, OrderForms, CancelForms

LEMMA NodesTyped ==
  ASSUME NEW s \in Seq(Forms)
  PROVE  Nodes(s) \subseteq PoolNodes
BY FormFacts, ElementOfSeq, LenProperties DEF Nodes

LEMMA AppendNodes ==
  ASSUME NEW s \in Seq(Forms), NEW o \in Forms
  PROVE  /\ Append(s, o) \in Seq(Forms) /\ Len(Append(s, o)) = Len(s) + 1
         /\ Nodes(Append(s, o)) = Nodes(s) \union {o.index}
         /\ Distinct(s) /\ o.index \notin Nodes(s) => Distinct(Append(s, o))
<1> DEFINE t == Append(s, o)
<1>1. /\ t \in Seq(Forms) /\ Len(t) = Len(s) + 1 /\ Len(s) \in Nat
      /\ DOMAIN s = 1 .. Len(s) /\ DOMAIN t = 1 .. Len(s) + 1
      /\ \A k \in 1 .. Len(s) : t[k] = s[k]
      /\ t[Len(s) + 1] = o
  BY AppendProperties, LenProperties
<1> HIDE DEF t
<1>2. Nodes(t) = Nodes(s) \union {o.index}
  BY <1>1 DEF Nodes
<1>3. ASSUME Distinct(s), o.index \notin Nodes(s), NEW j \in DOMAIN t, NEW k \in DOMAIN t,
             t[j].index = t[k].index
      PROVE  j = k
  BY <1>1, <1>3 DEF Nodes, Distinct
<1> QED  BY <1>1, <1>2, <1>3 DEF t, Distinct

LEMMA TailNodes ==
  ASSUME NEW s \in Seq(Forms), s # <<>>
  PROVE  /\ Head(s) \in Forms /\ Tail(s) \in Seq(Forms)
         /\ Len(Tail(s)) = Len(s) - 1 /\ Len(s) \in Nat
         /\ Nodes(s) = Nodes(Tail(s)) \union {Head(s).index}
         /\ Distinct(s) => Distinct(Tail(s)) /\ Head(s).index \notin Nodes(Tail(s))
<1> DEFINE t == Tail(s)
<1>1. /\ t \in Seq(Forms) /\ Len(t) = Len(s) - 1 /\ Len(s) \in Nat /\ Len(s) >= 1
      /\ DOMAIN s = 1 .. Len(s) /\ DOMAIN t = 1 .. Len(s) - 1
      /\ \A k \in 1 .. Len(s) - 1 : t[k] = s[k + 1]
      /\ Head(s) = s[1] /\ Head(s) \in Forms
  BY HeadTailProperties, LenProperties, EmptySeq
<1> HIDE DEF t
<1>2. Nodes(s) = Nodes(t) \union {Head(s).index}
  <2>1. ASSUME NEW x \in Nodes(s) PROVE x \in Nodes(t) \union {Head(s).index}
    <3>1. PICK k \in 1 .. Len(s) : x = s[k].index
      BY <1>1, <2>1 DEF Nodes
    <3>2. k # 1 => k - 1 \in 1 .. Len(s) - 1 /\ t[k - 1] = s[k]
      BY <1>1
    <3> QED  BY <1>1, <3>1, <3>2 DEF Nodes
  <2>2. ASSUME NEW x \in Nodes(t) PROVE x \in Nodes(s)
    <3>1. PICK k \in 1 .. Len(s) - 1 : x = t[k].index
      BY <1>1, <2>2 DEF Nodes
    <3>2. k + 1 \in 1 .. Len(s) /\ t[k] = s[k + 1]
      BY <1>1
    <3> QED  BY <1>1, <3>1, <3>2 DEF Nodes
  <2>3. Head(s).index \in Nodes(s)
    <3>1. 1 \in DOMAIN s
      BY <1>1
    <3> QED  BY <1>1, <3>1 DEF Nodes
  <2> QED  BY <2>1, <2>2, <2>3
<1>3. ASSUME Distinct(s) PROVE Distinct(t) /\ Head(s).index \notin Nodes(t)
  <2>1. \A k \in 1 .. Len(s) - 1 : k + 1 \in 1 .. Len(s) /\ k + 1 # 1 /\ t[k] = s[k + 1]
    BY <1>1
  <2>2. 1 \in 1 .. Len(s)
    BY <1>1
  <2>3. ASSUME NEW j \in 1 .. Len(s) - 1, NEW k \in 1 .. Len(s) - 1, t[j].index = t[k].index
        PROVE  j = k
    <3>1. j + 1 \in DOMAIN s /\ k + 1 \in DOMAIN s /\ s[j + 1].index = s[k + 1].index
      BY <1>1, <2>1, <2>3
    <3>2. j + 1 = k + 1
      BY <1>3, <3>1 DEF Distinct
    <3> QED  BY <3>2
  <2>4. \A k \in 1 .. Len(s) - 1 : t[k].index # Head(s).index
    BY <1>1, <1>3, <2>1, <2>2 DEF Distinct
  <2> QED  BY <1>1, <2>3, <2>4 DEF Distinct, Nodes
<1> QED  BY <1>1, <1>2, <1>3 DEF t

-----------------------------------------------------------------------------
(* The engine and its reports                                              *)

\* The first order tells the second whether it is done.
LEMMA TradeFacts ==
  ASSUME EngineTyped, NEW m \in book, Engine!Trade(m), UNCHANGED index
  PROVE  /\ EngineTyped'
         /\ reports' \subseteq AllReports
         /\ \A x, y \in reports' : x.side = y.side => x = y
<1> DEFINE q == IF m.qty < taker.qty THEN m.qty ELSE taker.qty
           left == [m EXCEPT !.qty = @ - q]
<1>1. /\ taker # NoTaker /\ taker.qty > 0
      /\ m \in EngineOrders /\ m.id \in 1 .. lastId /\ m.qty \in 1 .. Lot
      /\ taker \in EngineOrders /\ taker.id \in 1 .. lastId /\ taker.qty \in 0 .. Lot
      /\ \A o \in book : o.id # taker.id
      /\ m.side = Opposite(taker.side)
      /\ lastId \in Nat /\ IsFiniteSet(book) /\ Lot \in Nat
  <2>1. taker # NoTaker /\ taker.qty > 0 /\ m.side = Opposite(taker.side)
    <3>1. taker # NoTaker /\ taker.qty > 0 /\ Engine!First(m)
      BY DEF Engine!Trade
    <3>2. m \in Engine!Offers
      BY <3>1 DEF Engine!First
    <3> QED  BY <3>1, <3>2 DEF Engine!Offers, Engine!Opposite, Opposite
  <2>2. /\ taker \in EngineOrders /\ taker.id \in 1 .. lastId /\ taker.qty \in 0 .. Lot
        /\ \A o \in book : o.id # taker.id
    BY <2>1 DEF EngineTyped
  <2>3. /\ m \in EngineOrders /\ m.id \in 1 .. lastId /\ m.qty \in 1 .. Lot
        /\ lastId \in Nat /\ IsFiniteSet(book)
    BY DEF EngineTyped
  <2> QED  BY <2>1, <2>2, <2>3
<1>2. /\ taker' = [taker EXCEPT !.qty = @ - q]
      /\ book' = (book \ {m}) \union (IF m.qty = q THEN {} ELSE {left})
      /\ reports' = {Engine!Report(taker, m.price, q, m, Engine!Done(taker, q)),
                     Engine!Report(m, m.price, q, taker, Engine!Done(m, q))}
      /\ lastId' = lastId
  BY DEF Engine!Trade, Engine!Left
<1>3. m.qty \in Nat /\ taker.qty \in Nat /\ q \in 1 .. Lot /\ q <= m.qty /\ q <= taker.qty
  BY <1>1 DEF EngineOrders
<1> HIDE DEF q
<1>4. /\ left \in EngineOrders /\ left.id = m.id /\ left.qty = m.qty - q
      /\ taker' \in EngineOrders /\ taker'.id = taker.id /\ taker'.qty = taker.qty - q
  BY <1>1, <1>2, <1>3 DEF EngineOrders
<1> HIDE DEF left
<1>5. EngineTyped'
  <2>1. book' \in SUBSET EngineOrders
    BY <1>2, <1>4 DEF EngineTyped
  <2>2. IsFiniteSet(book')
    <3>1. IsFiniteSet(book \ {m})
      BY <1>1, FS_RemoveElement
    <3>2. IsFiniteSet((book \ {m}) \union {left})
      BY <3>1, FS_AddElement
    <3>3. m.qty = q => book' = book \ {m}
      BY <1>2
    <3>4. m.qty # q => book' = (book \ {m}) \union {left}
      BY <1>2
    <3> QED  BY <3>1, <3>2, <3>3, <3>4
  <2>3. ASSUME NEW o \in book' PROVE o.id \in 1 .. lastId /\ o.qty \in 1 .. Lot /\ o.id # taker.id
    <3>1. CASE o \in book
      BY <1>1, <3>1 DEF EngineTyped
    <3>2. CASE o \notin book
      <4>1. o = left /\ m.qty # q
        BY <1>2, <2>3, <3>2
      <4>2. left.qty \in 1 .. Lot
        BY <1>1, <1>3, <1>4, <4>1
      <4> QED  BY <1>1, <1>4, <4>1, <4>2
    <3> QED  BY <3>1, <3>2
  <2>4. ASSUME NEW o \in book', NEW r \in book', o.id = r.id PROVE o = r
    <3>1. \A x \in book' : x \in book \ {m} \/ x = left
      BY <1>2
    <3>2. \A x \in book \ {m} : x.id # left.id
      BY <1>4 DEF EngineTyped
    <3> QED  BY <2>4, <3>1, <3>2 DEF EngineTyped
  <2>5. taker'.qty \in 0 .. Lot
    BY <1>1, <1>3, <1>4
  <2> QED  BY <1>1, <1>2, <1>4, <2>1, <2>2, <2>3, <2>4, <2>5 DEF EngineTyped
<1>6. /\ taker.id \in Nat /\ taker.type \in {"LIMIT", "MARKET"} /\ taker.client \in Agents
      /\ taker.side \in Sides /\ taker.price \in Int
      /\ m.id \in Nat /\ m.type \in {"LIMIT", "MARKET"} /\ m.client \in Agents
      /\ m.side \in Sides /\ m.price \in Int /\ q \in Nat
      /\ m.side # taker.side
  <2>1. taker.price \in AskedPrices /\ m.price \in AskedPrices
    BY <1>1, <1>3 DEF EngineOrders
  <2>2. taker.price \in Int /\ m.price \in Int
    BY <2>1, AskedPricesTyped
  <2> QED  BY <1>1, <1>3, <2>2 DEF EngineOrders, Opposite, Sides
<1>7. \A x \in reports' : x \in AllReports
  BY <1>2, <1>6 DEF AllReports, Engine!Report, Engine!Done
<1>8. \A x, y \in reports' : x.side = y.side => x = y
  <2>1. /\ Engine!Report(taker, m.price, q, m, Engine!Done(taker, q)).side = taker.side
        /\ Engine!Report(m, m.price, q, taker, Engine!Done(m, q)).side = m.side
    BY DEF Engine!Report
  <2> QED  BY <1>2, <1>6, <2>1
<1> QED  BY <1>5, <1>7, <1>8

LEMMA RestFacts ==
  ASSUME EngineTyped, Engine!Rest, UNCHANGED index
  PROVE  EngineTyped'
<1>1. book' = book \union {taker} /\ taker' = NoTaker /\ lastId' = lastId /\ taker # NoTaker
      /\ taker.qty > 0 /\ taker.qty \in Int
  BY DEF Engine!Rest, EngineTyped, EngineOrders
<1>2. IsFiniteSet(book')
  BY <1>1, FS_AddElement DEF EngineTyped
<1>3. taker.qty \in 1 .. Lot
  BY <1>1 DEF EngineTyped
<1> QED  BY <1>1, <1>2, <1>3 DEF EngineTyped

LEMMA LeaveFacts ==
  ASSUME EngineTyped, Engine!Expire \/ Engine!Finish, UNCHANGED index
  PROVE  EngineTyped'
BY DEF EngineTyped, Engine!Expire, Engine!Finish

LEMMA ExpireFacts ==
  ASSUME EngineTyped, Engine!Expire
  PROVE  /\ reports' = {Engine!Report(taker, taker.price, taker.qty, taker, "CANCEL")}
         /\ reports' \subseteq AllReports
         /\ \A x, y \in reports' : x.side = y.side => x = y
<1>1. reports' = {Engine!Report(taker, taker.price, taker.qty, taker, "CANCEL")}
  BY DEF Engine!Expire
<1>2. Engine!Report(taker, taker.price, taker.qty, taker, "CANCEL") \in AllReports
  BY AskedPricesTyped DEF Engine!Expire, EngineTyped, EngineOrders, Engine!Report, AllReports
<1> QED  BY <1>1, <1>2

\* The engine and index_ when an order or a cancel is popped.
LEMMA PopFacts ==
  ASSUME EngineTyped, OrdersTyped, PopOrder
  PROVE  /\ EngineTyped'
         /\ \A o \in book' : o \in book /\ index'[o.id] = index[o.id]
         /\ index'[lastId + 1] = Head(orders).index
         /\ taker = NoTaker
         /\ taker' # NoTaker => taker'.id = lastId + 1
<1> DEFINE o == Head(orders)
<1>1. /\ o \in Forms /\ index' = Append(index, o.index) /\ o.index \in PoolNodes
      /\ taker = NoTaker /\ lastId' = lastId + 1 /\ book' = book
  <2>1. o \in Forms
    BY TailNodes DEF OrdersTyped, PopOrder
  <2> QED  BY <2>1, FormFacts DEF PopOrder, Engine!Arrive, Engine!Skip
<1>2. /\ index' \in Seq(PoolNodes) /\ Len(index') = lastId + 1 /\ index'[lastId + 1] = o.index
      /\ \A k \in 1 .. lastId : index'[k] = index[k]
  BY <1>1, AppendProperties DEF EngineTyped
<1>3. taker' # NoTaker => /\ taker' \in EngineOrders /\ taker'.id = lastId + 1
                          /\ taker'.qty = Lot
  <2>1. CASE o.type = "CANCEL"
    BY <1>1, <2>1 DEF PopOrder, Engine!Skip
  <2>2. CASE o.type # "CANCEL"
    <3>1. o \in OrderForms(PoolNodes)
      BY <1>1, <2>2, FormFacts
    <3>2. taker' = Engine!Order(lastId + 1, o.type, o.client, o.side, o.price, o.qty)
      BY <2>2 DEF PopOrder, Engine!Arrive
    <3>3. lastId + 1 \in Nat /\ o.qty = Lot
      BY <3>1 DEF EngineTyped, OrderForms
    <3> HIDE DEF o
    <3>4. taker'.id = lastId + 1 /\ taker'.qty = Lot
      BY <3>2, <3>3 DEF Engine!Order
    <3>5. taker' \in EngineOrders
      BY <3>1, <3>2, <3>3 DEF EngineOrders, Engine!Order, OrderForms
    <3> QED  BY <3>4, <3>5
  <2> QED  BY <2>1, <2>2
<1> HIDE DEF o
<1>4. lastId \in Nat /\ (\A r \in book : r.id \in 1 .. lastId /\ r.id \in 1 .. lastId + 1 /\ r.id # lastId + 1)
      /\ lastId + 1 \in 1 .. lastId + 1 /\ Lot \in 0 .. Lot
  BY DEF EngineTyped
<1>5. EngineTyped'
  BY <1>1, <1>2, <1>3, <1>4 DEF EngineTyped
<1>6. \A r \in book' : r \in book /\ index'[r.id] = index[r.id]
  BY <1>1, <1>2, <1>4
<1> QED  BY <1>1, <1>2, <1>3, <1>5, <1>6 DEF o

-----------------------------------------------------------------------------
(* The mail                                                                *)

LEMMA SetToSeqFacts ==
  ASSUME NEW r
  PROVE  SetToSeq({}) = <<>> /\ SetToSeq({r}) = <<r>>
<1>1. Cardinality({}) = 0 /\ Cardinality({r}) = 1
  BY FS_EmptySet, FS_Singleton
<1>2. SetToSeq({}) = <<>>
  <2>1. 1 .. 0 = {}
    OBVIOUS
  <2>2. <<>> \in [1 .. 0 -> {}] /\ \A f \in [1 .. 0 -> {}] : f = <<>>
    BY <2>1
  <2>3. IsInjective(<<>>)
    BY DEF IsInjective
  <2> QED  BY <1>1, <2>2, <2>3 DEF SetToSeq
<1>3. SetToSeq({r}) = <<r>>
  <2>1. 1 .. 1 = {1}
    OBVIOUS
  <2>2. <<r>> \in [1 .. 1 -> {r}] /\ \A f \in [1 .. 1 -> {r}] : f = <<r>>
    BY <2>1
  <2>3. IsInjective(<<r>>)
    BY DEF IsInjective
  <2> QED  BY <1>1, <2>2, <2>3 DEF SetToSeq
<1> QED  BY <1>2, <1>3

Half(a, sd) == SetToSeq({r \in reports' : r.clientRef = a /\ r.side = sd})
Mail(a) == Half(a, "Sell") \o Half(a, "Buy")

LEMMA HalfFacts ==
  ASSUME reports' \subseteq AllReports, \A x, y \in reports' : x.side = y.side => x = y,
         NEW a, NEW sd
  PROVE  /\ \A r \in reports' : r.clientRef = a /\ r.side = sd => Half(a, sd) = <<r>>
         /\ (\A r \in reports' : ~(r.clientRef = a /\ r.side = sd)) => Half(a, sd) = <<>>
         /\ Half(a, sd) \in Seq(AllReports)
<1> DEFINE R == {r \in reports' : r.clientRef = a /\ r.side = sd}
<1>1. \A r \in R : R = {r} /\ r \in AllReports
  OBVIOUS
<1>2. \A r \in R : Half(a, sd) = <<r>>
  BY <1>1, SetToSeqFacts DEF Half
<1>3. R = {} => Half(a, sd) = <<>>
  BY SetToSeqFacts DEF Half
<1>4. Half(a, sd) \in Seq(AllReports)
  <2>1. CASE R = {}
    <3>1. Half(a, sd) = <<>>
      BY <1>3, <2>1
    <3>2. <<>> \in Seq(AllReports)
      OBVIOUS
    <3> QED  BY <3>1, <3>2
  <2>2. CASE R # {}
    <3>1. PICK r \in R : TRUE
      BY <2>2
    <3>2. Half(a, sd) = <<r>> /\ r \in AllReports
      BY <1>1, <1>2, <3>1
    <3>3. <<r>> \in Seq(AllReports)
      BY <3>2
    <3> QED  BY <3>2, <3>3
  <2> HIDE DEF R
  <2> QED  BY <2>1, <2>2
<1> QED  BY <1>2, <1>3, <1>4

\* What of the mail still fits goes into the ring buffer, the rest is lost.
Delivers ==
  \A a \in Agents : \E f \in 0 .. Len(Mail(a)) :
    /\ inbox'[a] = inbox[a] \o SubSeq(Mail(a), 1, f)
    /\ lost'[a] = lost[a] \o SubSeq(Mail(a), f + 1, Len(Mail(a)))

LEMMA DispatchFacts ==
  ASSUME MailTyped, Dispatch,
         reports' \subseteq AllReports, \A x, y \in reports' : x.side = y.side => x = y
  PROVE  MailTyped' /\ Delivers
<1>1. /\ inbox' = [a \in Agents |-> Arrived(a, Mail(a))]
      /\ lost' = [a \in Agents |-> lost[a] \o
                    SubSeq(Mail(a), Len(Arrived(a, Mail(a))) - Len(inbox[a]) + 1, Len(Mail(a)))]
  BY DEF Dispatch, Mail, Half
<1>2. ASSUME NEW a \in Agents
      PROVE  \E f \in 0 .. Len(Mail(a)) :
               /\ inbox'[a] = inbox[a] \o SubSeq(Mail(a), 1, f)
               /\ lost'[a] = lost[a] \o SubSeq(Mail(a), f + 1, Len(Mail(a)))
               /\ inbox'[a] \in Seq(AllReports) /\ lost'[a] \in Seq(AllReports)
               /\ Len(inbox'[a]) <= InboxCap
  <2> DEFINE M == Mail(a)
             f == IF Len(M) <= InboxCap - Len(inbox[a]) THEN Len(M) ELSE InboxCap - Len(inbox[a])
  <2>1. M \in Seq(AllReports) /\ Len(M) \in Nat
    BY HalfFacts, ConcatProperties, LenProperties DEF Mail
  <2>2. inbox[a] \in Seq(AllReports) /\ lost[a] \in Seq(AllReports)
        /\ Len(inbox[a]) \in Nat /\ Len(inbox[a]) <= InboxCap /\ InboxCap \in Nat
    BY LenProperties DEF MailTyped
  <2> HIDE DEF M
  <2>3. f \in 0 .. Len(M) /\ Len(inbox[a]) + f <= InboxCap
    <3>1. InboxCap - Len(inbox[a]) \in Nat
      BY <2>2
    <3> DEFINE c == InboxCap - Len(inbox[a])
    <3>2. f = IF Len(M) <= c THEN Len(M) ELSE c
      OBVIOUS
    <3>3. c \in Nat
      BY <3>1
    <3> HIDE DEF c, f
    <3>4. f \in 0 .. Len(M) /\ f <= c
      BY <2>1, <3>2, <3>3
    <3>5. f \in 0 .. Len(M) /\ f <= InboxCap - Len(inbox[a])
      BY <3>4 DEF c
    <3> QED  BY <2>2, <3>5
  <2>4. inbox'[a] = inbox[a] \o SubSeq(M, 1, f)
    BY <1>1 DEF Arrived, M
  <2> HIDE DEF f
  <2>5. \A i \in 1 .. Len(M) : M[i] \in AllReports
    BY <2>1, ElementOfSeq
  <2>6. SubSeq(M, 1, f) \in Seq(AllReports) /\ Len(SubSeq(M, 1, f)) = f
    BY <2>1, <2>3, <2>5, SubSeqProperties
  <2>7. SubSeq(M, f + 1, Len(M)) \in Seq(AllReports)
    <3>1. \A i \in f + 1 .. Len(M) : M[i] \in AllReports
      BY <2>1, <2>3, <2>5
    <3> QED  BY <2>1, <2>3, <3>1, SubSeqProperties
  <2>8. inbox'[a] \in Seq(AllReports) /\ Len(inbox'[a]) = Len(inbox[a]) + f
    BY <2>2, <2>4, <2>6, ConcatProperties
  <2>9. Arrived(a, M) = inbox'[a]
    BY <1>1 DEF M
  <2>10. lost'[a] = lost[a] \o SubSeq(M, f + 1, Len(M))
    <3>1. lost'[a] = lost[a] \o SubSeq(M, Len(inbox'[a]) - Len(inbox[a]) + 1, Len(M))
      BY <1>1, <2>9 DEF M
    <3>2. Len(inbox'[a]) - Len(inbox[a]) = f
      BY <2>2, <2>3, <2>8
    <3> QED  BY <3>1, <3>2
  <2>11. lost'[a] \in Seq(AllReports)
    BY <2>2, <2>7, <2>10, ConcatProperties
  <2>12. Len(inbox'[a]) <= InboxCap
    BY <2>3, <2>8
  <2> QED  BY <2>3, <2>4, <2>8, <2>10, <2>11, <2>12 DEF M
<1>3. Delivers
  BY <1>2 DEF Delivers
<1>4. inbox' \in [Agents -> Seq(AllReports)] /\ lost' \in [Agents -> Seq(AllReports)]
  BY <1>1, <1>2
<1>5. MailTyped'
  BY <1>2, <1>4 DEF MailTyped
<1> QED  BY <1>3, <1>5

-----------------------------------------------------------------------------
(* Types                                                                   *)

\* The three balances of an account after an update.
Becomes(acct, available, reserved, units) ==
  /\ acct \in Balances
  /\ acct.available = available /\ acct.reserved = reserved /\ acct.units = units

LEMMA BalanceUpdates ==
  ASSUME NEW acct \in Balances, NEW x \in Int, NEW y \in Int, NEW z \in Int
  PROVE  /\ Becomes([acct EXCEPT !.available = x], x, acct.reserved, acct.units)
         /\ Becomes([acct EXCEPT !.units = z], acct.available, acct.reserved, z)
         /\ Becomes([acct EXCEPT !.available = x, !.reserved = y], x, y, acct.units)
         /\ Becomes([acct EXCEPT !.reserved = y, !.available = x], x, y, acct.units)
         /\ Becomes([acct EXCEPT !.reserved = y, !.available = x, !.units = z], x, y, z)
BY DEF Balances, Becomes

LEMMA BookedFields ==
  ASSUME NEW acct \in Balances, NEW r \in AllReports
  PROVE  LET paid == Cents(r.price) * r.quantity
             held == Cents(r.other.price) * r.quantity
             back == (Cents(r.other.price) - Cents(r.price)) * r.quantity
         IN /\ paid \in Int /\ held \in Int /\ back \in Int /\ back = held - paid
            /\ r.type = "CANCEL" /\ r.side = "Sell" =>
                 Becomes(Booked(acct, r), acct.available, acct.reserved, acct.units + r.quantity)
            /\ r.type = "CANCEL" /\ r.side # "Sell" =>
                 Becomes(Booked(acct, r), acct.available + paid, acct.reserved - paid, acct.units)
            /\ r.type # "CANCEL" /\ r.side = "Sell" =>
                 Becomes(Booked(acct, r), acct.available + paid, acct.reserved, acct.units)
            /\ r.type # "CANCEL" /\ r.side # "Sell" =>
                 Becomes(Booked(acct, r), acct.available + back, acct.reserved - held, acct.units + r.quantity)
<1> DEFINE paid == Cents(r.price) * r.quantity
           held == Cents(r.other.price) * r.quantity
           back == (Cents(r.other.price) - Cents(r.price)) * r.quantity
<1>1. /\ acct.available \in Int /\ acct.reserved \in Int /\ acct.units \in Int
      /\ r.quantity \in Int /\ Cents(r.price) \in Int /\ Cents(r.other.price) \in Int
  BY DEF Balances, AllReports, Cents
<1>2. paid \in Int /\ held \in Int /\ back \in Int /\ back = held - paid
  BY <1>1
<1>3. /\ AfterCancel(acct, r) =
           IF r.side = "Sell" THEN [acct EXCEPT !.units = acct.units + r.quantity]
           ELSE [acct EXCEPT !.reserved = acct.reserved - paid, !.available = acct.available + paid]
      /\ AfterTrade(acct, r) =
           IF r.side = "Sell" THEN [acct EXCEPT !.available = acct.available + paid]
           ELSE [acct EXCEPT !.reserved = acct.reserved - held, !.available = acct.available + back,
                             !.units = acct.units + r.quantity]
  BY DEF AfterCancel, AfterTrade
<1> HIDE DEF paid, held, back
<1>4. /\ acct.available + paid \in Int /\ acct.available + back \in Int
      /\ acct.reserved - paid \in Int /\ acct.reserved - held \in Int
      /\ acct.units + r.quantity \in Int
  BY <1>1, <1>2
<1>5. ASSUME r.side = "Sell"
      PROVE  /\ Becomes(AfterCancel(acct, r), acct.available, acct.reserved, acct.units + r.quantity)
             /\ Becomes(AfterTrade(acct, r), acct.available + paid, acct.reserved, acct.units)
  <2>1. /\ AfterCancel(acct, r) = [acct EXCEPT !.units = acct.units + r.quantity]
        /\ AfterTrade(acct, r) = [acct EXCEPT !.available = acct.available + paid]
    BY <1>3, <1>5
  <2> QED  BY <1>4, <2>1, BalanceUpdates
<1>7. ASSUME r.side # "Sell"
      PROVE  /\ Becomes(AfterCancel(acct, r), acct.available + paid, acct.reserved - paid, acct.units)
             /\ Becomes(AfterTrade(acct, r), acct.available + back, acct.reserved - held,
                        acct.units + r.quantity)
  <2>1. /\ AfterCancel(acct, r) =
             [acct EXCEPT !.reserved = acct.reserved - paid, !.available = acct.available + paid]
        /\ AfterTrade(acct, r) =
             [acct EXCEPT !.reserved = acct.reserved - held, !.available = acct.available + back,
                          !.units = acct.units + r.quantity]
    BY <1>3, <1>7
  <2> DEFINE aPaid == acct.available + paid
             aBack == acct.available + back
             rPaid == acct.reserved - paid
             rHeld == acct.reserved - held
             more == acct.units + r.quantity
  <2>2. aPaid \in Int /\ aBack \in Int /\ rPaid \in Int /\ rHeld \in Int /\ more \in Int
    BY <1>4
  <2> HIDE DEF aPaid, aBack, rPaid, rHeld, more
  <2>3. Becomes([acct EXCEPT !.reserved = rPaid, !.available = aPaid], aPaid, rPaid, acct.units)
    BY <2>2, BalanceUpdates
  <2>4. Becomes([acct EXCEPT !.reserved = rHeld, !.available = aBack, !.units = more], aBack, rHeld, more)
    BY <2>2, BalanceUpdates
  <2> QED  BY <2>1, <2>3, <2>4 DEF aPaid, aBack, rPaid, rHeld, more
<1>6. /\ r.type = "CANCEL" => Booked(acct, r) = AfterCancel(acct, r)
      /\ r.type # "CANCEL" => Booked(acct, r) = AfterTrade(acct, r)
  BY DEF Booked
<1> QED  BY <1>2, <1>5, <1>6, <1>7 DEF paid, held, back

LEMMA BookedTyped ==
  ASSUME NEW acct \in Balances, NEW r \in AllReports
  PROVE  Booked(acct, r) \in Balances
BY BookedFields DEF Becomes

LEMMA ReservedForFields ==
  ASSUME NEW acct \in Balances, NEW o \in OrderForms(PoolNodes)
  PROVE  LET cost == Cents(o.price) * o.qty
         IN /\ cost \in Int /\ o.qty \in Int
            /\ o.side = "Sell" =>
                 Becomes(ReservedFor(acct, o), acct.available, acct.reserved, acct.units - o.qty)
            /\ o.side # "Sell" =>
                 Becomes(ReservedFor(acct, o), acct.available - cost, acct.reserved + cost, acct.units)
<1> DEFINE cost == Cents(o.price) * o.qty
<1>1. /\ acct.available \in Int /\ acct.reserved \in Int /\ acct.units \in Int
      /\ o.qty \in Int /\ Cents(o.price) \in Int
  <2>1. o.price \in AskedPrices
    BY DEF OrderForms
  <2>2. o.price \in Int
    BY <2>1, AskedPricesTyped
  <2> QED  BY <2>2, OrdersAssumption DEF Balances, OrderForms, Cents
<1>2. cost \in Int
  BY <1>1
<1>3. ReservedFor(acct, o) =
        IF o.side = "Sell" THEN [acct EXCEPT !.units = acct.units - o.qty]
        ELSE [acct EXCEPT !.available = acct.available - cost, !.reserved = acct.reserved + cost]
  BY DEF ReservedFor
<1> HIDE DEF cost
<1>4. acct.available - cost \in Int /\ acct.reserved + cost \in Int /\ acct.units - o.qty \in Int
  BY <1>1, <1>2
<1>5. /\ o.side = "Sell" =>
           Becomes(ReservedFor(acct, o), acct.available, acct.reserved, acct.units - o.qty)
      /\ o.side # "Sell" =>
           Becomes(ReservedFor(acct, o), acct.available - cost, acct.reserved + cost, acct.units)
  <2>1. CASE o.side = "Sell"
    <3>1. ReservedFor(acct, o) = [acct EXCEPT !.units = acct.units - o.qty]
      BY <1>3, <2>1
    <3>2. Becomes([acct EXCEPT !.units = acct.units - o.qty],
                  acct.available, acct.reserved, acct.units - o.qty)
      BY <1>4, BalanceUpdates
    <3> QED  BY <2>1, <3>1, <3>2
  <2>2. CASE o.side # "Sell"
    <3>1. ReservedFor(acct, o) =
            [acct EXCEPT !.available = acct.available - cost, !.reserved = acct.reserved + cost]
      BY <1>3, <2>2
    <3>2. Becomes([acct EXCEPT !.available = acct.available - cost, !.reserved = acct.reserved + cost],
                  acct.available - cost, acct.reserved + cost, acct.units)
      BY <1>1, <1>4, BalanceUpdates
    <3> QED  BY <2>2, <3>1, <3>2
  <2> QED  BY <2>1, <2>2
<1> QED  BY <1>1, <1>2, <1>5 DEF cost

LEMMA ReservedForTyped ==
  ASSUME NEW acct \in Balances, NEW o \in OrderForms(PoolNodes)
  PROVE  ReservedFor(acct, o) \in Balances
BY ReservedForFields DEF Becomes

LEMMA InitTyped == Init => Typed
<1> SUFFICES ASSUME Init PROVE Typed
  OBVIOUS
<1>1. AccountsTyped
  BY FS_EmptySet DEF Init, AccountsTyped, Balances
<1>2. MailTyped
  BY DEF Init, MailTyped
<1>3. OrdersTyped
  BY DEF Init, OrdersTyped
<1>4. EngineTyped
  BY FS_EmptySet DEF Init, EngineTyped, Engine!Init
<1> QED  BY <1>1, <1>2, <1>3, <1>4 DEF Typed

LEMMA PushTyped ==
  ASSUME Typed, PushOrder
  PROVE  Typed'
<1> DEFINE o == Head(outgoing)
<1>1. /\ outgoing \in Seq(Forms) /\ orders \in Seq(Forms) /\ dropped \in Seq(Forms)
      /\ outgoing # <<>> /\ Len(orders) <= QueueCap
  BY DEF Typed, OrdersTyped, PushOrder
<1>2. o \in Forms /\ Tail(outgoing) \in Seq(Forms) /\ o.index \in PoolNodes /\ o.client \in Agents
  BY <1>1, TailNodes, FormFacts
<1>3. AccountsTyped'
  <2>1. CASE o.type = "CANCEL"
    BY <2>1 DEF PushOrder, Typed, AccountsTyped
  <2>2. CASE o.type # "CANCEL"
    <3>1. /\ account' = [account EXCEPT ![o.client] = ReservedFor(@, o)]
          /\ active' = [active EXCEPT ![o.client] = @ \union {o.index}]
      BY <2>2 DEF PushOrder
    <3>2. o \in OrderForms(PoolNodes) /\ o.index \in Nat
      BY <1>2, <2>2, FormFacts DEF PoolNodes
    <3> HIDE DEF o
    <3>3. ReservedFor(account[o.client], o) \in Balances
      BY <1>2, <3>2, ReservedForTyped DEF Typed, AccountsTyped
    <3>4. active' \in [Agents -> SUBSET Nat]
      BY <1>2, <3>1, <3>2 DEF Typed, AccountsTyped
    <3>5. ASSUME NEW b \in Agents PROVE IsFiniteSet(active'[b])
      <4>1. IsFiniteSet(active[b]) /\ IsFiniteSet(active[b] \union {o.index})
        BY FS_AddElement DEF Typed, AccountsTyped
      <4> QED  BY <1>2, <3>1, <4>1 DEF Typed, AccountsTyped
    <3> QED  BY <1>2, <3>1, <3>3, <3>4, <3>5 DEF Typed, AccountsTyped
  <2> QED  BY <2>1, <2>2
<1>4. OrdersTyped'
  <2>1. \/ Len(orders) < QueueCap /\ orders' = Append(orders, o) /\ dropped' = dropped
        \/ dropped' = Append(dropped, o) /\ orders' = orders
    BY DEF PushOrder, Enqueue
  <2>2. outgoing' = Tail(outgoing)
    BY DEF PushOrder
  <2>3. /\ Append(orders, o) \in Seq(Forms) /\ Len(Append(orders, o)) = Len(orders) + 1
        /\ Append(dropped, o) \in Seq(Forms) /\ Len(orders) \in Nat
    BY <1>1, <1>2, AppendNodes, LenProperties
  <2> HIDE DEF o
  <2>4. orders' \in Seq(Forms) /\ Len(orders') <= QueueCap /\ dropped' \in Seq(Forms)
    <3>1. CASE Len(orders) < QueueCap /\ orders' = Append(orders, o) /\ dropped' = dropped
      <4>1. Len(orders) + 1 <= QueueCap
        BY <2>3, <3>1
      <4> QED  BY <1>1, <2>3, <3>1, <4>1
    <3>2. CASE dropped' = Append(dropped, o) /\ orders' = orders
      BY <1>1, <2>3, <3>2
    <3> QED  BY <2>1, <3>1, <3>2
  <2> QED  BY <1>2, <2>2, <2>4 DEF OrdersTyped, o
<1>5. MailTyped' /\ EngineTyped'
  BY DEF PushOrder, Typed, MailTyped, EngineTyped, Engine!Delivered
<1> QED  BY <1>3, <1>4, <1>5 DEF Typed

LEMMA PopOrderTyped ==
  ASSUME Typed, PopOrder
  PROVE  Typed'
<1>1. EngineTyped'
  BY PopFacts DEF Typed
<1>2. AccountsTyped' /\ MailTyped'
  BY DEF PopOrder, NoReport, agentVars, Typed, AccountsTyped, MailTyped
<1>3. OrdersTyped'
  <2>1. Tail(orders) \in Seq(Forms) /\ Len(Tail(orders)) = Len(orders) - 1 /\ Len(orders) \in Nat
    BY TailNodes DEF PopOrder, Typed, OrdersTyped
  <2>2. orders' = Tail(orders) /\ outgoing' = outgoing /\ dropped' = dropped
    BY DEF PopOrder, agentVars
  <2>3. Len(orders) <= QueueCap
    BY DEF Typed, OrdersTyped
  <2> QED  BY <2>1, <2>2, <2>3 DEF Typed, OrdersTyped
<1> QED  BY <1>1, <1>2, <1>3 DEF Typed

\* Trade, Rest, Expire and Finish. What MarketRest and ReturnCancel change is typed
\* with the nodes.
LEMMA MatchTyped ==
  ASSUME Typed, (\E m \in book : Trade(m)) \/ Rest \/ Expire \/ Finish
  PROVE  Typed'
<1>1. AccountsTyped' /\ OrdersTyped'
  BY DEF Trade, Rest, Expire, Finish, agentVars, Typed, AccountsTyped, OrdersTyped
<1>2. CASE \E m \in book : Trade(m)
  <2>1. PICK m \in book : Trade(m)
    BY <1>2
  <2>2. Engine!Trade(m) /\ Dispatch /\ UNCHANGED index
    BY <2>1 DEF Trade
  <2>3. EngineTyped' /\ MailTyped'
    BY <2>2, TradeFacts, DispatchFacts DEF Typed
  <2> QED  BY <1>1, <2>3 DEF Typed
<1>3. CASE Rest
  <2>1. EngineTyped' /\ MailTyped'
    BY <1>3, RestFacts DEF Rest, NoReport, Typed, MailTyped
  <2> QED  BY <1>1, <2>1 DEF Typed
<1>4. CASE Expire
  <2>1. Engine!Expire /\ Dispatch /\ UNCHANGED index
    BY <1>4 DEF Expire
  <2>2. EngineTyped' /\ MailTyped'
    BY <2>1, LeaveFacts, ExpireFacts, DispatchFacts DEF Typed
  <2> QED  BY <1>1, <2>2 DEF Typed
<1>5. CASE Finish
  <2>1. EngineTyped' /\ MailTyped'
    BY <1>5, LeaveFacts DEF Finish, NoReport, Typed, MailTyped
  <2> QED  BY <1>1, <2>1 DEF Typed
<1> QED  BY <1>2, <1>3, <1>4, <1>5

LEMMA PopTradeTyped ==
  ASSUME Typed, NEW a \in Agents, PopTrade(a)
  PROVE  Typed'
<1> DEFINE r == Head(inbox[a])
<1>1. /\ r \in AllReports /\ Tail(inbox[a]) \in Seq(AllReports)
      /\ Len(Tail(inbox[a])) = Len(inbox[a]) - 1 /\ Len(inbox[a]) \in Nat
      /\ Len(inbox[a]) <= InboxCap
  BY HeadTailProperties, LenProperties DEF PopTrade, Typed, MailTyped
<1>2. AccountsTyped'
  <2>1. account' = [account EXCEPT ![a] = Booked(@, r)]
    BY DEF PopTrade
  <2>2. Booked(account[a], r) \in Balances
    BY <1>1, BookedTyped DEF Typed, AccountsTyped
  <2>3. active' \in [Agents -> SUBSET Nat] /\ \A b \in Agents : active'[b] \subseteq active[b]
    BY DEF PopTrade, Typed, AccountsTyped
  <2>4. \A b \in Agents : IsFiniteSet(active'[b])
    BY <2>3, FS_Subset DEF Typed, AccountsTyped
  <2> QED  BY <2>1, <2>2, <2>3, <2>4 DEF Typed, AccountsTyped
<1>3. MailTyped'
  <2>1. inbox' = [inbox EXCEPT ![a] = Tail(@)] /\ lost' = lost
    BY DEF PopTrade
  <2>2. inbox'[a] = Tail(inbox[a]) /\ \A b \in Agents \ {a} : inbox'[b] = inbox[b]
    BY <2>1 DEF Typed, MailTyped
  <2>3. Len(inbox'[a]) <= InboxCap
    BY <1>1, <2>2
  <2> QED  BY <1>1, <2>1, <2>2, <2>3 DEF Typed, MailTyped
<1>4. OrdersTyped' /\ EngineTyped'
  BY DEF PopTrade, Typed, OrdersTyped, EngineTyped, Engine!Delivered
<1> QED  BY <1>2, <1>3, <1>4 DEF Typed

-----------------------------------------------------------------------------
(* Every node is in one place                                              *)

EngineNodes ==
  {index[o.id] : o \in book} \union (IF taker = NoTaker THEN {} ELSE {index[taker.id]}) \union
  ({cxl} \ {NoNode})

EngineDistinct ==
  /\ cxl \in PoolNodes \union {NoNode}
  /\ \A o, r \in book : index[o.id] = index[r.id] => o.id = r.id
  /\ \A o \in book : index[o.id] # cxl
  /\ taker # NoTaker => /\ \A o \in book : index[o.id] # index[taker.id]
                        /\ index[taker.id] # cxl

HeldOnce ==
  /\ Distinct(outgoing) /\ Distinct(orders) /\ Distinct(dropped) /\ EngineDistinct
  /\ Nodes(outgoing) \intersect Nodes(orders) = {}
  /\ Nodes(outgoing) \intersect Nodes(dropped) = {}
  /\ Nodes(outgoing) \intersect EngineNodes = {}
  /\ Nodes(orders) \intersect Nodes(dropped) = {}
  /\ Nodes(orders) \intersect EngineNodes = {}
  /\ Nodes(dropped) \intersect EngineNodes = {}
  /\ Frees(pool, PoolNodes \ Held)

LEMMA HeldNodes ==
  Held = Nodes(outgoing) \union Nodes(orders) \union Nodes(dropped) \union EngineNodes
BY DEF Held, Nodes, EngineNodes

LEMMA EngineNodesTyped ==
  ASSUME EngineTyped, EngineDistinct
  PROVE  EngineNodes \subseteq PoolNodes
         /\ \A k \in 1 .. lastId : index[k] \in PoolNodes
<1>1. \A k \in 1 .. lastId : index[k] \in PoolNodes
  BY ElementOfSeq DEF EngineTyped
<1> QED  BY <1>1 DEF EngineTyped, EngineNodes, EngineDistinct

\* The turns in which nodes are allocated are those of all that is sent.
LEMMA TurnsPermute ==
  ASSUME NEW n \in Nat, NEW v, Len(v) \in Nat, Len(v) <= n
  PROVE  /\ \A k \in 1 .. n : Turn(v, n, k) \in 1 .. n
         /\ \A j, k \in 1 .. n : Turn(v, n, j) = Turn(v, n, k) => j = k
         /\ \A i \in 1 .. n : \E k \in 1 .. n : Turn(v, n, k) = i
<1> DEFINE l == Len(v)
<1>1. l \in Nat /\ l <= n /\ \A k : Turn(v, n, k) = IF k > l THEN k - l ELSE n + 1 - k
  BY DEF Turn
<1> HIDE DEF l
<1>2. ASSUME NEW k \in 1 .. n PROVE Turn(v, n, k) \in 1 .. n
  BY <1>1
<1>3. ASSUME NEW j \in 1 .. n, NEW k \in 1 .. n, Turn(v, n, j) = Turn(v, n, k) PROVE j = k
  BY <1>1, <1>3
<1>4. ASSUME NEW i \in 1 .. n PROVE \E k \in 1 .. n : Turn(v, n, k) = i
  <2>1. CASE i <= n - l
    <3>1. i + l \in 1 .. n /\ i + l > l /\ (i + l) - l = i
      BY <1>1, <2>1
    <3> QED  BY <1>1, <3>1
  <2>2. CASE ~(i <= n - l)
    <3>1. n + 1 - i \in 1 .. n /\ ~(n + 1 - i > l) /\ n + 1 - (n + 1 - i) = i
      BY <1>1, <2>2
    <3> QED  BY <1>1, <3>1
  <2> QED  BY <2>1, <2>2
<1> QED  BY <1>2, <1>3, <1>4

LEMMA ActFacts ==
  ASSUME Typed, HeldOnce,
         NEW a \in Agents, NEW aims \in Aims(a), NEW v \in Wanted(a), Act(a, aims, v)
  PROVE  /\ outgoing' \in Seq(Forms) /\ Len(outgoing') = Len(Sent(a, aims, v))
         /\ \A k \in 1 .. Len(Sent(a, aims, v)) :
              outgoing'[k] = [Sent(a, aims, v)[k] EXCEPT !.index = outgoing'[k].index]
         /\ Nodes(outgoing') \subseteq PoolNodes \ Held /\ Distinct(outgoing')
         /\ Frees(pool', (PoolNodes \ Held) \ Nodes(outgoing'))
<1> DEFINE w == Sent(a, aims, v)
           n == Len(w)
           t(k) == Taken(pool, n, k)
           S == PoolNodes \ Held
           g == outgoing'
<1>1. /\ n \in Nat /\ Len(v) \in Nat /\ Len(v) <= n
      /\ \A k \in 1 .. n : w[k] \in Drafts
  BY SentFacts DEF Typed
<1>2. /\ \A k \in 1 .. n : ~Exhausted(Allocations(pool, n)[k])
      /\ pool' = Allocations(pool, n)[n + 1]
      /\ g = [k \in 1 .. n |-> [w[k] EXCEPT !.index = t(Turn(v, n, k))]]
  BY DEF Act, Taken
<1>3. Frees(pool, S)
  BY DEF HeldOnce
<1> HIDE DEF n, S
<1>4. /\ \A k \in 1 .. n : t(k) \in S
      /\ \A j, k \in 1 .. n : t(j) = t(k) => j = k
      /\ Frees(pool', S \ {t(k) : k \in 1 .. n})
  <2>1. \A k \in 1 .. n : ~Exhausted(Allocations(pool, n)[k])
    BY <1>2
  <2>2. /\ \A k \in 1 .. n : Taken(pool, n, k) \in S
        /\ \A j, k \in 1 .. n : Taken(pool, n, j) = Taken(pool, n, k) => j = k
        /\ Frees(Allocations(pool, n)[n + 1], S \ {Taken(pool, n, k) : k \in 1 .. n})
    <3>1. n \in Nat /\ Frees(pool, S)
      BY <1>1, <1>3
    <3> HIDE DEF w, t
    <3> QED  BY ONLY <2>1, <3>1, AllocationsFacts
  <2> QED  BY <1>2, <2>2
<1>5. /\ \A k \in 1 .. n : Turn(v, n, k) \in 1 .. n
      /\ \A j, k \in 1 .. n : Turn(v, n, j) = Turn(v, n, k) => j = k
      /\ \A i \in 1 .. n : \E k \in 1 .. n : Turn(v, n, k) = i
  BY <1>1, TurnsPermute
<1> HIDE DEF w, t, g
<1>6. ASSUME NEW k \in 1 .. n
      PROVE  /\ g[k] \in Forms /\ g[k].index = t(Turn(v, n, k))
             /\ g[k] = [w[k] EXCEPT !.index = g[k].index]
  <2>1. t(Turn(v, n, k)) \in PoolNodes /\ w[k] \in Drafts
    BY <1>1, <1>4, <1>5 DEF S
  <2>2. g[k] = [w[k] EXCEPT !.index = t(Turn(v, n, k))]
    BY <1>2
  <2>3. CASE w[k] \in OrderForms({NoNode})
    BY <2>1, <2>2, <2>3 DEF Forms, OrderForms
  <2>4. CASE w[k] \in CancelForms({NoNode})
    BY <2>1, <2>2, <2>4 DEF Forms, CancelForms
  <2> QED  BY <2>1, <2>3, <2>4 DEF Drafts
<1>7. g \in Seq(Forms) /\ Len(g) = n /\ DOMAIN g = 1 .. n
  <2>1. g \in [1 .. n -> Forms]
    BY <1>2, <1>6
  <2>2. g \in Seq(Forms)
    BY <1>1, <2>1, SeqDef
  <2> QED  BY <1>1, <2>1, <2>2, LenProperties
<1>8. Nodes(g) = {t(k) : k \in 1 .. n}
  <2>1. ASSUME NEW i \in 1 .. n PROVE t(i) \in Nodes(g)
    <3>1. PICK k \in 1 .. n : Turn(v, n, k) = i
      BY <1>5
    <3> QED  BY <1>6, <1>7, <3>1 DEF Nodes
  <2>2. ASSUME NEW k \in 1 .. n PROVE g[k].index \in {t(i) : i \in 1 .. n}
    BY <1>5, <1>6
  <2> QED  BY <1>7, <2>1, <2>2 DEF Nodes
<1>9. Distinct(g)
  <2> SUFFICES ASSUME NEW j \in 1 .. n, NEW k \in 1 .. n, g[j].index = g[k].index PROVE j = k
    BY <1>7 DEF Distinct
  <2>1. Turn(v, n, j) \in 1 .. n /\ Turn(v, n, k) \in 1 .. n
    BY <1>5
  <2>2. t(Turn(v, n, j)) = t(Turn(v, n, k))
    BY <1>6
  <2>3. Turn(v, n, j) = Turn(v, n, k)
    BY ONLY <1>4, <2>1, <2>2
  <2> QED  BY <1>5, <2>3
<1>10. Nodes(g) \subseteq S /\ Frees(pool', S \ Nodes(g))
  BY <1>4, <1>8
<1>11. \A k \in 1 .. n : g[k] = [w[k] EXCEPT !.index = g[k].index]
  BY <1>6
<1> QED  BY <1>7, <1>9, <1>10, <1>11 DEF g, w, n, S

LEMMA ActTyped ==
  ASSUME Typed, HeldOnce, NEW a \in Agents, NEW aims \in Aims(a), NEW v \in Wanted(a), Act(a, aims, v)
  PROVE  Typed'
<1>1. outgoing' \in Seq(Forms)
  BY ActFacts
<1>2. OrdersTyped'
  BY <1>1 DEF Act, Typed, OrdersTyped
<1>3. MailTyped' /\ EngineTyped'
  BY DEF Act, Typed, MailTyped, EngineTyped, Engine!Delivered
<1>4. AccountsTyped'
  <2>1. active' \in [Agents -> SUBSET Nat] /\ \A b \in Agents : active'[b] \subseteq active[b]
    BY DEF Act, Typed, AccountsTyped
  <2>2. \A b \in Agents : IsFiniteSet(active'[b])
    BY <2>1, FS_Subset DEF Typed, AccountsTyped
  <2> QED  BY <2>1, <2>2 DEF Act, Typed, AccountsTyped
<1> QED  BY <1>2, <1>3, <1>4 DEF Typed

LEMMA ActHeldOnce ==
  ASSUME Typed, HeldOnce, NEW a \in Agents, NEW aims \in Aims(a), NEW v \in Wanted(a), Act(a, aims, v)
  PROVE  HeldOnce'
<1>1. outgoing = <<>> /\ UNCHANGED <<orders, dropped, index, book, taker, cxl>>
  BY DEF Act, Engine!Delivered
<1>2. Nodes(outgoing) = {}
  BY <1>1, EmptyNodes
<1>3. /\ EngineNodes' = EngineNodes /\ Nodes(orders') = Nodes(orders)
      /\ Nodes(dropped') = Nodes(dropped) /\ EngineDistinct' /\ Distinct(orders') /\ Distinct(dropped')
  BY <1>1 DEF EngineNodes, EngineDistinct, HeldOnce
<1>4. /\ Nodes(outgoing') \subseteq PoolNodes \ Held /\ Distinct(outgoing')
      /\ Frees(pool', (PoolNodes \ Held) \ Nodes(outgoing'))
  BY ActFacts
<1>5. Held' = Held \union Nodes(outgoing')
  <2>1. Held' = Nodes(outgoing') \union Nodes(orders') \union Nodes(dropped') \union EngineNodes'
    BY DEF Held, Nodes, EngineNodes
  <2> QED  BY <1>2, <1>3, <2>1, HeldNodes
<1>6. (PoolNodes \ Held) \ Nodes(outgoing') = PoolNodes \ Held'
  BY <1>5
<1>7. Nodes(outgoing') \intersect (Nodes(orders) \union Nodes(dropped) \union EngineNodes) = {}
  BY <1>4, HeldNodes
<1> QED  BY <1>3, <1>4, <1>6, <1>7 DEF HeldOnce

LEMMA PushHeldOnce ==
  ASSUME Typed, HeldOnce, PushOrder
  PROVE  HeldOnce'
<1> DEFINE o == Head(outgoing)
<1>1. /\ outgoing # <<>> /\ outgoing' = Tail(outgoing) /\ UNCHANGED <<pool, index, book, taker, cxl>>
      /\ \/ orders' = Append(orders, o) /\ dropped' = dropped
         \/ dropped' = Append(dropped, o) /\ orders' = orders
  BY DEF PushOrder, Enqueue, Engine!Delivered
<1>2. /\ outgoing \in Seq(Forms) /\ orders \in Seq(Forms) /\ dropped \in Seq(Forms)
  BY DEF Typed, OrdersTyped
<1>3. /\ o \in Forms
      /\ Nodes(outgoing) = Nodes(outgoing') \union {o.index}
      /\ Distinct(outgoing') /\ o.index \notin Nodes(outgoing')
  BY <1>1, <1>2, TailNodes DEF HeldOnce
<1>4. EngineNodes' = EngineNodes /\ EngineDistinct'
  BY <1>1 DEF EngineNodes, EngineDistinct, HeldOnce
<1>5. /\ o.index \notin Nodes(orders) /\ o.index \notin Nodes(dropped) /\ o.index \notin EngineNodes
  BY <1>3 DEF HeldOnce
<1> HIDE DEF o
<1>6. /\ Nodes(Append(orders, o)) = Nodes(orders) \union {o.index} /\ Distinct(Append(orders, o))
      /\ Nodes(Append(dropped, o)) = Nodes(dropped) \union {o.index} /\ Distinct(Append(dropped, o))
  BY <1>2, <1>3, <1>5, AppendNodes DEF HeldOnce
<1>7. Held' = Nodes(outgoing') \union Nodes(orders') \union Nodes(dropped') \union EngineNodes'
  BY DEF Held, Nodes, EngineNodes
<1>8. Held' = Held
  BY <1>1, <1>3, <1>4, <1>6, <1>7, HeldNodes
<1>9. Frees(pool', PoolNodes \ Held')
  BY <1>1, <1>8 DEF HeldOnce
<1>10. CASE orders' = Append(orders, o) /\ dropped' = dropped
  BY <1>3, <1>4, <1>5, <1>6, <1>9, <1>10 DEF HeldOnce
<1>11. CASE dropped' = Append(dropped, o) /\ orders' = orders
  BY <1>3, <1>4, <1>5, <1>6, <1>9, <1>11 DEF HeldOnce
<1> QED  BY <1>1, <1>10, <1>11

LEMMA PopOrderHeldOnce ==
  ASSUME Typed, HeldOnce, PopOrder
  PROVE  HeldOnce'
<1> DEFINE o == Head(orders)
<1>1. /\ orders # <<>> /\ orders' = Tail(orders) /\ UNCHANGED <<outgoing, dropped>>
      /\ orders \in Seq(Forms)
  BY DEF PopOrder, agentVars, Typed, OrdersTyped
<1>2. /\ o \in Forms /\ o.index \in PoolNodes
      /\ Nodes(orders) = Nodes(orders') \union {o.index}
      /\ Distinct(orders') /\ o.index \notin Nodes(orders')
  BY <1>1, TailNodes, FormFacts DEF HeldOnce
<1>3. /\ \A r \in book' : r \in book /\ index'[r.id] = index[r.id]
      /\ index'[lastId + 1] = o.index
      /\ taker = NoTaker /\ (taker' # NoTaker => taker'.id = lastId + 1)
      /\ book' = book /\ cxl = NoNode /\ cxl' = NoNode
  BY PopFacts DEF Typed, PopOrder, Engine!Arrive, Engine!Skip
<1>4. o.index \notin EngineNodes /\ o.index \notin Nodes(outgoing) /\ o.index \notin Nodes(dropped)
  BY <1>2 DEF HeldOnce
<1>5. EngineNodes' = IF taker' = NoTaker THEN EngineNodes ELSE EngineNodes \union {o.index}
  <2>1. {index'[r.id] : r \in book'} = {index[r.id] : r \in book}
    BY <1>3
  <2>2. EngineNodes' = {index'[r.id] : r \in book'} \union
                       (IF taker' = NoTaker THEN {} ELSE {index'[taker'.id]})
    BY <1>3 DEF EngineNodes
  <2>3. EngineNodes = {index[r.id] : r \in book}
    BY <1>3 DEF EngineNodes
  <2>4. taker' # NoTaker => index'[taker'.id] = o.index
    BY <1>3
  <2> HIDE DEF o
  <2> QED  BY <2>1, <2>2, <2>3, <2>4
<1>6. EngineDistinct'
  <2>1. \A r, s \in book' : index'[r.id] = index'[s.id] => r.id = s.id
    BY <1>3 DEF EngineDistinct, HeldOnce
  <2>2. taker' # NoTaker => \A r \in book' : index'[r.id] # index'[taker'.id]
    BY <1>3, <1>4 DEF EngineNodes
  <2>3. /\ \A r \in book' : index'[r.id] # cxl'
        /\ taker' # NoTaker => index'[taker'.id] # cxl'
    <3>1. o.index # NoNode
      BY <1>2 DEF PoolNodes, NoNode
    <3>2. \A r \in book : index[r.id] # cxl
      BY DEF HeldOnce, EngineDistinct
    <3> HIDE DEF o
    <3> QED  BY <1>3, <3>1, <3>2
  <2> QED  BY <1>3, <2>1, <2>2, <2>3 DEF EngineDistinct
<1>7. Held' = Nodes(outgoing') \union Nodes(orders') \union Nodes(dropped') \union EngineNodes'
  BY DEF Held, Nodes, EngineNodes
<1>8. Frees(pool', PoolNodes \ Held')
  <2>1. Frees(pool, PoolNodes \ Held)
    BY DEF HeldOnce
  <2>2. CASE o.type # "CANCEL"
    <3>1. pool' = pool /\ taker' # NoTaker
      <4>1. pool' = pool /\ taker' = Engine!Order(lastId + 1, o.type, o.client, o.side, o.price, o.qty)
        BY <2>2 DEF PopOrder, Engine!Arrive
      <4>2. o \in OrderForms(PoolNodes)
        BY <1>2, <2>2, FormFacts
      <4>3. lastId + 1 \in Nat /\ o.qty \in Int
        BY <4>2 DEF Typed, EngineTyped, OrderForms
      <4> HIDE DEF o
      <4>4. taker' \in [id : Nat, type : {"LIMIT", "MARKET"}, client : Agents, side : Sides,
                        price : Int, qty : Int]
        BY <4>1, <4>2, <4>3, AskedPricesTyped DEF Engine!Order, OrderForms
      <4> QED  BY <4>1, <4>4, NoTakerAssumption
    <3>2. Held' = Held
      BY <1>1, <1>2, <1>5, <1>7, <3>1, HeldNodes
    <3> QED  BY <2>1, <3>1, <3>2
  <2>3. CASE o.type = "CANCEL"
    <3>1. pool' = Deallocated(pool, o.index) /\ taker' = NoTaker
      BY <1>3, <2>3 DEF PopOrder, Engine!Skip
    <3>2. o.index \in Held
      BY <1>2, HeldNodes
    <3>3. Held' = Held \ {o.index}
      BY <1>1, <1>2, <1>4, <1>5, <1>7, <3>1, HeldNodes
    <3>4. (PoolNodes \ Held) \union {o.index} = PoolNodes \ Held'
      BY <1>2, <3>3
    <3> HIDE DEF o
    <3> QED  BY <1>2, <2>1, <3>1, <3>2, <3>4, DeallocatedFacts
  <2> QED  BY <2>2, <2>3
<1> HIDE DEF o
<1>9. /\ Nodes(outgoing') = Nodes(outgoing) /\ Nodes(dropped') = Nodes(dropped)
      /\ Distinct(outgoing') /\ Distinct(dropped')
  BY <1>1 DEF HeldOnce
<1>10. EngineNodes' \subseteq EngineNodes \union {o.index}
  BY <1>5
<1>11. /\ Nodes(outgoing) \intersect Nodes(orders') = {} /\ Nodes(outgoing) \intersect EngineNodes' = {}
       /\ Nodes(dropped) \intersect Nodes(orders') = {} /\ Nodes(dropped) \intersect EngineNodes' = {}
       /\ Nodes(orders') \intersect EngineNodes' = {}
  BY <1>2, <1>4, <1>10 DEF HeldOnce
<1> QED  BY <1>2, <1>6, <1>8, <1>9, <1>11 DEF HeldOnce

\* The engine returns the nodes of orders that left it, and keeps the others.
LEMMA EngineHeldOnce ==
  ASSUME HeldOnce, UNCHANGED <<outgoing, orders, dropped>>, EngineDistinct',
         EngineNodes' \subseteq EngineNodes, Frees(pool', (PoolNodes \ Held) \union (EngineNodes \ EngineNodes')),
         EngineNodes \subseteq PoolNodes
  PROVE  HeldOnce'
<1>1. /\ Nodes(outgoing') = Nodes(outgoing) /\ Nodes(orders') = Nodes(orders)
      /\ Nodes(dropped') = Nodes(dropped)
      /\ Distinct(outgoing') /\ Distinct(orders') /\ Distinct(dropped')
  BY DEF HeldOnce
<1>2. Held' = Nodes(outgoing') \union Nodes(orders') \union Nodes(dropped') \union EngineNodes'
  BY DEF Held, Nodes, EngineNodes
<1>3. (Nodes(outgoing) \union Nodes(orders) \union Nodes(dropped)) \intersect EngineNodes = {}
  BY DEF HeldOnce
<1>4. (PoolNodes \ Held) \union (EngineNodes \ EngineNodes') = PoolNodes \ Held'
  BY <1>1, <1>2, <1>3, HeldNodes
<1> QED  BY <1>1, <1>4 DEF HeldOnce

LEMMA TradeHeldOnce ==
  ASSUME Typed, HeldOnce, NEW m \in book, Trade(m)
  PROVE  HeldOnce'
<1> DEFINE q == IF m.qty < taker.qty THEN m.qty ELSE taker.qty
           left == [m EXCEPT !.qty = @ - q]
<1>1. /\ Engine!Trade(m) /\ UNCHANGED <<outgoing, orders, dropped, index, cxl>>
      /\ pool' = IF m.qty <= taker.qty THEN Deallocated(pool, index[m.id]) ELSE pool
  BY DEF Trade, agentVars
<1>2. /\ taker # NoTaker
      /\ taker' = [taker EXCEPT !.qty = @ - q]
      /\ book' = (book \ {m}) \union (IF m.qty = q THEN {} ELSE {left})
  BY <1>1 DEF Engine!Trade, Engine!Left
<1>3. /\ m \in EngineOrders /\ m.qty \in Nat /\ taker \in EngineOrders /\ taker.qty \in Nat
      /\ taker' \in EngineOrders /\ taker'.id = taker.id
      /\ left.id = m.id
      /\ m.qty <= taker.qty <=> m.qty = q
  <2>1. /\ m \in EngineOrders /\ taker \in EngineOrders
    BY <1>2 DEF Typed, EngineTyped
  <2>2. m.qty \in Nat /\ taker.qty \in Nat
    BY <2>1 DEF EngineOrders
  <2>3. taker.qty - q \in Nat
    BY <2>2
  <2>4. m.qty <= taker.qty <=> m.qty = q
    BY <2>2
  <2>5. left.id = m.id
    BY <2>1 DEF EngineOrders
  <2> HIDE DEF q
  <2> QED  BY <1>2, <2>1, <2>2, <2>3, <2>4, <2>5 DEF EngineOrders
<1>4. taker' # NoTaker
  <2>1. taker' \in [id : Nat, type : {"LIMIT", "MARKET"}, client : Agents, side : Sides, price : Int, qty : Int]
    BY <1>3, AskedPricesTyped DEF EngineOrders
  <2> QED  BY <2>1, NoTakerAssumption
<1> HIDE DEF q, left
<1>5. \A o \in book' : \E r \in book : r.id = o.id /\ (r = m => m.qty # q)
  BY <1>2, <1>3
<1>6. EngineDistinct'
  BY <1>1, <1>2, <1>3, <1>5 DEF EngineDistinct, HeldOnce
<1>7. EngineNodes = {index[o.id] : o \in book} \union {index[taker.id]} \union ({cxl} \ {NoNode})
  BY <1>2 DEF EngineNodes
<1>8. EngineNodes' = {index[o.id] : o \in book'} \union {index[taker.id]} \union ({cxl} \ {NoNode})
  BY <1>1, <1>3, <1>4 DEF EngineNodes
<1>9. EngineNodes' = IF m.qty = q THEN EngineNodes \ {index[m.id]} ELSE EngineNodes
  <2>1. CASE m.qty = q
    <3>1. book' = book \ {m}
      BY <1>2, <2>1
    <3>2. \A o \in book \ {m} : index[o.id] # index[m.id]
      BY DEF HeldOnce, EngineDistinct, Typed, EngineTyped
    <3>3. index[taker.id] # index[m.id] /\ index[m.id] # cxl
      BY <1>2 DEF HeldOnce, EngineDistinct
    <3> QED  BY <1>7, <1>8, <2>1, <3>1, <3>2, <3>3
  <2>2. CASE m.qty # q
    <3>1. book' = (book \ {m}) \union {left}
      BY <1>2, <2>2
    <3>2. {index[o.id] : o \in book'} = {index[o.id] : o \in book}
      BY <1>3, <3>1
    <3> QED  BY <1>7, <1>8, <2>2, <3>2
  <2> QED  BY <2>1, <2>2
<1>10. index[m.id] \in EngineNodes /\ EngineNodes \subseteq PoolNodes
  BY <1>7, EngineNodesTyped DEF Typed, HeldOnce
<1>11. index[m.id] \in PoolNodes \ (PoolNodes \ Held) /\ Frees(pool, PoolNodes \ Held)
  BY <1>10, HeldNodes DEF HeldOnce
<1>12. Frees(pool', (PoolNodes \ Held) \union (EngineNodes \ EngineNodes'))
  <2>1. CASE m.qty = q
    <3>1. pool' = Deallocated(pool, index[m.id])
      BY <1>1, <1>3, <2>1
    <3>2. EngineNodes \ EngineNodes' = {index[m.id]}
      BY <1>9, <1>10, <2>1
    <3> QED  BY <1>11, <3>1, <3>2, DeallocatedFacts
  <2>2. CASE m.qty # q
    <3>1. pool' = pool /\ (PoolNodes \ Held) \union (EngineNodes \ EngineNodes') = PoolNodes \ Held
      BY <1>1, <1>3, <1>9, <2>2
    <3> QED  BY <1>11, <3>1
  <2> QED  BY <2>1, <2>2
<1> QED  BY <1>1, <1>6, <1>9, <1>10, <1>12, EngineHeldOnce

LEMMA RestHeldOnce ==
  ASSUME Typed, HeldOnce, Rest
  PROVE  HeldOnce'
<1>1. /\ taker # NoTaker /\ book' = book \union {taker} /\ taker' = NoTaker
      /\ UNCHANGED <<outgoing, orders, dropped, index, pool, cxl>>
  BY DEF Rest, Engine!Rest, agentVars
<1>2. EngineNodes' = EngineNodes
  BY <1>1 DEF EngineNodes
<1>3. EngineDistinct'
  BY <1>1 DEF EngineDistinct, HeldOnce
<1>4. (PoolNodes \ Held) \union (EngineNodes \ EngineNodes') = PoolNodes \ Held
  BY <1>2
<1>5. EngineNodes \subseteq PoolNodes
  BY EngineNodesTyped DEF Typed, HeldOnce
<1> QED  BY <1>1, <1>2, <1>3, <1>4, <1>5, EngineHeldOnce DEF HeldOnce

\* The taker leaves and its node is returned.
LEMMA LeaveHeldOnce ==
  ASSUME Typed, HeldOnce, Expire \/ Finish
  PROVE  HeldOnce'
<1> DEFINE t == index[taker.id]
<1>1. /\ taker # NoTaker /\ book' = book /\ taker' = NoTaker
      /\ UNCHANGED <<outgoing, orders, dropped, index, cxl>>
      /\ pool' = Deallocated(pool, t)
  BY DEF Expire, Finish, Engine!Expire, Engine!Finish, agentVars
<1>2. EngineNodes' = EngineNodes \ {t} /\ EngineDistinct' /\ t \in EngineNodes
  BY <1>1 DEF EngineNodes, EngineDistinct, HeldOnce
<1>3. EngineNodes \subseteq PoolNodes /\ Frees(pool, PoolNodes \ Held)
  BY EngineNodesTyped DEF Typed, HeldOnce
<1>4. t \in PoolNodes \ (PoolNodes \ Held) /\ EngineNodes \ EngineNodes' = {t}
  BY <1>2, <1>3, HeldNodes
<1> HIDE DEF t
<1>5. Frees(pool', (PoolNodes \ Held) \union (EngineNodes \ EngineNodes'))
  BY <1>1, <1>3, <1>4, DeallocatedFacts
<1> QED  BY <1>1, <1>2, <1>3, <1>5, EngineHeldOnce

\* The cancel of the engine's own is returned.
LEMMA ReturnHeldOnce ==
  ASSUME Typed, HeldOnce, ReturnCancel
  PROVE  HeldOnce'
<1>1. /\ cxl # NoNode /\ cxl' = NoNode /\ taker = NoTaker
      /\ UNCHANGED <<outgoing, orders, dropped, index, book, taker>>
      /\ pool' = Deallocated(pool, cxl)
  BY DEF ReturnCancel, Engine!Delivered, agentVars
<1>2. EngineNodes \subseteq PoolNodes /\ Frees(pool, PoolNodes \ Held)
  BY EngineNodesTyped DEF Typed, HeldOnce
<1>3. /\ \A o \in book : index[o.id] # cxl
      /\ \A o \in book : index[o.id] # NoNode
      /\ \A o, r \in book : index[o.id] = index[r.id] => o.id = r.id
  <2>1. \A o \in book : index[o.id] \in PoolNodes
    BY <1>2 DEF EngineNodes
  <2> QED  BY <2>1 DEF HeldOnce, EngineDistinct, PoolNodes, NoNode
<1>4. EngineNodes' = EngineNodes \ {cxl} /\ cxl \in EngineNodes
  BY <1>1, <1>3 DEF EngineNodes
<1>5. EngineDistinct'
  BY <1>1, <1>3 DEF EngineDistinct
<1>6. cxl \in PoolNodes \ (PoolNodes \ Held) /\ EngineNodes \ EngineNodes' = {cxl}
  BY <1>2, <1>4, HeldNodes
<1>7. Frees(pool', (PoolNodes \ Held) \union (EngineNodes \ EngineNodes'))
  BY <1>1, <1>2, <1>6, DeallocatedFacts
<1> QED  BY <1>1, <1>2, <1>4, <1>5, <1>7, EngineHeldOnce

\* The engine takes a node that nobody has.
LEMMA MarketRestHeldOnce ==
  ASSUME Typed, HeldOnce, MarketRest
  PROVE  HeldOnce'
<1> DEFINE c == NextNode(pool)
<1>1. /\ cxl = NoNode /\ cxl' = c /\ ~Exhausted(pool) /\ pool' = Allocated(pool)
      /\ UNCHANGED <<outgoing, orders, dropped, index, book, taker>>
  BY DEF MarketRest, Engine!Delivered, agentVars
<1>2. Frees(pool, PoolNodes \ Held)
  BY DEF HeldOnce
<1>3. c \in PoolNodes \ Held /\ Frees(pool', (PoolNodes \ Held) \ {c})
  BY <1>1, <1>2, AllocatedFacts
<1> HIDE DEF c
<1>4. EngineNodes' = EngineNodes \union {c}
  BY <1>1, <1>3 DEF EngineNodes, PoolNodes, NoNode
<1>5. c \notin EngineNodes
  BY <1>3, HeldNodes
<1>6. EngineDistinct'
  BY <1>1, <1>3, <1>5 DEF EngineNodes, EngineDistinct, HeldOnce
<1>7. /\ Nodes(outgoing') = Nodes(outgoing) /\ Nodes(orders') = Nodes(orders)
      /\ Nodes(dropped') = Nodes(dropped)
      /\ Distinct(outgoing') /\ Distinct(orders') /\ Distinct(dropped')
  BY <1>1 DEF HeldOnce
<1>8. Held' = Nodes(outgoing') \union Nodes(orders') \union Nodes(dropped') \union EngineNodes'
  BY DEF Held, Nodes, EngineNodes
<1>9. Held' = Held \union {c}
  BY <1>4, <1>7, <1>8, HeldNodes
<1>10. Frees(pool', PoolNodes \ Held')
  <2>1. (PoolNodes \ Held) \ {c} = PoolNodes \ Held'
    BY <1>9
  <2> QED  BY <1>3, <2>1
<1>11. c \notin Nodes(outgoing) /\ c \notin Nodes(orders) /\ c \notin Nodes(dropped)
  BY <1>3, HeldNodes
<1> QED  BY <1>4, <1>6, <1>7, <1>10, <1>11 DEF HeldOnce

LEMMA HeldOnceUnchanged ==
  ASSUME HeldOnce, UNCHANGED <<outgoing, orders, dropped, index, book, taker, cxl, pool>>
  PROVE  HeldOnce'
<1>1. /\ Nodes(outgoing') = Nodes(outgoing) /\ Nodes(orders') = Nodes(orders)
      /\ Nodes(dropped') = Nodes(dropped) /\ EngineNodes' = EngineNodes
      /\ Distinct(outgoing') /\ Distinct(orders') /\ Distinct(dropped') /\ EngineDistinct'
  BY DEF HeldOnce, EngineNodes, EngineDistinct
<1>2. Held' = Nodes(outgoing') \union Nodes(orders') \union Nodes(dropped') \union EngineNodes'
  BY DEF Held, Nodes, EngineNodes
<1>3. Held' = Held
  BY <1>1, <1>2, HeldNodes
<1>4. Frees(pool', PoolNodes \ Held')
  BY <1>3 DEF HeldOnce
<1> QED  BY <1>1, <1>4 DEF HeldOnce

LEMMA PopTradeHeldOnce ==
  ASSUME Typed, HeldOnce, NEW a \in Agents, PopTrade(a)
  PROVE  HeldOnce'
<1>1. UNCHANGED <<outgoing, orders, dropped, index, book, taker, cxl, pool>>
  BY DEF PopTrade, Engine!Delivered
<1> QED  BY <1>1, HeldOnceUnchanged

LEMMA InitHeldOnce == Init => HeldOnce
<1> SUFFICES ASSUME Init PROVE HeldOnce
  OBVIOUS
<1>1. outgoing = <<>> /\ orders = <<>> /\ dropped = <<>> /\ book = {} /\ taker = NoTaker
      /\ pool = InitialPool /\ cxl = NoNode
  BY DEF Init, Engine!Init
<1>2. EngineNodes = {} /\ EngineDistinct
  BY <1>1 DEF EngineNodes, EngineDistinct
<1>3. /\ Nodes(outgoing) = {} /\ Nodes(orders) = {} /\ Nodes(dropped) = {}
      /\ Distinct(outgoing) /\ Distinct(orders) /\ Distinct(dropped)
  BY <1>1, EmptyNodes
<1>4. PoolNodes \ Held = PoolNodes
  BY <1>2, <1>3, HeldNodes
<1> QED  BY <1>1, <1>2, <1>3, <1>4, InitialPoolFacts DEF HeldOnce

\* What is in the hands of whom: the typing of the variables, and every node in
\* one place.
Sound == Typed /\ HeldOnce

LEMMA SoundStep == Sound /\ [Next]_vars => Sound'
<1> SUFFICES ASSUME Sound, [Next]_vars PROVE Sound'
  OBVIOUS
<1>1. Typed /\ HeldOnce
  BY DEF Sound
<1>2. ASSUME NEW a \in Agents, NEW aims \in Aims(a), NEW v \in Wanted(a), Act(a, aims, v) PROVE Sound'
  BY <1>1, <1>2, ActTyped, ActHeldOnce DEF Sound
<1>3. ASSUME NEW a \in Agents, PopTrade(a) PROVE Sound'
  BY <1>1, <1>3, PopTradeTyped, PopTradeHeldOnce DEF Sound
<1>4. CASE PushOrder
  BY <1>1, <1>4, PushTyped, PushHeldOnce DEF Sound
<1>5. CASE PopOrder
  BY <1>1, <1>5, PopOrderTyped, PopOrderHeldOnce DEF Sound
<1>6. ASSUME NEW m \in book, Trade(m) PROVE Sound'
  BY <1>1, <1>6, MatchTyped, TradeHeldOnce DEF Sound
<1>7. CASE Rest
  BY <1>1, <1>7, MatchTyped, RestHeldOnce DEF Sound
<1>8. CASE Expire
  BY <1>1, <1>8, MatchTyped, LeaveHeldOnce DEF Sound
<1>9. CASE Finish
  BY <1>1, <1>9, MatchTyped, LeaveHeldOnce DEF Sound
<1>10. CASE MarketRest \/ ReturnCancel
  <2>1. /\ UNCHANGED <<account, active, outgoing, inbox, orders>>
        /\ UNCHANGED <<book, taker, lastId, index, dropped, lost>>
    BY <1>10 DEF MarketRest, ReturnCancel, Engine!Delivered, NoReport, agentVars
  <2>2. Typed'
    BY <1>1, <2>1 DEF Typed, AccountsTyped, MailTyped, OrdersTyped, EngineTyped
  <2> QED  BY <1>1, <1>10, <2>2, MarketRestHeldOnce, ReturnHeldOnce DEF Sound
<1>11. CASE UNCHANGED vars
  <2>1. /\ UNCHANGED <<account, active, outgoing, inbox, orders, pool, cxl>>
        /\ UNCHANGED <<book, taker, lastId, index, dropped, lost>>
    BY <1>11 DEF vars, agentVars, engineVars
  <2>2. Typed'
    BY <1>1, <2>1 DEF Typed, AccountsTyped, MailTyped, OrdersTyped, EngineTyped
  <2>3. HeldOnce'
    BY <1>1, <2>1, HeldOnceUnchanged
  <2> QED  BY <2>2, <2>3 DEF Sound
<1> QED  BY <1>2, <1>3, <1>4, <1>5, <1>6, <1>7, <1>8, <1>9, <1>10, <1>11 DEF Next, EngineStep

THEOREM SoundAlways == Spec => []Sound
<1>1. Init => Sound
  BY InitTyped, InitHeldOnce DEF Sound
<1> QED  BY <1>1, SoundStep, PTL DEF Spec

LEMMA SoundPool == Sound => pool \in Pools /\ FreeListSound
<1> SUFFICES ASSUME Sound PROVE pool \in Pools /\ FreeListSound
  OBVIOUS
<1>1. Frees(pool, PoolNodes \ Held)
  BY DEF Sound, HeldOnce
<1>2. PICK L : IsFreeList(pool, L) /\ Range(L) = PoolNodes \ Held
  BY <1>1 DEF Frees
<1>3. pool \in Pools
  BY <1>1 DEF Frees
<1>4. FreeList(pool) = L
  BY <1>2, <1>3, FreeListFacts
<1> QED  BY <1>2, <1>3, <1>4 DEF FreeListSound

\* The ring buffers and the pool hold what their declarations say
\* (Agent.h:62-72, OrderPool.h:16-22).
THEOREM TypeCorrect == Spec => []TypeOK
<1>1. Sound => TypeOK
  <2> SUFFICES ASSUME Sound PROVE TypeOK
    OBVIOUS
  <2>1. Typed /\ pool \in Pools /\ cxl \in PoolNodes \union {NoNode}
    BY SoundPool DEF Sound, HeldOnce, EngineDistinct
  <2>2. ASSUME NEW a \in Agents
        PROVE  /\ account[a] \in [available : Int, reserved : Int, units : Int]
               /\ Len(inbox[a]) <= InboxCap /\ active[a] \subseteq PoolNodes \union Nat
    BY <2>1 DEF Typed, AccountsTyped, MailTyped, Balances
  <2>3. Len(orders) <= QueueCap
    BY <2>1 DEF Typed, OrdersTyped
  <2>4. Len(index) = lastId /\ Range(index) \subseteq PoolNodes
    <3>1. index \in Seq(PoolNodes) /\ Len(index) = lastId
      BY <2>1 DEF Typed, EngineTyped
    <3>2. \A k \in DOMAIN index : index[k] \in PoolNodes
      BY <3>1, ElementOfSeq, LenProperties
    <3> QED  BY <3>1, <3>2 DEF Range
  <2> QED  BY <2>1, <2>2, <2>3, <2>4 DEF TypeOK
<1> QED  BY <1>1, SoundAlways, PTL

\* The free list visits every node that is in nobody's hands, once, and ends, so
\* deallocate is never called for a node of the list (OrderPool.h:38-52).
THEOREM FreeNodesListed == Spec => []FreeListSound
BY SoundAlways, SoundPool, PTL

-----------------------------------------------------------------------------
(* Sums                                                                    *)

\* T gives every subset of D the sum of f over it.
Additive(T, f, D) ==
  /\ T \in [SUBSET D -> Int]
  /\ T[{}] = 0
  /\ \A s \in SUBSET D : \A x \in s : T[s] = f[x] + T[s \ {x}]

\* One more element.
LEMMA AdditiveStep ==
  ASSUME NEW D, NEW z \in D, NEW f, \A x \in D : f[x] \in Int,
         NEW T, Additive(T, f, D \ {z})
  PROVE  \E U : Additive(U, f, D)
<1> DEFINE E == D \ {z}
           U == [s \in SUBSET D |-> IF z \in s THEN f[z] + T[s \ {z}] ELSE T[s]]
<1>1. \A s \in SUBSET D : s \ {z} \in SUBSET E /\ (z \notin s => s \in SUBSET E)
  OBVIOUS
<1>2. \A s \in SUBSET E : T[s] \in Int
  BY DEF Additive
<1>3. \A s \in SUBSET E : \A x \in s : T[s] = f[x] + T[s \ {x}]
  BY DEF Additive
<1>4. U \in [SUBSET D -> Int]
  BY <1>1, <1>2
<1>5. U[{}] = 0
  BY DEF Additive
<1>6. ASSUME NEW s \in SUBSET D, NEW x \in s PROVE U[s] = f[x] + U[s \ {x}]
  <2>1. CASE x = z
    BY <2>1
  <2>2. CASE x # z /\ z \notin s
    <3>1. U[s] = T[s] /\ U[s \ {x}] = T[s \ {x}]
      BY <2>2
    <3> QED  BY <1>1, <1>3, <2>2, <3>1
  <2>3. CASE x # z /\ z \in s
    <3>1. U[s] = f[z] + T[s \ {z}] /\ U[s \ {x}] = f[z] + T[(s \ {x}) \ {z}]
      BY <2>3
    <3>2. T[s \ {z}] = f[x] + T[(s \ {z}) \ {x}]
      BY <1>1, <1>3, <2>3
    <3>3. (s \ {z}) \ {x} = (s \ {x}) \ {z}
      OBVIOUS
    <3>4. T[(s \ {x}) \ {z}] \in Int /\ T[s \ {z}] \in Int
      BY <1>1, <1>2
    <3>5. f[x] \in Int /\ f[z] \in Int
      OBVIOUS
    <3>6. T[(s \ {z}) \ {x}] = T[(s \ {x}) \ {z}]
      BY <3>3
    <3>7. f[z] + (f[x] + T[(s \ {x}) \ {z}]) = f[x] + (f[z] + T[(s \ {x}) \ {z}])
      BY <3>4, <3>5
    <3> HIDE DEF U
    <3> QED  BY <3>1, <3>2, <3>6, <3>7
  <2> QED  BY <2>1, <2>2, <2>3
<1> HIDE DEF U
<1> QED  BY <1>4, <1>5, <1>6 DEF Additive

LEMMA AdditiveExists ==
  ASSUME NEW D, IsFiniteSet(D), NEW f, \A x \in D : f[x] \in Int
  PROVE  \E T : Additive(T, f, D)
<1> DEFINE bad == {n \in Nat : \E E \in SUBSET D : Cardinality(E) = n /\ ~\E T : Additive(T, f, E)}
<1>1. SUFFICES ASSUME bad # {} PROVE FALSE
  BY FS_CardinalityType
<1>2. PICK n \in bad : \A j \in bad : n <= j
  <2>1. bad \in SUBSET Nat
    OBVIOUS
  <2> HIDE DEF bad
  <2> QED  BY <1>1, <2>1, LeastExists
<1>3. PICK E \in SUBSET D : Cardinality(E) = n /\ ~\E T : Additive(T, f, E)
  BY <1>2
<1>4. IsFiniteSet(E)
  BY FS_Subset
<1>5. CASE E = {}
  <2>1. Additive([s \in SUBSET {} |-> 0], f, {})
    BY DEF Additive
  <2> QED  BY <1>3, <1>5, <2>1
<1>6. CASE E # {}
  <2>1. PICK z \in E : TRUE
    BY <1>6
  <2>2. IsFiniteSet(E \ {z}) /\ Cardinality(E \ {z}) = n - 1 /\ Cardinality(E \ {z}) \in Nat
    BY <1>3, <1>4, <2>1, FS_RemoveElement, FS_CardinalityType
  <2>3. n - 1 \notin bad
    BY <1>2, <2>2
  <2>4. \E T : Additive(T, f, E \ {z})
    BY <2>2, <2>3
  <2> QED  BY <1>3, <2>1, <2>4, AdditiveStep
<1> QED  BY <1>5, <1>6

\* SumFunction is that sum, whichever order CHOOSE takes.
LEMMA SumIs ==
  ASSUME NEW f, IsFiniteSet(DOMAIN f), NEW T, Additive(T, f, DOMAIN f)
  PROVE  SumFunction(f) = T[DOMAIN f]
<1> DEFINE D == DOMAIN f
           ch(s) == CHOOSE x \in s : TRUE
           F(g) == [s \in SUBSET D |-> IF s = {} THEN 0 ELSE f[ch(s)] + g[s \ {ch(s)}]]
           G == CHOOSE g : g = F(g)
<1>1. \A s \in SUBSET D : s # {} => ch(s) \in s
  OBVIOUS
<1>2. T = F(T)
  <2>1. DOMAIN T = SUBSET D
    BY DEF Additive
  <2>2. ASSUME NEW s \in SUBSET D PROVE T[s] = F(T)[s]
    BY <1>1 DEF Additive
  <2> QED  BY <2>1, <2>2 DEF Additive
<1>3. SumFunction(f) = G[D]
  BY DEF SumFunction, SumFunctionOnSet, FoldFunctionOnSet, MapThenFoldSet
<1>4. G = F(G)
  <2> HIDE DEF F
  <2> QED  BY <1>2
<1> HIDE DEF G
<1> DEFINE bad == {n \in Nat : \E s \in SUBSET D : Cardinality(s) = n /\ G[s] # T[s]}
<1>5. bad = {}
  <2>1. SUFFICES ASSUME bad # {} PROVE FALSE
    OBVIOUS
  <2>2. PICK n \in bad : \A j \in bad : n <= j
    <3>1. bad \in SUBSET Nat
      OBVIOUS
    <3> HIDE DEF bad
    <3> QED  BY <2>1, <3>1, LeastExists
  <2>3. PICK s \in SUBSET D : Cardinality(s) = n /\ G[s] # T[s]
    BY <2>2
  <2>4. IsFiniteSet(s) /\ s # {}
    <3>1. G[{}] = 0
      BY <1>4
    <3>2. T[{}] = 0
      BY DEF Additive
    <3> QED  BY <2>3, <3>1, <3>2, FS_Subset
  <2>5. ch(s) \in s
    BY <1>1, <2>4
  <2>6. Cardinality(s \ {ch(s)}) = n - 1 /\ Cardinality(s \ {ch(s)}) \in Nat
    BY <2>3, <2>4, <2>5, FS_RemoveElement, FS_CardinalityType
  <2>7. n - 1 \notin bad
    BY <2>2, <2>6
  <2>8. G[s \ {ch(s)}] = T[s \ {ch(s)}]
    BY <2>6, <2>7
  <2>9. G[s] = f[ch(s)] + G[s \ {ch(s)}]
    BY <1>4, <2>4
  <2>10. T[s] = f[ch(s)] + T[s \ {ch(s)}]
    BY <2>5 DEF Additive
  <2> QED  BY <2>3, <2>8, <2>9, <2>10
<1>6. G[D] = T[D]
  <2>1. D \in SUBSET D /\ Cardinality(D) \in Nat
    BY FS_CardinalityType
  <2> HIDE DEF D
  <2> QED  BY <1>5, <2>1
<1> QED  BY <1>3, <1>6

\* The sums over the subsets of a domain are one such function.
LEMMA SumOfSubset ==
  ASSUME NEW D, IsFiniteSet(D), NEW f, NEW T, Additive(T, f, D), NEW S \in SUBSET D
  PROVE  SumFunction([x \in S |-> f[x]]) = T[S]
<1> DEFINE g == [x \in S |-> f[x]]
           U == [s \in SUBSET S |-> T[s]]
<1>1. DOMAIN g = S /\ IsFiniteSet(S) /\ \A x \in S : g[x] = f[x]
  BY FS_Subset
<1>2. \A s \in SUBSET S : s \in SUBSET D /\ U[s] = T[s]
  OBVIOUS
<1>3. U \in [SUBSET S -> Int] /\ U[{}] = 0
  BY <1>2 DEF Additive
<1>4. ASSUME NEW s \in SUBSET S, NEW x \in s PROVE U[s] = g[x] + U[s \ {x}]
  <2>1. T[s] = f[x] + T[s \ {x}]
    BY <1>2 DEF Additive
  <2> QED  BY <1>1, <1>2, <2>1
<1> HIDE DEF g, U
<1>5. Additive(U, g, S)
  BY <1>3, <1>4 DEF Additive
<1>6. SumFunction(g) = U[S]
  BY <1>1, <1>5, SumIs
<1> QED  BY <1>2, <1>6 DEF g

LEMMA AdditiveUnion ==
  ASSUME NEW D, IsFiniteSet(D), NEW f, NEW T, Additive(T, f, D), \A x \in D : f[x] \in Int,
         NEW A \in SUBSET D, NEW B \in SUBSET D, A \intersect B = {}
  PROVE  T[A \union B] = T[A] + T[B]
<1> DEFINE bad == {n \in Nat : \E s \in SUBSET B : Cardinality(s) = n /\ T[A \union s] # T[A] + T[s]}
<1>1. \A s \in SUBSET D : T[s] \in Int
  BY DEF Additive
<1>2. bad = {}
  <2>1. SUFFICES ASSUME bad # {} PROVE FALSE
    OBVIOUS
  <2>2. PICK n \in bad : \A j \in bad : n <= j
    <3>1. bad \in SUBSET Nat
      OBVIOUS
    <3> HIDE DEF bad
    <3> QED  BY <2>1, <3>1, LeastExists
  <2>3. PICK s \in SUBSET B : Cardinality(s) = n /\ T[A \union s] # T[A] + T[s]
    BY <2>2
  <2>4. CASE s = {}
    <3>1. A \union s = A /\ T[s] = 0 /\ T[A] \in Int
      BY <1>1, <2>4 DEF Additive
    <3>2. T[A \union s] = T[A]
      BY <3>1
    <3> QED  BY <2>3, <3>1, <3>2
  <2>5. CASE s # {}
    <3>1. PICK x \in s : TRUE
      BY <2>5
    <3>2. IsFiniteSet(s)
      BY FS_Subset
    <3>3. Cardinality(s \ {x}) = n - 1 /\ Cardinality(s \ {x}) \in Nat
      BY <2>3, <3>1, <3>2, FS_RemoveElement, FS_CardinalityType
    <3>4. n - 1 \notin bad
      <4>1. n \in Nat
        BY <2>2
      <4> HIDE DEF bad
      <4> QED  BY <2>2, <4>1
    <3>5. T[A \union (s \ {x})] = T[A] + T[s \ {x}]
      BY <3>3, <3>4
    <3>6. (A \union s) \ {x} = A \union (s \ {x})
      BY <3>1
    <3>7. /\ T[A \union s] = f[x] + T[(A \union s) \ {x}]
          /\ T[s] = f[x] + T[s \ {x}]
      BY <3>1 DEF Additive
    <3>8. f[x] \in Int /\ T[A] \in Int /\ T[s \ {x}] \in Int
      BY <1>1, <3>1
    <3>9. T[(A \union s) \ {x}] = T[A] + T[s \ {x}]
      BY <3>5, <3>6
    <3>10. f[x] + (T[A] + T[s \ {x}]) = T[A] + (f[x] + T[s \ {x}])
      BY <3>8
    <3> QED  BY <2>3, <3>7, <3>9, <3>10
  <2> QED  BY <2>4, <2>5
<1>3. Cardinality(B) \in Nat /\ B \in SUBSET B
  BY FS_Subset, FS_CardinalityType
<1>4. Cardinality(B) \notin bad
  BY <1>2
<1> QED  BY <1>3, <1>4

\* A function whose values can be summed.
Summable(f) == IsFiniteSet(DOMAIN f) /\ \A x \in DOMAIN f : f[x] \in Int

LEMMA SumAdditive ==
  ASSUME NEW f, Summable(f)
  PROVE  \E T : /\ Additive(T, f, DOMAIN f)
                /\ SumFunction(f) = T[DOMAIN f]
                /\ \A S \in SUBSET DOMAIN f : SumFunction([x \in S |-> f[x]]) = T[S]
<1>1. PICK T : Additive(T, f, DOMAIN f)
  BY AdditiveExists DEF Summable
<1>2. SumFunction(f) = T[DOMAIN f]
  BY <1>1, SumIs DEF Summable
<1>3. \A S \in SUBSET DOMAIN f : SumFunction([x \in S |-> f[x]]) = T[S]
  BY <1>1, SumOfSubset DEF Summable
<1> QED  BY <1>1, <1>2, <1>3

LEMMA SumType ==
  ASSUME NEW f, Summable(f)
  PROVE  SumFunction(f) \in Int
<1>1. PICK T : Additive(T, f, DOMAIN f) /\ SumFunction(f) = T[DOMAIN f]
  BY SumAdditive
<1> QED  BY <1>1 DEF Additive

LEMMA SumEmpty ==
  ASSUME NEW f, DOMAIN f = {}
  PROVE  SumFunction(f) = 0
<1>1. Summable(f)
  BY FS_EmptySet DEF Summable
<1>2. PICK T : Additive(T, f, DOMAIN f) /\ SumFunction(f) = T[DOMAIN f]
  BY <1>1, SumAdditive
<1> QED  BY <1>2 DEF Additive

\* One element on its own, and two parts of the domain.
LEMMA SumWithout ==
  ASSUME NEW f, Summable(f), NEW z \in DOMAIN f
  PROVE  SumFunction(f) = f[z] + SumFunction([x \in DOMAIN f \ {z} |-> f[x]])
<1>1. PICK T : /\ Additive(T, f, DOMAIN f)
               /\ SumFunction(f) = T[DOMAIN f]
               /\ \A S \in SUBSET DOMAIN f : SumFunction([x \in S |-> f[x]]) = T[S]
  BY SumAdditive
<1>2. T[DOMAIN f] = f[z] + T[DOMAIN f \ {z}]
  BY <1>1 DEF Additive
<1>3. SumFunction([x \in DOMAIN f \ {z} |-> f[x]]) = T[DOMAIN f \ {z}]
  BY <1>1
<1> QED  BY <1>1, <1>2, <1>3

LEMMA SumSplit ==
  ASSUME NEW f, Summable(f), NEW A, NEW B, A \intersect B = {}, A \union B = DOMAIN f
  PROVE  SumFunction(f) = SumFunction([x \in A |-> f[x]]) + SumFunction([x \in B |-> f[x]])
<1>1. PICK T : /\ Additive(T, f, DOMAIN f)
               /\ SumFunction(f) = T[DOMAIN f]
               /\ \A S \in SUBSET DOMAIN f : SumFunction([x \in S |-> f[x]]) = T[S]
  BY SumAdditive
<1>2. A \in SUBSET DOMAIN f /\ B \in SUBSET DOMAIN f
  OBVIOUS
<1>3. T[A \union B] = T[A] + T[B]
  BY <1>1, <1>2, AdditiveUnion DEF Summable
<1> QED  BY <1>1, <1>2, <1>3

\* The same values under other names.
LEMMA SumRenamed ==
  ASSUME NEW f, NEW g, Summable(g), IsFiniteSet(DOMAIN f),
         NEW h \in [DOMAIN f -> DOMAIN g],
         \A x, y \in DOMAIN f : h[x] = h[y] => x = y,
         \A y \in DOMAIN g : \E x \in DOMAIN f : h[x] = y,
         \A x \in DOMAIN f : f[x] = g[h[x]]
  PROVE  SumFunction(f) = SumFunction(g)
<1>1. PICK T : Additive(T, g, DOMAIN g) /\ SumFunction(g) = T[DOMAIN g]
  BY SumAdditive
<1> DEFINE im(s) == {h[x] : x \in s}
           U == [s \in SUBSET DOMAIN f |-> T[im(s)]]
<1>2. \A s \in SUBSET DOMAIN f : im(s) \in SUBSET DOMAIN g
  OBVIOUS
<1>3. U \in [SUBSET DOMAIN f -> Int]
  BY <1>1, <1>2 DEF Additive
<1>4. U[{}] = 0
  <2>1. im({}) = {}
    OBVIOUS
  <2>2. T[{}] = 0
    BY <1>1 DEF Additive
  <2> QED  BY <2>1, <2>2
<1>5. ASSUME NEW s \in SUBSET DOMAIN f, NEW x \in s PROVE U[s] = f[x] + U[s \ {x}]
  <2>1. im(s \ {x}) = im(s) \ {h[x]} /\ h[x] \in im(s)
    OBVIOUS
  <2>2. T[im(s)] = g[h[x]] + T[im(s) \ {h[x]}]
    BY <1>1, <1>2, <2>1 DEF Additive
  <2>3. U[s] = T[im(s)] /\ U[s \ {x}] = T[im(s \ {x})]
    OBVIOUS
  <2>4. f[x] = g[h[x]]
    OBVIOUS
  <2> HIDE DEF U, im
  <2> QED  BY <2>1, <2>2, <2>3, <2>4
<1>6. Additive(U, f, DOMAIN f)
  BY <1>3, <1>4, <1>5 DEF Additive
<1>7. im(DOMAIN f) = DOMAIN g
  OBVIOUS
<1>8. U[DOMAIN f] = T[DOMAIN g]
  BY <1>7
<1>9. SumFunction(f) = U[DOMAIN f]
  BY <1>6, SumIs
<1> QED  BY <1>1, <1>8, <1>9

\* No value is negative, and every value is at most the other's.
LEMMA SumNotNegative ==
  ASSUME NEW f, Summable(f), \A x \in DOMAIN f : f[x] >= 0
  PROVE  SumFunction(f) >= 0
<1>1. PICK T : Additive(T, f, DOMAIN f) /\ SumFunction(f) = T[DOMAIN f]
  BY SumAdditive
<1> DEFINE bad == {n \in Nat : \E s \in SUBSET DOMAIN f : Cardinality(s) = n /\ ~(T[s] >= 0)}
<1>2. bad = {}
  <2>1. SUFFICES ASSUME bad # {} PROVE FALSE
    OBVIOUS
  <2>2. PICK n \in bad : \A j \in bad : n <= j
    <3>1. bad \in SUBSET Nat
      OBVIOUS
    <3> HIDE DEF bad
    <3> QED  BY <2>1, <3>1, LeastExists
  <2>3. PICK s \in SUBSET DOMAIN f : Cardinality(s) = n /\ ~(T[s] >= 0)
    BY <2>2
  <2>4. IsFiniteSet(s) /\ s # {}
    <3>1. IsFiniteSet(s)
      BY FS_Subset DEF Summable
    <3>2. T[{}] = 0
      BY <1>1 DEF Additive
    <3> QED  BY <2>3, <3>1, <3>2
  <2>5. PICK x \in s : TRUE
    BY <2>4
  <2>6. Cardinality(s \ {x}) = n - 1 /\ Cardinality(s \ {x}) \in Nat
    BY <2>3, <2>4, <2>5, FS_RemoveElement, FS_CardinalityType
  <2>7. n - 1 \notin bad
    <3>1. n \in Nat
      BY <2>2
    <3> HIDE DEF bad
    <3> QED  BY <2>2, <3>1
  <2>8. T[s \ {x}] >= 0
    BY <2>6, <2>7
  <2>9. T[s] = f[x] + T[s \ {x}] /\ f[x] \in Int /\ f[x] >= 0 /\ T[s \ {x}] \in Int
    BY <1>1, <2>5 DEF Additive, Summable
  <2> QED  BY <2>3, <2>8, <2>9
<1>3. DOMAIN f \in SUBSET DOMAIN f /\ Cardinality(DOMAIN f) \in Nat
  BY FS_CardinalityType DEF Summable
<1> QED  BY <1>1, <1>2, <1>3

LEMMA SumAtMost ==
  ASSUME NEW f, NEW g, Summable(f), Summable(g), DOMAIN f = DOMAIN g,
         \A x \in DOMAIN f : f[x] <= g[x]
  PROVE  SumFunction(f) <= SumFunction(g)
<1> DEFINE D == DOMAIN f
           d == [x \in D |-> g[x] - f[x]]
<1>1. PICK T : Additive(T, f, D) /\ SumFunction(f) = T[D]
  BY SumAdditive
<1>2. PICK U : Additive(U, g, D) /\ SumFunction(g) = U[D]
  BY SumAdditive
<1> DEFINE V == [s \in SUBSET D |-> U[s] - T[s]]
<1>3. \A s \in SUBSET D : U[s] \in Int /\ T[s] \in Int
  BY <1>1, <1>2 DEF Additive
<1>4. V \in [SUBSET D -> Int] /\ V[{}] = 0
  BY <1>1, <1>2, <1>3 DEF Additive
<1>5. ASSUME NEW s \in SUBSET D, NEW x \in s PROVE V[s] = d[x] + V[s \ {x}]
  <2>1. U[s] = g[x] + U[s \ {x}] /\ T[s] = f[x] + T[s \ {x}]
    BY <1>1, <1>2 DEF Additive
  <2>2. g[x] \in Int /\ f[x] \in Int /\ U[s \ {x}] \in Int /\ T[s \ {x}] \in Int
    BY <1>3 DEF Summable
  <2>3. (g[x] + U[s \ {x}]) - (f[x] + T[s \ {x}]) = (g[x] - f[x]) + (U[s \ {x}] - T[s \ {x}])
    BY <2>2
  <2>4. V[s] = U[s] - T[s] /\ V[s \ {x}] = U[s \ {x}] - T[s \ {x}] /\ d[x] = g[x] - f[x]
    OBVIOUS
  <2> HIDE DEF V, d
  <2> QED  BY <2>1, <2>3, <2>4
<1>6. DOMAIN d = D /\ Summable(d) /\ \A x \in D : d[x] >= 0
  BY DEF Summable
<1> HIDE DEF V, d
<1>7. Additive(V, d, D)
  BY <1>4, <1>5 DEF Additive
<1>8. SumFunction(d) = V[D] /\ SumFunction(d) >= 0
  BY <1>6, <1>7, SumIs, SumNotNegative DEF Summable
<1>9. V[D] = U[D] - T[D] /\ U[D] \in Int /\ T[D] \in Int
  BY <1>3 DEF V
<1> HIDE DEF D
<1> QED  BY <1>1, <1>2, <1>8, <1>9

-----------------------------------------------------------------------------
(* What booking the mail comes to                                          *)

\* What a report adds to a balance of the account that books it. "cover" is what
\* a buy releases of the orders that it settles.
Change(c, r) ==
  LET paid == Cents(r.price) * r.quantity
      held == Cents(r.other.price) * r.quantity
  IN CASE c = "available" /\ r.side = "Sell" -> IF r.type = "CANCEL" THEN 0 ELSE paid
       [] c = "available" /\ r.side # "Sell" -> IF r.type = "CANCEL" THEN paid ELSE held - paid
       [] c = "reserved" /\ r.side = "Sell" -> 0
       [] c = "reserved" /\ r.side # "Sell" -> IF r.type = "CANCEL" THEN -paid ELSE -held
       [] c = "units" /\ r.side = "Sell" -> IF r.type = "CANCEL" THEN r.quantity ELSE 0
       [] c = "units" /\ r.side # "Sell" -> IF r.type = "CANCEL" THEN 0 ELSE r.quantity
       [] OTHER -> IF r.side = "Sell" THEN 0 ELSE -paid

Components == {"available", "reserved", "units", "cover"}

LEMMA ChangeFacts ==
  ASSUME NEW r \in AllReports
  PROVE  LET paid == Cents(r.price) * r.quantity
             held == Cents(r.other.price) * r.quantity
         IN /\ paid \in Int /\ held \in Int /\ r.quantity \in Int
            /\ r.side = "Sell" =>
                 /\ Change("available", r) = IF r.type = "CANCEL" THEN 0 ELSE paid
                 /\ Change("reserved", r) = 0
                 /\ Change("units", r) = IF r.type = "CANCEL" THEN r.quantity ELSE 0
                 /\ Change("cover", r) = 0
            /\ r.side # "Sell" =>
                 /\ Change("available", r) = IF r.type = "CANCEL" THEN paid ELSE held - paid
                 /\ Change("reserved", r) = IF r.type = "CANCEL" THEN -paid ELSE -held
                 /\ Change("units", r) = IF r.type = "CANCEL" THEN 0 ELSE r.quantity
                 /\ Change("cover", r) = -paid
            /\ \A c \in Components : Change(c, r) \in Int
<1> DEFINE paid == Cents(r.price) * r.quantity
           held == Cents(r.other.price) * r.quantity
<1>1. /\ r.quantity \in Int /\ Cents(r.price) \in Int /\ Cents(r.other.price) \in Int
  BY DEF AllReports, Cents
<1>2. paid \in Int /\ held \in Int
  BY <1>1
<1> HIDE DEF paid, held
<1>3. r.side = "Sell" =>
                 /\ Change("available", r) = IF r.type = "CANCEL" THEN 0 ELSE paid
                 /\ Change("reserved", r) = 0
                 /\ Change("units", r) = IF r.type = "CANCEL" THEN r.quantity ELSE 0
                 /\ Change("cover", r) = 0
  BY DEF Change, paid, held
<1>4. r.side # "Sell" =>
                 /\ Change("available", r) = IF r.type = "CANCEL" THEN paid ELSE held - paid
                 /\ Change("reserved", r) = IF r.type = "CANCEL" THEN -paid ELSE -held
                 /\ Change("units", r) = IF r.type = "CANCEL" THEN 0 ELSE r.quantity
                 /\ Change("cover", r) = -paid
  BY DEF Change, paid, held
<1>5. \A c \in Components : Change(c, r) \in Int
  BY <1>1, <1>2, <1>3, <1>4 DEF Components
<1> QED  BY <1>1, <1>2, <1>3, <1>4, <1>5 DEF paid, held

LEMMA BookedChange ==
  ASSUME NEW acct \in Balances, NEW r \in AllReports
  PROVE  Becomes(Booked(acct, r), acct.available + Change("available", r),
                 acct.reserved + Change("reserved", r), acct.units + Change("units", r))
<1> DEFINE paid == Cents(r.price) * r.quantity
           held == Cents(r.other.price) * r.quantity
           back == (Cents(r.other.price) - Cents(r.price)) * r.quantity
<1>1. /\ acct.available \in Int /\ acct.reserved \in Int /\ acct.units \in Int
      /\ r.quantity \in Int /\ paid \in Int /\ held \in Int /\ back = held - paid
  BY BookedFields, ChangeFacts DEF Balances
<1>2. CASE r.side = "Sell"
  <2>1. /\ r.type = "CANCEL" =>
             Becomes(Booked(acct, r), acct.available, acct.reserved, acct.units + r.quantity)
        /\ r.type # "CANCEL" =>
             Becomes(Booked(acct, r), acct.available + paid, acct.reserved, acct.units)
    BY <1>2, BookedFields
  <2>2. /\ Change("available", r) = IF r.type = "CANCEL" THEN 0 ELSE paid
        /\ Change("reserved", r) = 0
        /\ Change("units", r) = IF r.type = "CANCEL" THEN r.quantity ELSE 0
    BY <1>2, ChangeFacts
  <2> HIDE DEF paid, held, back
  <2> QED  BY <1>1, <2>1, <2>2 DEF Becomes
<1>3. CASE r.side # "Sell"
  <2>1. /\ r.type = "CANCEL" =>
             Becomes(Booked(acct, r), acct.available + paid, acct.reserved - paid, acct.units)
        /\ r.type # "CANCEL" =>
             Becomes(Booked(acct, r), acct.available + back, acct.reserved - held, acct.units + r.quantity)
    BY <1>3, BookedFields
  <2>2. /\ Change("available", r) = IF r.type = "CANCEL" THEN paid ELSE held - paid
        /\ Change("reserved", r) = IF r.type = "CANCEL" THEN -paid ELSE -held
        /\ Change("units", r) = IF r.type = "CANCEL" THEN 0 ELSE r.quantity
    BY <1>3, ChangeFacts
  <2> HIDE DEF paid, held, back
  <2> QED  BY <1>1, <2>1, <2>2 DEF Becomes
<1> QED  BY <1>2, <1>3

MailSum(c, s) == SumFunction([k \in DOMAIN s |-> Change(c, s[k])])

LEMMA MailSummable ==
  ASSUME NEW c \in Components, NEW s \in Seq(AllReports)
  PROVE  /\ Summable([k \in DOMAIN s |-> Change(c, s[k])])
         /\ MailSum(c, s) \in Int
<1>1. DOMAIN s = 1 .. Len(s) /\ Len(s) \in Nat /\ \A k \in DOMAIN s : s[k] \in AllReports
  BY LenProperties, ElementOfSeq
<1>2. IsFiniteSet(DOMAIN s)
  BY <1>1, FS_Interval
<1>3. \A k \in DOMAIN s : Change(c, s[k]) \in Int
  BY <1>1, ChangeFacts
<1>4. Summable([k \in DOMAIN s |-> Change(c, s[k])])
  BY <1>2, <1>3 DEF Summable
<1> QED  BY <1>4, SumType DEF MailSum

\* The last index of a sequence that is left.
LEMMA MaxFacts ==
  ASSUME NEW n \in Nat, NEW S \in SUBSET (1 .. n), S # {}
  PROVE  Max(S) \in S
<1> DEFINE R == {n - x : x \in S}
<1>1. R \in SUBSET Nat /\ R # {}
  <2>1. \A x \in S : n - x \in Nat
    OBVIOUS
  <2>2. PICK x \in S : TRUE
    OBVIOUS
  <2> QED  BY <2>1, <2>2
<1>2. PICK y \in R : \A z \in R : y <= z
  BY <1>1, LeastExists
<1>3. PICK x \in S : y = n - x
  BY <1>2
<1>4. \A z \in S : x >= z
  BY <1>2, <1>3
<1> QED  BY <1>4 DEF Max

LEMMA FoldFacts ==
  ASSUME NEW acct \in Balances, NEW s \in Seq(AllReports)
  PROVE  Becomes(FoldLeft(Booked, acct, s),
                 acct.available + MailSum("available", s),
                 acct.reserved + MailSum("reserved", s),
                 acct.units + MailSum("units", s))
<1> DEFINE D == DOMAIN s
           f(c) == [k \in D |-> Change(c, s[k])]
<1>1. D = 1 .. Len(s) /\ Len(s) \in Nat /\ IsFiniteSet(D) /\ \A k \in D : s[k] \in AllReports
  BY LenProperties, ElementOfSeq, FS_Interval
<1>2. PICK TA : Additive(TA, f("available"), D) /\ MailSum("available", s) = TA[D]
  <2>1. Summable(f("available"))
    BY MailSummable DEF Components
  <2> QED  BY <2>1, SumAdditive DEF MailSum
<1>3. PICK TR : Additive(TR, f("reserved"), D) /\ MailSum("reserved", s) = TR[D]
  <2>1. Summable(f("reserved"))
    BY MailSummable DEF Components
  <2> QED  BY <2>1, SumAdditive DEF MailSum
<1>4. PICK TU : Additive(TU, f("units"), D) /\ MailSum("units", s) = TU[D]
  <2>1. Summable(f("units"))
    BY MailSummable DEF Components
  <2> QED  BY <2>1, SumAdditive DEF MailSum
<1>5. acct.available \in Int /\ acct.reserved \in Int /\ acct.units \in Int
  BY DEF Balances
<1>6. \A x \in SUBSET D : TA[x] \in Int /\ TR[x] \in Int /\ TU[x] \in Int
  BY <1>2, <1>3, <1>4 DEF Additive
<1> DEFINE g == [x \in SUBSET D |-> [available |-> acct.available + TA[x],
                                     reserved |-> acct.reserved + TR[x],
                                     units |-> acct.units + TU[x]]]
           F(h) == [x \in SUBSET D |-> IF x = {} THEN acct ELSE Booked(h[x \ {Max(x)}], s[Max(x)])]
           G == CHOOSE h : h = F(h)
<1>7. \A x \in SUBSET D :
        Becomes(g[x], acct.available + TA[x], acct.reserved + TR[x], acct.units + TU[x])
  BY <1>5, <1>6 DEF Becomes, Balances
<1>8. \A x \in SUBSET D : x # {} => Max(x) \in x
  BY <1>1, MaxFacts
<1>9. \A u, v \in Balances :
        u.available = v.available /\ u.reserved = v.reserved /\ u.units = v.units => u = v
  BY DEF Balances
<1>10. g[{}] = acct
  <2>1. TA[{}] = 0 /\ TR[{}] = 0 /\ TU[{}] = 0
    BY <1>2, <1>3, <1>4 DEF Additive
  <2>2. Becomes(g[{}], acct.available + TA[{}], acct.reserved + TR[{}], acct.units + TU[{}])
    BY <1>7
  <2> HIDE DEF g
  <2> QED  BY <1>5, <1>9, <2>1, <2>2 DEF Becomes
<1>11. ASSUME NEW x \in SUBSET D, x # {} PROVE g[x] = Booked(g[x \ {Max(x)}], s[Max(x)])
  <2> DEFINE m == Max(x)
             y == x \ {m}
             b == Booked(g[y], s[m])
  <2>1. m \in x /\ m \in D /\ y \in SUBSET D /\ s[m] \in AllReports
    BY <1>1, <1>8, <1>11
  <2> HIDE DEF m
  <2>2. /\ TA[x] = Change("available", s[m]) + TA[y]
        /\ TR[x] = Change("reserved", s[m]) + TR[y]
        /\ TU[x] = Change("units", s[m]) + TU[y]
    <3>1. TA[x] = f("available")[m] + TA[y]
      BY <1>2, <2>1 DEF Additive
    <3>2. TR[x] = f("reserved")[m] + TR[y]
      BY <1>3, <2>1 DEF Additive
    <3>3. TU[x] = f("units")[m] + TU[y]
      BY <1>4, <2>1 DEF Additive
    <3> QED  BY <2>1, <3>1, <3>2, <3>3
  <2>3. Becomes(g[y], acct.available + TA[y], acct.reserved + TR[y], acct.units + TU[y])
    BY <1>7, <2>1
  <2>4. Becomes(g[x], acct.available + TA[x], acct.reserved + TR[x], acct.units + TU[x])
    BY <1>7
  <2> HIDE DEF g, y, b
  <2>5. g[y] \in Balances
    BY <2>3 DEF Becomes
  <2>6. Becomes(b, g[y].available + Change("available", s[m]),
                g[y].reserved + Change("reserved", s[m]), g[y].units + Change("units", s[m]))
    BY <2>1, <2>5, BookedChange DEF b
  <2>7. /\ TA[y] \in Int /\ TR[y] \in Int /\ TU[y] \in Int
        /\ Change("available", s[m]) \in Int /\ Change("reserved", s[m]) \in Int
        /\ Change("units", s[m]) \in Int
    BY <1>6, <2>1, ChangeFacts DEF Components
  <2>8. /\ b.available = g[x].available /\ b.reserved = g[x].reserved /\ b.units = g[x].units
        /\ b \in Balances /\ g[x] \in Balances
    <3>1. /\ b.available = g[y].available + Change("available", s[m])
          /\ g[y].available = acct.available + TA[y]
          /\ g[x].available = acct.available + TA[x]
      BY <2>3, <2>4, <2>6 DEF Becomes
    <3>2. /\ b.reserved = g[y].reserved + Change("reserved", s[m])
          /\ g[y].reserved = acct.reserved + TR[y]
          /\ g[x].reserved = acct.reserved + TR[x]
      BY <2>3, <2>4, <2>6 DEF Becomes
    <3>3. /\ b.units = g[y].units + Change("units", s[m])
          /\ g[y].units = acct.units + TU[y]
          /\ g[x].units = acct.units + TU[x]
      BY <2>3, <2>4, <2>6 DEF Becomes
    <3>4. b \in Balances /\ g[x] \in Balances
      BY <2>4, <2>6 DEF Becomes
    <3>5. b.available = g[x].available
      BY <1>5, <2>2, <2>7, <3>1
    <3>6. b.reserved = g[x].reserved
      BY <1>5, <2>2, <2>7, <3>2
    <3>7. b.units = g[x].units
      BY <1>5, <2>2, <2>7, <3>3
    <3> QED  BY <3>4, <3>5, <3>6, <3>7
  <2>9. b = g[x]
    BY <1>9, <2>8
  <2> QED  BY <2>9 DEF b, m, y
<1>12. g = F(g)
  <2>1. \A x \in SUBSET D : g[x] = F(g)[x]
    <3> SUFFICES ASSUME NEW x \in SUBSET D PROVE g[x] = F(g)[x]
      OBVIOUS
    <3> HIDE DEF g
    <3> QED  BY <1>10, <1>11
  <2>2. DOMAIN g = SUBSET D
    OBVIOUS
  <2>3. F(g) = [x \in SUBSET D |-> F(g)[x]] /\ g = [x \in SUBSET D |-> g[x]]
    OBVIOUS
  <2> HIDE DEF F, g
  <2> QED  BY <2>1, <2>3
<1>13. FoldLeft(Booked, acct, s) = G[D]
  BY DEF FoldLeft, MapThenFoldSet
<1>14. G = F(G)
  <2> HIDE DEF g, F
  <2> QED  BY <1>12
<1> HIDE DEF G, g
<1> DEFINE bad == {n \in Nat : \E x \in SUBSET D : Cardinality(x) = n /\ G[x] # g[x]}
<1>15. bad = {}
  <2>1. SUFFICES ASSUME bad # {} PROVE FALSE
    OBVIOUS
  <2>2. PICK n \in bad : \A j \in bad : n <= j
    <3>1. bad \in SUBSET Nat
      OBVIOUS
    <3> HIDE DEF bad
    <3> QED  BY <2>1, <3>1, LeastExists
  <2>3. PICK x \in SUBSET D : Cardinality(x) = n /\ G[x] # g[x]
    BY <2>2
  <2>4. IsFiniteSet(x) /\ x # {}
    <3>1. IsFiniteSet(x)
      BY <1>1, FS_Subset
    <3>2. G[{}] = acct
      BY <1>14
    <3> QED  BY <1>10, <2>3, <3>1, <3>2
  <2> DEFINE y == x \ {Max(x)}
  <2>5. Cardinality(y) = n - 1 /\ Cardinality(y) \in Nat /\ y \in SUBSET D
    BY <1>8, <2>3, <2>4, FS_RemoveElement, FS_CardinalityType
  <2>6. n - 1 \notin bad
    <3>1. n \in Nat
      BY <2>2
    <3> HIDE DEF bad
    <3> QED  BY <2>2, <3>1
  <2>7. G[y] = g[y]
    BY <2>5, <2>6
  <2>8. G[x] = Booked(G[y], s[Max(x)])
    BY <1>14, <2>4
  <2>9. g[x] = Booked(g[y], s[Max(x)])
    BY <1>11, <2>4
  <2> HIDE DEF y
  <2> QED  BY <2>3, <2>7, <2>8, <2>9
<1>16. G[D] = g[D]
  <2>1. D \in SUBSET D /\ Cardinality(D) \in Nat
    BY <1>1, FS_CardinalityType
  <2> HIDE DEF D
  <2> QED  BY <1>15, <2>1
<1>17. Becomes(g[D], acct.available + TA[D], acct.reserved + TR[D], acct.units + TU[D])
  <2>1. D \in SUBSET D
    OBVIOUS
  <2> HIDE DEF D
  <2> QED  BY <1>7, <2>1
<1> QED  BY <1>2, <1>3, <1>4, <1>13, <1>16, <1>17

LEMMA MailSumEmpty ==
  ASSUME NEW c
  PROVE  MailSum(c, <<>>) = 0
<1>1. DOMAIN [k \in DOMAIN <<>> |-> Change(c, <<>>[k])] = {}
  OBVIOUS
<1> QED  BY <1>1, SumEmpty DEF MailSum

LEMMA MailSumOne ==
  ASSUME NEW c \in Components, NEW r \in AllReports
  PROVE  MailSum(c, <<r>>) = Change(c, r)
<1> DEFINE f == [k \in DOMAIN <<r>> |-> Change(c, <<r>>[k])]
<1>1. DOMAIN f = {1} /\ f[1] = Change(c, r) /\ Change(c, r) \in Int
  BY ChangeFacts
<1>2. Summable(f)
  <2>1. IsFiniteSet({1}) /\ \A x \in {1} : f[x] \in Int
    BY <1>1, FS_Singleton
  <2> HIDE DEF f
  <2> QED  BY <1>1, <2>1 DEF Summable
<1>3. SumFunction(f) = f[1] + SumFunction([x \in DOMAIN f \ {1} |-> f[x]])
  <2>1. 1 \in DOMAIN f
    BY <1>1
  <2> HIDE DEF f
  <2> QED  BY <1>2, <2>1, SumWithout
<1>4. SumFunction([x \in DOMAIN f \ {1} |-> f[x]]) = 0
  <2>1. DOMAIN f \ {1} = {}
    BY <1>1
  <2> HIDE DEF f
  <2>2. DOMAIN [x \in DOMAIN f \ {1} |-> f[x]] = {}
    BY <2>1
  <2> QED  BY <2>2, SumEmpty
<1> HIDE DEF f
<1>5. SumFunction(f) = Change(c, r)
  BY <1>1, <1>3, <1>4
<1> QED  BY <1>5 DEF MailSum, f

LEMMA MailSumConcat ==
  ASSUME NEW c \in Components, NEW s \in Seq(AllReports), NEW t \in Seq(AllReports)
  PROVE  MailSum(c, s \o t) = MailSum(c, s) + MailSum(c, t)
<1> DEFINE u == s \o t
           n == Len(s)
           m == Len(t)
           f == [k \in DOMAIN u |-> Change(c, u[k])]
           g == [k \in DOMAIN t |-> Change(c, t[k])]
           A == 1 .. n
           B == n + 1 .. n + m
<1>1. /\ u \in Seq(AllReports) /\ n \in Nat /\ m \in Nat
      /\ DOMAIN u = 1 .. n + m /\ DOMAIN s = 1 .. n /\ DOMAIN t = 1 .. m
      /\ \A k \in 1 .. n + m : u[k] = IF k <= n THEN s[k] ELSE t[k - n]
  <2>1. u \in Seq(AllReports) /\ Len(u) = n + m /\ n \in Nat /\ m \in Nat
    BY ConcatProperties, LenProperties
  <2>2. \A k \in 1 .. n + m : u[k] = IF k <= n THEN s[k] ELSE t[k - n]
    BY ConcatProperties
  <2>3. DOMAIN u = 1 .. Len(u) /\ DOMAIN s = 1 .. n /\ DOMAIN t = 1 .. m
    BY <2>1, LenProperties
  <2> QED  BY <2>1, <2>2, <2>3
<1> HIDE DEF u, n, m
<1>2. Summable(f) /\ Summable(g) /\ DOMAIN f = 1 .. n + m /\ DOMAIN g = 1 .. m
  BY <1>1, MailSummable
<1>3. A \intersect B = {} /\ A \union B = DOMAIN f
  BY <1>1, <1>2
<1>4. SumFunction(f) = SumFunction([x \in A |-> f[x]]) + SumFunction([x \in B |-> f[x]])
  <2> HIDE DEF f, A, B
  <2> QED  BY <1>2, <1>3, SumSplit
<1>5. [x \in A |-> f[x]] = [k \in DOMAIN s |-> Change(c, s[k])]
  <2>1. \A x \in A : x \in 1 .. n + m /\ x <= n
    BY <1>1
  <2> QED  BY <1>1, <2>1
<1>6. SumFunction([x \in B |-> f[x]]) = SumFunction(g)
  <2> DEFINE fB == [x \in B |-> f[x]]
             h == [x \in B |-> x - n]
  <2>1. DOMAIN fB = B /\ IsFiniteSet(B)
    BY <1>1, FS_Interval
  <2>2. h \in [B -> 1 .. m]
    BY <1>1
  <2>3. \A x, y \in B : h[x] = h[y] => x = y
    BY <1>1
  <2>4. ASSUME NEW y \in 1 .. m PROVE \E x \in B : h[x] = y
    <3>1. y + n \in B /\ h[y + n] = y
      BY <1>1
    <3> QED  BY <3>1
  <2>5. ASSUME NEW x \in B PROVE fB[x] = g[h[x]]
    <3>1. x \in 1 .. n + m /\ ~(x <= n) /\ x - n \in 1 .. m
      BY <1>1
    <3>2. u[x] = t[x - n]
      BY <1>1, <3>1
    <3> QED  BY <1>1, <3>1, <3>2
  <2> HIDE DEF fB, h, g, f, B
  <2>6. SumFunction(fB) = SumFunction(g)
    <3>1. h \in [DOMAIN fB -> DOMAIN g] /\ IsFiniteSet(DOMAIN fB) /\ Summable(g)
      BY <1>2, <2>1, <2>2
    <3>2. \A x, y \in DOMAIN fB : h[x] = h[y] => x = y
      BY <2>1, <2>3
    <3>3. \A y \in DOMAIN g : \E x \in DOMAIN fB : h[x] = y
      BY <1>2, <2>1, <2>4
    <3>4. \A x \in DOMAIN fB : fB[x] = g[h[x]]
      BY <2>1, <2>5
    <3> QED  BY <3>1, <3>2, <3>3, <3>4, SumRenamed
  <2> QED  BY <2>6 DEF fB
<1> HIDE DEF f, g, A, B
<1>7. SumFunction(f) = SumFunction([k \in DOMAIN s |-> Change(c, s[k])]) + SumFunction(g)
  BY <1>4, <1>5, <1>6
<1> QED  BY <1>7 DEF MailSum, f, g, u

LEMMA MailSumTail ==
  ASSUME NEW c \in Components, NEW s \in Seq(AllReports), s # <<>>
  PROVE  MailSum(c, s) = Change(c, Head(s)) + MailSum(c, Tail(s))
<1>1. /\ Head(s) \in AllReports /\ Tail(s) \in Seq(AllReports)
      /\ Len(Tail(s)) = Len(s) - 1 /\ Len(s) \in Nat /\ Len(s) >= 1 /\ Head(s) = s[1]
      /\ \A k \in 1 .. Len(s) - 1 : Tail(s)[k] = s[k + 1]
  BY HeadTailProperties, LenProperties, EmptySeq
<1> DEFINE o == <<Head(s)>>
           t == Tail(s)
<1>2. o \in Seq(AllReports) /\ Len(o) = 1 /\ o[1] = s[1]
  BY <1>1
<1> HIDE DEF o, t
<1>3. /\ o \o t \in Seq(AllReports) /\ Len(o \o t) = Len(s)
      /\ \A k \in 1 .. Len(s) : (o \o t)[k] = IF k <= 1 THEN o[k] ELSE t[k - 1]
  <2>1. t \in Seq(AllReports) /\ Len(t) = Len(s) - 1
    BY <1>1 DEF t
  <2>2. o \o t \in Seq(AllReports) /\ Len(o \o t) = 1 + (Len(s) - 1)
    <3>1. o \o t \in Seq(AllReports) /\ Len(o \o t) = Len(o) + Len(t)
      BY <1>2, <2>1, ConcatProperties
    <3> QED  BY <1>2, <2>1, <3>1
  <2>3. 1 + (Len(s) - 1) = Len(s)
    BY <1>1
  <2>4. \A k \in 1 .. Len(o) + Len(t) : (o \o t)[k] = IF k <= Len(o) THEN o[k] ELSE t[k - Len(o)]
    <3>1. o \in Seq(AllReports) /\ t \in Seq(AllReports)
      BY <1>2, <2>1
    <3> QED  BY <3>1, ConcatProperties
  <2> QED  BY <1>2, <2>1, <2>2, <2>3, <2>4
<1>4. \A k \in 1 .. Len(s) : (o \o t)[k] = s[k]
  <2> SUFFICES ASSUME NEW k \in 1 .. Len(s) PROVE (o \o t)[k] = s[k]
    OBVIOUS
  <2>1. CASE k = 1
    BY <1>2, <1>3, <2>1
  <2>2. CASE k # 1
    <3>1. k - 1 \in 1 .. Len(s) - 1 /\ (k - 1) + 1 = k /\ ~(k <= 1)
      BY <1>1, <2>2
    <3>2. t[k - 1] = s[k]
      BY <1>1, <3>1 DEF t
    <3> QED  BY <1>3, <3>1, <3>2
  <2> QED  BY <2>1, <2>2
<1>5. o \o t = s
  BY <1>3, <1>4, SeqEqual
<1>6. MailSum(c, o \o t) = MailSum(c, o) + MailSum(c, t)
  BY <1>1, <1>2, MailSumConcat DEF t
<1>7. MailSum(c, o) = Change(c, Head(s))
  BY <1>1, MailSumOne DEF o
<1> QED  BY <1>5, <1>6, <1>7 DEF t

-----------------------------------------------------------------------------
(* What orders tie up                                                      *)

\* What an order, or a cancel, ties up of agent a on side sd.
Weight(o, a, sd) ==
  IF o.type # "CANCEL" /\ o.client = a /\ o.side = sd THEN Worth(sd, o) ELSE 0

LEMMA WorthTyped ==
  ASSUME NEW o, o.price \in Int, o.qty \in Int, NEW sd
  PROVE  Worth(sd, o) \in Int
<1>1. Cents(o.price) \in Int
  BY DEF Cents
<1>2. Cents(o.price) * o.qty \in Int
  BY <1>1
<1> QED  BY <1>2 DEF Worth

LEMMA WeightTyped ==
  ASSUME NEW o \in Forms \union EngineOrders, NEW a, NEW sd
  PROVE  Weight(o, a, sd) \in Int
<1>1. CASE o.type = "CANCEL"
  BY <1>1 DEF Weight
<1>2. CASE o.type # "CANCEL"
  <2>1. o.price \in Int /\ o.qty \in Int
    <3>1. o.price \in AskedPrices /\ o.qty \in Int
      BY <1>2 DEF Forms, OrderForms, CancelForms, EngineOrders
    <3> QED  BY <3>1, AskedPricesTyped
  <2> QED  BY <2>1, WorthTyped DEF Weight
<1> QED  BY <1>1, <1>2

\* Of orders in the engine.
OrdersSum(S, a, sd) ==
  SumFunction([o \in {r \in S : r.client = a /\ r.side = sd} |-> Worth(sd, o)])

LEMMA OrdersSumTyped ==
  ASSUME NEW S \in SUBSET EngineOrders, IsFiniteSet(S), NEW a, NEW sd
  PROVE  /\ Summable([o \in {r \in S : r.client = a /\ r.side = sd} |-> Worth(sd, o)])
         /\ OrdersSum(S, a, sd) \in Int
<1> DEFINE R == {r \in S : r.client = a /\ r.side = sd}
<1>1. IsFiniteSet(R)
  BY FS_Subset
<1>2. \A o \in R : Worth(sd, o) \in Int
  <2>1. \A o \in R : o.price \in AskedPrices /\ o.qty \in Int
    BY DEF EngineOrders
  <2>2. \A o \in R : o.price \in Int /\ o.qty \in Int
    BY <2>1, AskedPricesTyped
  <2> QED  BY <2>2, WorthTyped
<1>3. Summable([o \in R |-> Worth(sd, o)])
  BY <1>1, <1>2 DEF Summable
<1> QED  BY <1>3, SumType DEF OrdersSum

LEMMA OrdersSumAdd ==
  ASSUME NEW S \in SUBSET EngineOrders, IsFiniteSet(S), NEW a, NEW sd, NEW o \in EngineOrders \ S
  PROVE  OrdersSum(S \union {o}, a, sd) = OrdersSum(S, a, sd) + Weight(o, a, sd)
<1> DEFINE R == {r \in S : r.client = a /\ r.side = sd}
           Q == {r \in S \union {o} : r.client = a /\ r.side = sd}
           f == [r \in Q |-> Worth(sd, r)]
<1>1. o.type # "CANCEL"
  BY DEF EngineOrders
<1>2. CASE o.client = a /\ o.side = sd
  <2>1. Q = R \union {o} /\ Q \ {o} = R /\ o \in Q
    BY <1>2
  <2>2. Summable(f)
    <3>1. S \union {o} \in SUBSET EngineOrders /\ IsFiniteSet(S \union {o})
      BY FS_AddElement
    <3> QED  BY <3>1, OrdersSumTyped
  <2>3. SumFunction(f) = f[o] + SumFunction([r \in DOMAIN f \ {o} |-> f[r]])
    <3>1. o \in DOMAIN f
      BY <2>1
    <3> HIDE DEF f
    <3> QED  BY <2>2, <3>1, SumWithout
  <2>4. [r \in DOMAIN f \ {o} |-> f[r]] = [r \in R |-> Worth(sd, r)]
    BY <2>1
  <2>5. f[o] = Weight(o, a, sd) /\ Weight(o, a, sd) \in Int
    BY <1>1, <1>2, <2>1, WeightTyped DEF Weight
  <2>6. OrdersSum(S, a, sd) \in Int
    BY OrdersSumTyped
  <2> HIDE DEF f
  <2>7. SumFunction(f) = Weight(o, a, sd) + OrdersSum(S, a, sd)
    BY <2>3, <2>4, <2>5 DEF OrdersSum
  <2> QED  BY <2>5, <2>6, <2>7 DEF OrdersSum, f
<1>3. CASE ~(o.client = a /\ o.side = sd)
  <2>1. Q = R
    BY <1>3
  <2>2. Weight(o, a, sd) = 0 /\ OrdersSum(S, a, sd) \in Int
    BY <1>3, OrdersSumTyped DEF Weight
  <2>3. OrdersSum(S \union {o}, a, sd) = OrdersSum(S, a, sd)
    BY <2>1 DEF OrdersSum
  <2> QED  BY <2>2, <2>3
<1> QED  BY <1>2, <1>3

\* Of orders that wait to be pushed or popped, or that were dropped.
LEMMA WaitingTyped ==
  ASSUME NEW s \in Seq(Forms), NEW a, NEW sd
  PROVE  /\ Summable([k \in Waiting(s, a, sd) |-> Worth(sd, s[k])])
         /\ WaitingWorth(s, a, sd) \in Int
<1>1. DOMAIN s = 1 .. Len(s) /\ Len(s) \in Nat /\ \A k \in DOMAIN s : s[k] \in Forms
  BY LenProperties, ElementOfSeq
<1>2. IsFiniteSet(Waiting(s, a, sd))
  <2>1. IsFiniteSet(DOMAIN s) /\ Waiting(s, a, sd) \in SUBSET DOMAIN s
    BY <1>1, FS_Interval DEF Waiting
  <2> QED  BY <2>1, FS_Subset
<1>3. ASSUME NEW k \in Waiting(s, a, sd) PROVE Worth(sd, s[k]) \in Int
  <2>1. s[k] \in Forms /\ s[k].type # "CANCEL"
    BY <1>1 DEF Waiting
  <2>2. s[k].price \in Int /\ s[k].qty \in Int
    <3>1. s[k].price \in AskedPrices /\ s[k].qty \in Int
      BY <2>1, FormFacts DEF OrderForms
    <3> QED  BY <3>1, AskedPricesTyped
  <2> QED  BY <2>2, WorthTyped
<1>4. Summable([k \in Waiting(s, a, sd) |-> Worth(sd, s[k])])
  BY <1>2, <1>3 DEF Summable
<1> QED  BY <1>4, SumType DEF WaitingWorth

LEMMA WaitingEmpty ==
  ASSUME NEW a, NEW sd
  PROVE  WaitingWorth(<<>>, a, sd) = 0
<1>1. Waiting(<<>>, a, sd) = {}
  BY DEF Waiting
<1> QED  BY <1>1, SumEmpty DEF WaitingWorth

LEMMA WaitingAppend ==
  ASSUME NEW s \in Seq(Forms), NEW o \in Forms, NEW a, NEW sd
  PROVE  WaitingWorth(Append(s, o), a, sd) = WaitingWorth(s, a, sd) + Weight(o, a, sd)
<1> DEFINE t == Append(s, o)
           n == Len(s)
           W == Waiting(s, a, sd)
           f == [k \in Waiting(t, a, sd) |-> Worth(sd, t[k])]
<1>1. /\ t \in Seq(Forms) /\ n \in Nat /\ DOMAIN s = 1 .. n /\ DOMAIN t = 1 .. n + 1
      /\ \A k \in 1 .. n : t[k] = s[k]
      /\ t[n + 1] = o
  BY AppendProperties, LenProperties
<1> HIDE DEF t
<1>2. /\ W \subseteq 1 .. n
      /\ Waiting(t, a, sd) = IF o.type # "CANCEL" /\ o.client = a /\ o.side = sd
                               THEN W \union {n + 1} ELSE W
  <2>1. \A k \in DOMAIN t : k \in 1 .. n \/ k = n + 1
    BY <1>1
  <2>2. \A k \in 1 .. n : k \in DOMAIN t /\ k # n + 1
    BY <1>1
  <2>3. n + 1 \in DOMAIN t
    BY <1>1
  <2> QED  BY <1>1, <2>1, <2>2, <2>3 DEF Waiting
<1>3. Summable(f) /\ WaitingWorth(s, a, sd) \in Int /\ Weight(o, a, sd) \in Int
  BY <1>1, WaitingTyped, WeightTyped
<1>4. CASE o.type # "CANCEL" /\ o.client = a /\ o.side = sd
  <2>1. n + 1 \in DOMAIN f /\ DOMAIN f \ {n + 1} = W /\ f[n + 1] = Weight(o, a, sd)
    BY <1>1, <1>2, <1>4 DEF Weight
  <2>2. [k \in DOMAIN f \ {n + 1} |-> f[k]] = [k \in W |-> Worth(sd, s[k])]
    BY <1>1, <1>2, <2>1
  <2>3. SumFunction(f) = f[n + 1] + SumFunction([k \in DOMAIN f \ {n + 1} |-> f[k]])
    <3> HIDE DEF f
    <3> QED  BY <1>3, <2>1, SumWithout
  <2> HIDE DEF f
  <2>4. SumFunction(f) = Weight(o, a, sd) + WaitingWorth(s, a, sd)
    BY <2>1, <2>2, <2>3 DEF WaitingWorth
  <2>5. WaitingWorth(t, a, sd) = SumFunction(f)
    BY DEF WaitingWorth, f
  <2> QED  BY <1>3, <2>4, <2>5 DEF t
<1>5. CASE ~(o.type # "CANCEL" /\ o.client = a /\ o.side = sd)
  <2>1. Waiting(t, a, sd) = W /\ Weight(o, a, sd) = 0
    BY <1>2, <1>5 DEF Weight
  <2>2. f = [k \in W |-> Worth(sd, s[k])]
    BY <1>1, <1>2, <2>1
  <2>3. WaitingWorth(t, a, sd) = WaitingWorth(s, a, sd)
    BY <2>2 DEF WaitingWorth
  <2> QED  BY <1>3, <2>1, <2>3 DEF t
<1> QED  BY <1>4, <1>5

LEMMA WaitingTail ==
  ASSUME NEW s \in Seq(Forms), s # <<>>, NEW a, NEW sd
  PROVE  WaitingWorth(s, a, sd) = Weight(Head(s), a, sd) + WaitingWorth(Tail(s), a, sd)
<1> DEFINE t == Tail(s)
           o == Head(s)
           n == Len(s)
           W == Waiting(s, a, sd)
           V == Waiting(t, a, sd)
           f == [k \in W |-> Worth(sd, s[k])]
           g == [k \in V |-> Worth(sd, t[k])]
           A == W \ {1}
           fA == [k \in A |-> f[k]]
<1>1. /\ t \in Seq(Forms) /\ n \in Nat /\ n >= 1 /\ o = s[1] /\ o \in Forms
      /\ DOMAIN s = 1 .. n /\ DOMAIN t = 1 .. n - 1
      /\ \A k \in 1 .. n - 1 : t[k] = s[k + 1]
  BY HeadTailProperties, LenProperties, EmptySeq
<1> HIDE DEF t, o, n
<1>2. Summable(f) /\ Summable(g) /\ WaitingWorth(t, a, sd) \in Int /\ Weight(o, a, sd) \in Int
  BY <1>1, WaitingTyped, WeightTyped
<1>3. SumFunction(fA) = SumFunction(g)
  <2> DEFINE h == [k \in A |-> k - 1]
  <2>1. IsFiniteSet(A)
    BY <1>2, FS_RemoveElement DEF Summable
  <2>2. \A k \in A : /\ k \in 1 .. n /\ k # 1 /\ k - 1 \in 1 .. n - 1 /\ (k - 1) + 1 = k
                     /\ t[k - 1] = s[k]
    <3>1. \A k \in A : k \in 1 .. n /\ k # 1
      BY <1>1 DEF Waiting
    <3>2. \A k \in 1 .. n : k # 1 => k - 1 \in 1 .. n - 1 /\ (k - 1) + 1 = k
      BY <1>1
    <3> HIDE DEF A
    <3> QED  BY <1>1, <3>1, <3>2
  <2>3. h \in [A -> V]
    <3>1. \A k \in A : k - 1 \in V
      BY <1>1, <2>2 DEF Waiting
    <3> QED  BY <3>1
  <2>4. \A x, y \in A : h[x] = h[y] => x = y
    BY <2>2
  <2>5. ASSUME NEW y \in V PROVE \E x \in A : h[x] = y
    <3>1. y \in 1 .. n - 1
      BY <1>1 DEF Waiting
    <3>2. y + 1 \in 1 .. n /\ y + 1 # 1 /\ (y + 1) - 1 = y /\ t[y] = s[y + 1]
      BY <1>1, <3>1
    <3>3. y + 1 \in A
      BY <1>1, <3>1, <3>2 DEF Waiting
    <3> QED  BY <3>2, <3>3
  <2>6. \A x \in A : fA[x] = g[h[x]]
    BY <2>2, <2>3
  <2> HIDE DEF f, g, h, A, V
  <2>7. DOMAIN fA = A /\ DOMAIN g = V
    BY DEF g
  <2> HIDE DEF fA
  <2> QED  BY <1>2, <2>1, <2>3, <2>4, <2>5, <2>6, <2>7, SumRenamed
<1>4. CASE o.type # "CANCEL" /\ o.client = a /\ o.side = sd
  <2>1. 1 \in W /\ f[1] = Weight(o, a, sd)
    <3>1. 1 \in DOMAIN s
      BY <1>1
    <3> QED  BY <1>1, <1>4, <3>1 DEF Waiting, Weight
  <2>2. SumFunction(f) = f[1] + SumFunction([k \in DOMAIN f \ {1} |-> f[k]])
    <3>1. 1 \in DOMAIN f
      BY <2>1
    <3> HIDE DEF f
    <3> QED  BY <1>2, <3>1, SumWithout
  <2>3. [k \in DOMAIN f \ {1} |-> f[k]] = fA
    OBVIOUS
  <2> HIDE DEF f, fA, g
  <2>4. SumFunction(f) = Weight(o, a, sd) + SumFunction(g)
    BY <1>3, <2>1, <2>2, <2>3
  <2> QED  BY <2>4 DEF f, g, t, o, WaitingWorth
<1>5. CASE ~(o.type # "CANCEL" /\ o.client = a /\ o.side = sd)
  <2>1. A = W /\ Weight(o, a, sd) = 0
    BY <1>1, <1>5 DEF Waiting, Weight
  <2>2. fA = f
    BY <2>1
  <2> HIDE DEF f, fA, g
  <2>3. SumFunction(f) = SumFunction(g)
    BY <1>3, <2>2
  <2>4. WaitingWorth(s, a, sd) = WaitingWorth(t, a, sd)
    BY <2>3 DEF f, g, WaitingWorth
  <2> QED  BY <1>2, <2>1, <2>4 DEF t, o
<1> QED  BY <1>4, <1>5

-----------------------------------------------------------------------------
(* What is still in the mail                                               *)

Pending(c, a) == MailSum(c, inbox[a]) + MailSum(c, lost[a])

LEMMA PendingTyped ==
  ASSUME MailTyped, NEW c \in Components, NEW a \in Agents
  PROVE  Pending(c, a) \in Int
<1>1. inbox[a] \in Seq(AllReports) /\ lost[a] \in Seq(AllReports)
  BY DEF MailTyped
<1>2. MailSum(c, inbox[a]) \in Int /\ MailSum(c, lost[a]) \in Int
  BY <1>1, MailSummable
<1> QED  BY <1>2 DEF Pending

LEMMA SettledFacts ==
  ASSUME Typed, NEW a \in Agents
  PROVE  /\ Settled(a).available = account[a].available + Pending("available", a)
         /\ Settled(a).reserved = account[a].reserved + Pending("reserved", a)
         /\ Settled(a).units = account[a].units + Pending("units", a)
         /\ account[a].available \in Int /\ account[a].reserved \in Int /\ account[a].units \in Int
<1> DEFINE s == inbox[a] \o lost[a]
<1>1. inbox[a] \in Seq(AllReports) /\ lost[a] \in Seq(AllReports) /\ account[a] \in Balances
  BY DEF Typed, MailTyped, AccountsTyped
<1>2. s \in Seq(AllReports)
  BY <1>1, ConcatProperties
<1>3. \A c \in Components : MailSum(c, s) = Pending(c, a)
  BY <1>1, MailSumConcat DEF Pending
<1>4. /\ MailSum("available", s) = Pending("available", a)
      /\ MailSum("reserved", s) = Pending("reserved", a)
      /\ MailSum("units", s) = Pending("units", a)
  BY <1>3 DEF Components
<1>5. Settled(a) = FoldLeft(Booked, account[a], s)
  BY DEF Settled
<1> HIDE DEF s
<1>6. Becomes(FoldLeft(Booked, account[a], s),
              account[a].available + MailSum("available", s),
              account[a].reserved + MailSum("reserved", s),
              account[a].units + MailSum("units", s))
  BY <1>1, <1>2, FoldFacts
<1> QED  BY <1>1, <1>4, <1>5, <1>6 DEF Becomes, Balances

\* A report tells one agent.
Told(c, a, r) == IF r.clientRef = a THEN Change(c, r) ELSE 0

LEMMA ToldTyped ==
  ASSUME NEW c \in Components, NEW a, NEW r \in AllReports
  PROVE  Told(c, a, r) \in Int
BY ChangeFacts DEF Told

LEMMA HalfSum ==
  ASSUME reports' \subseteq AllReports, \A x, y \in reports' : x.side = y.side => x = y,
         NEW c \in Components, NEW a, NEW sd
  PROVE  /\ \A r \in reports' : r.side = sd => MailSum(c, Half(a, sd)) = Told(c, a, r)
         /\ (\A r \in reports' : r.side # sd) => MailSum(c, Half(a, sd)) = 0
<1>1. ASSUME NEW r \in reports', r.side = sd
      PROVE  MailSum(c, Half(a, sd)) = Told(c, a, r)
  <2>1. CASE r.clientRef = a
    <3>1. Half(a, sd) = <<r>> /\ r \in AllReports
      BY <1>1, <2>1, HalfFacts
    <3> QED  BY <2>1, <3>1, MailSumOne DEF Told
  <2>2. CASE r.clientRef # a
    <3>1. \A x \in reports' : ~(x.clientRef = a /\ x.side = sd)
      BY <1>1, <2>2
    <3>2. Half(a, sd) = <<>>
      BY <3>1, HalfFacts
    <3> QED  BY <2>2, <3>2, MailSumEmpty DEF Told
  <2> QED  BY <2>1, <2>2
<1>2. ASSUME \A r \in reports' : r.side # sd
      PROVE  MailSum(c, Half(a, sd)) = 0
  <2>1. Half(a, sd) = <<>>
    BY <1>2, HalfFacts
  <2> QED  BY <2>1, MailSumEmpty
<1> QED  BY <1>1, <1>2

\* What is dispatched is pending, in the ring buffer or lost.
LEMMA DispatchPending ==
  ASSUME MailTyped, Dispatch,
         reports' \subseteq AllReports, \A x, y \in reports' : x.side = y.side => x = y,
         NEW c \in Components, NEW a \in Agents
  PROVE  Pending(c, a)' = Pending(c, a) + MailSum(c, Half(a, "Sell")) + MailSum(c, Half(a, "Buy"))
<1> DEFINE M == Mail(a)
           i == inbox[a]
           l == lost[a]
<1>1. Delivers
  BY DispatchFacts
<1>2. PICK f \in 0 .. Len(M) : inbox'[a] = i \o SubSeq(M, 1, f) /\ lost'[a] = l \o SubSeq(M, f + 1, Len(M))
  BY <1>1 DEF Delivers
<1>3. Half(a, "Sell") \in Seq(AllReports) /\ Half(a, "Buy") \in Seq(AllReports)
  BY HalfFacts
<1>4. M \in Seq(AllReports) /\ MailSum(c, M) = MailSum(c, Half(a, "Sell")) + MailSum(c, Half(a, "Buy"))
  BY <1>3, MailSumConcat, ConcatProperties DEF Mail
<1>5. i \in Seq(AllReports) /\ l \in Seq(AllReports)
  BY DEF MailTyped
<1> HIDE DEF M, i, l
<1> DEFINE s == SubSeq(M, 1, f)
           t == SubSeq(M, f + 1, Len(M))
<1>6. s \in Seq(AllReports) /\ t \in Seq(AllReports) /\ s \o t = M
  <2>1. Len(M) \in Nat /\ \A k \in 1 .. Len(M) : M[k] \in AllReports
    BY <1>4, LenProperties, ElementOfSeq
  <2>2. /\ s \in Seq(AllReports) /\ Len(s) = f
        /\ \A k \in 1 .. f : s[k] = M[k]
    BY <1>4, <2>1, SubSeqProperties
  <2>3. /\ t \in Seq(AllReports) /\ Len(t) = Len(M) - f
        /\ \A k \in 1 .. Len(M) - f : t[k] = M[f + k]
    <3>1. \A k \in f + 1 .. Len(M) : M[k] \in AllReports
      BY <2>1
    <3>2. f + 1 \in Int /\ Len(M) \in Int /\ (f + 1 <= Len(M) + 1)
      BY <2>1
    <3>3. t \in Seq(AllReports) /\ Len(t) = (IF f + 1 <= Len(M) THEN Len(M) - (f + 1) + 1 ELSE 0)
          /\ \A k \in 1 .. Len(M) - (f + 1) + 1 : t[k] = M[f + 1 + k - 1]
      BY <1>4, <2>1, <3>1, <3>2, SubSeqProperties
    <3>4. \A k \in 1 .. Len(M) - f : k \in 1 .. Len(M) - (f + 1) + 1 /\ f + 1 + k - 1 = f + k
      BY <2>1
    <3>5. (IF f + 1 <= Len(M) THEN Len(M) - (f + 1) + 1 ELSE 0) = Len(M) - f
      BY <2>1
    <3> HIDE DEF t
    <3> QED  BY <3>3, <3>4, <3>5
  <2> HIDE DEF s, t
  <2>4. s \o t \in Seq(AllReports) /\ Len(s \o t) = Len(M)
        /\ \A k \in 1 .. Len(M) : (s \o t)[k] = IF k <= f THEN s[k] ELSE t[k - f]
    <3>1. s \o t \in Seq(AllReports) /\ Len(s \o t) = f + (Len(M) - f)
          /\ \A k \in 1 .. f + (Len(M) - f) : (s \o t)[k] = IF k <= f THEN s[k] ELSE t[k - f]
      <4>1. s \in Seq(AllReports) /\ t \in Seq(AllReports)
        BY <2>2, <2>3
      <4>2. s \o t \in Seq(AllReports) /\ Len(s \o t) = Len(s) + Len(t)
        BY <4>1, ConcatProperties
      <4>3. \A k \in 1 .. Len(s) + Len(t) : (s \o t)[k] = IF k <= Len(s) THEN s[k] ELSE t[k - Len(s)]
        BY <4>1, ConcatProperties
      <4>4. Len(s) = f /\ Len(t) = Len(M) - f
        BY <2>2, <2>3
      <4> QED  BY <4>2, <4>3, <4>4
    <3>2. f + (Len(M) - f) = Len(M)
      BY <2>1
    <3> QED  BY <3>1, <3>2
  <2>5. \A k \in 1 .. Len(M) : (s \o t)[k] = M[k]
    <3> SUFFICES ASSUME NEW k \in 1 .. Len(M) PROVE (s \o t)[k] = M[k]
      OBVIOUS
    <3>1. CASE k <= f
      <4>1. k \in 1 .. f
        BY <3>1
      <4> QED  BY <2>2, <2>4, <3>1, <4>1
    <3>2. CASE ~(k <= f)
      <4>1. k - f \in 1 .. Len(M) - f /\ f + (k - f) = k
        BY <2>1, <3>2
      <4> QED  BY <2>3, <2>4, <3>2, <4>1
    <3> QED  BY <3>1, <3>2
  <2> QED  BY <1>4, <2>2, <2>3, <2>4, <2>5, SeqEqual
<1> HIDE DEF s, t
<1>7. /\ MailSum(c, i \o s) = MailSum(c, i) + MailSum(c, s)
      /\ MailSum(c, l \o t) = MailSum(c, l) + MailSum(c, t)
      /\ MailSum(c, M) = MailSum(c, s) + MailSum(c, t)
  BY <1>5, <1>6, MailSumConcat
<1>8. /\ MailSum(c, i) \in Int /\ MailSum(c, l) \in Int /\ MailSum(c, s) \in Int /\ MailSum(c, t) \in Int
      /\ MailSum(c, Half(a, "Sell")) \in Int /\ MailSum(c, Half(a, "Buy")) \in Int
  BY <1>3, <1>5, <1>6, MailSummable
<1>9. Pending(c, a)' = MailSum(c, i \o s) + MailSum(c, l \o t)
  BY <1>2 DEF Pending, s, t
<1>10. Pending(c, a) = MailSum(c, i) + MailSum(c, l)
  BY DEF Pending, i, l
<1>11. Pending(c, a)' = (MailSum(c, i) + MailSum(c, s)) + (MailSum(c, l) + MailSum(c, t))
  BY <1>7, <1>9
<1>12. MailSum(c, s) + MailSum(c, t) = MailSum(c, Half(a, "Sell")) + MailSum(c, Half(a, "Buy"))
  BY <1>4, <1>7
<1>13. (MailSum(c, i) + MailSum(c, s)) + (MailSum(c, l) + MailSum(c, t)) =
         (MailSum(c, i) + MailSum(c, l)) + MailSum(c, Half(a, "Sell")) + MailSum(c, Half(a, "Buy"))
  <2> DEFINE v == MailSum(c, i)
             w == MailSum(c, l)
             x == MailSum(c, s)
             y == MailSum(c, t)
             z == MailSum(c, Half(a, "Sell"))
             u == MailSum(c, Half(a, "Buy"))
  <2>1. v \in Int /\ w \in Int /\ x \in Int /\ y \in Int /\ z \in Int /\ u \in Int /\ x + y = z + u
    BY <1>8, <1>12
  <2> HIDE DEF v, w, x, y, z, u
  <2>2. (v + x) + (w + y) = (v + w) + z + u
    BY <2>1
  <2> QED  BY <2>2 DEF v, w, x, y, z, u
<1> QED  BY <1>10, <1>11, <1>13

-----------------------------------------------------------------------------
(* What the engine holds                                                   *)

TakerWeight(a, sd) == IF taker = NoTaker THEN 0 ELSE Weight(taker, a, sd)

LEMMA EngineSum ==
  ASSUME NEW S \in SUBSET EngineOrders, IsFiniteSet(S), NEW t, t # NoTaker => t \in EngineOrders \ S,
         NEW a, NEW sd
  PROVE  /\ OrdersSum(S \union ({t} \ {NoTaker}), a, sd) =
              OrdersSum(S, a, sd) + IF t = NoTaker THEN 0 ELSE Weight(t, a, sd)
         /\ OrdersSum(S, a, sd) \in Int
         /\ t # NoTaker => Weight(t, a, sd) \in Int
<1>1. OrdersSum(S, a, sd) \in Int
  BY OrdersSumTyped
<1>2. CASE t = NoTaker
  <2>1. S \union ({t} \ {NoTaker}) = S
    BY <1>2
  <2>2. OrdersSum(S \union ({t} \ {NoTaker}), a, sd) = OrdersSum(S, a, sd)
    BY <2>1
  <2>3. OrdersSum(S, a, sd) = OrdersSum(S, a, sd) + 0
    BY <1>1
  <2> QED  BY <1>1, <1>2, <2>2, <2>3
<1>3. CASE t # NoTaker
  <2>1. S \union ({t} \ {NoTaker}) = S \union {t} /\ t \in EngineOrders \ S
    BY <1>3
  <2>2. OrdersSum(S \union {t}, a, sd) = OrdersSum(S, a, sd) + Weight(t, a, sd)
    BY <2>1, OrdersSumAdd
  <2>3. Weight(t, a, sd) \in Int
    BY <2>1, WeightTyped
  <2> QED  BY <1>1, <1>3, <2>1, <2>2, <2>3
<1> QED  BY <1>2, <1>3

LEMMA InEngineFacts ==
  ASSUME EngineTyped, NEW a, NEW sd
  PROVE  /\ InEngineWorth(a, sd) = OrdersSum(book, a, sd) + TakerWeight(a, sd)
         /\ OrdersSum(book, a, sd) \in Int /\ TakerWeight(a, sd) \in Int
<1>1. /\ book \in SUBSET EngineOrders /\ IsFiniteSet(book)
      /\ taker # NoTaker => taker \in EngineOrders \ book
  BY DEF EngineTyped
<1>2. InEngineWorth(a, sd) = OrdersSum(book \union ({taker} \ {NoTaker}), a, sd)
  BY DEF InEngineWorth, InEngine, OrdersSum
<1> QED  BY <1>1, <1>2, EngineSum DEF TakerWeight

\* The same after a step.
LEMMA InEngineNext ==
  ASSUME EngineTyped', NEW a, NEW sd
  PROVE  /\ InEngineWorth(a, sd)' = OrdersSum(book', a, sd) + TakerWeight(a, sd)'
         /\ OrdersSum(book', a, sd) \in Int /\ TakerWeight(a, sd)' \in Int
<1>1. /\ book' \in SUBSET EngineOrders /\ IsFiniteSet(book')
      /\ taker' # NoTaker => taker' \in EngineOrders \ book'
  BY DEF EngineTyped
<1>2. InEngineWorth(a, sd)' = OrdersSum(book' \union ({taker'} \ {NoTaker}), a, sd)
  BY DEF InEngineWorth, InEngine, OrdersSum
<1>3. TakerWeight(a, sd)' = IF taker' = NoTaker THEN 0 ELSE Weight(taker', a, sd)
  BY DEF TakerWeight
<1>4. /\ OrdersSum(book' \union ({taker'} \ {NoTaker}), a, sd) =
           OrdersSum(book', a, sd) + IF taker' = NoTaker THEN 0 ELSE Weight(taker', a, sd)
      /\ OrdersSum(book', a, sd) \in Int
      /\ taker' # NoTaker => Weight(taker', a, sd) \in Int
  BY <1>1, EngineSum
<1> QED  BY <1>2, <1>3, <1>4

LEMMA NotAnOrder ==
  ASSUME NEW o \in EngineOrders
  PROVE  o # NoTaker
<1>1. o.price \in AskedPrices
  BY DEF EngineOrders
<1>2. o.price \in Int
  BY <1>1, AskedPricesTyped
<1>3. o \in [id : Nat, type : {"LIMIT", "MARKET"}, client : Agents, side : Sides, price : Int, qty : Int]
  BY <1>2 DEF EngineOrders
<1> QED  BY <1>3, NoTakerAssumption

\* What q units of an order tie up.
Part(o, q, a, sd) ==
  IF o.client = a /\ o.side = sd THEN IF sd = "Buy" THEN Cents(o.price) * q ELSE q ELSE 0

LEMMA PartFacts ==
  ASSUME NEW o \in EngineOrders, NEW q \in Nat, q <= o.qty, NEW a, NEW sd
  PROVE  /\ Part(o, q, a, sd) \in Int
         /\ Weight(o, a, sd) = Part(o, o.qty, a, sd)
         /\ Weight([o EXCEPT !.qty = o.qty - q], a, sd) = Weight(o, a, sd) - Part(o, q, a, sd)
         /\ Weight(o, a, sd) \in Int
<1> DEFINE x == Cents(o.price)
           l == [o EXCEPT !.qty = o.qty - q]
<1>1. o.type # "CANCEL" /\ o.qty \in Nat /\ x \in Int
  <2>1. o.price \in AskedPrices
    BY DEF EngineOrders
  <2>2. o.price \in Int
    BY <2>1, AskedPricesTyped
  <2> QED  BY <2>2 DEF EngineOrders, Cents
<1>2. l.type = o.type /\ l.client = o.client /\ l.side = o.side /\ l.qty = o.qty - q /\ Cents(l.price) = x
  BY DEF EngineOrders
<1>3. /\ Weight(o, a, sd) = IF o.client = a /\ o.side = sd THEN IF sd = "Buy" THEN x * o.qty ELSE o.qty ELSE 0
      /\ Part(o, o.qty, a, sd) = IF o.client = a /\ o.side = sd THEN IF sd = "Buy" THEN x * o.qty ELSE o.qty ELSE 0
      /\ Part(o, q, a, sd) = IF o.client = a /\ o.side = sd THEN IF sd = "Buy" THEN x * q ELSE q ELSE 0
  BY <1>1 DEF Weight, Worth, Part
<1> HIDE DEF l
<1>4. Weight(l, a, sd) = IF o.client = a /\ o.side = sd
                           THEN IF sd = "Buy" THEN x * (o.qty - q) ELSE o.qty - q ELSE 0
  BY <1>1, <1>2 DEF Weight, Worth
<1> HIDE DEF x
<1>5. x * o.qty \in Int /\ x * q \in Int /\ x * (o.qty - q) = x * o.qty - x * q
  BY <1>1
<1> QED  BY <1>1, <1>3, <1>4, <1>5 DEF l

\* Both orders of a trade shrink by the quantity traded.
LEMMA TradeEngine ==
  ASSUME EngineTyped, NEW m \in book, Engine!Trade(m), UNCHANGED index
  PROVE  \E q \in 1 .. Lot :
           /\ m \in EngineOrders /\ taker \in EngineOrders /\ taker # NoTaker
           /\ m.side = Opposite(taker.side) /\ Engine!Tradable(m)
           /\ q <= m.qty /\ q <= taker.qty
           /\ \E x, y \in {"FULL", "PARTIAL"} :
                reports' = {Engine!Report(taker, m.price, q, m, x), Engine!Report(m, m.price, q, taker, y)}
           /\ book' \subseteq book \union {[m EXCEPT !.qty = m.qty - q]}
           /\ taker' = [taker EXCEPT !.qty = taker.qty - q]
           /\ \A a, sd : InEngineWorth(a, sd)' =
                           InEngineWorth(a, sd) - Part(m, q, a, sd) - Part(taker, q, a, sd)
<1> DEFINE q == IF m.qty < taker.qty THEN m.qty ELSE taker.qty
           left == [m EXCEPT !.qty = m.qty - q]
           Z == book \ {m}
<1>1. /\ taker # NoTaker /\ taker.qty > 0
      /\ m \in EngineOrders /\ m.qty \in 1 .. Lot
      /\ taker \in EngineOrders /\ taker.qty \in 0 .. Lot
      /\ m.side = Opposite(taker.side) /\ Engine!Tradable(m)
      /\ book \in SUBSET EngineOrders /\ IsFiniteSet(book)
      /\ \A o \in book : o.id = m.id => o = m
  <2>1. taker # NoTaker /\ taker.qty > 0 /\ m.side = Opposite(taker.side) /\ Engine!Tradable(m)
    <3>1. taker # NoTaker /\ taker.qty > 0 /\ Engine!First(m) /\ Engine!Tradable(m)
      BY DEF Engine!Trade
    <3>2. m \in Engine!Offers
      BY <3>1 DEF Engine!First
    <3> QED  BY <3>1, <3>2 DEF Engine!Offers, Engine!Opposite, Opposite
  <2> QED  BY <2>1 DEF EngineTyped
<1>2. /\ taker' = [taker EXCEPT !.qty = taker.qty - q]
      /\ book' = Z \union (IF m.qty = q THEN {} ELSE {left})
      /\ reports' = {Engine!Report(taker, m.price, q, m, Engine!Done(taker, q)),
                     Engine!Report(m, m.price, q, taker, Engine!Done(m, q))}
  BY DEF Engine!Trade, Engine!Left
<1>3. q \in 1 .. Lot /\ q <= m.qty /\ q <= taker.qty /\ q \in Nat /\ m.qty \in Int
  BY <1>1 DEF EngineOrders
<1>4. EngineTyped'
  BY TradeFacts
<1> HIDE DEF q
<1>5. left \in EngineOrders /\ left.id = m.id
  BY <1>1, <1>3 DEF EngineOrders
<1>6. Engine!Done(taker, q) \in {"FULL", "PARTIAL"} /\ Engine!Done(m, q) \in {"FULL", "PARTIAL"}
  BY DEF Engine!Done
<1>7. ASSUME NEW a, NEW sd
      PROVE  InEngineWorth(a, sd)' = InEngineWorth(a, sd) - Part(m, q, a, sd) - Part(taker, q, a, sd)
  <2>1. Z \in SUBSET EngineOrders /\ IsFiniteSet(Z) /\ m \in EngineOrders \ Z /\ Z \union {m} = book
    BY <1>1, FS_RemoveElement
  <2>2. left \in EngineOrders \ Z
    BY <1>1, <1>5
  <2> HIDE DEF Z, left
  <2>3. /\ OrdersSum(book, a, sd) = OrdersSum(Z, a, sd) + Weight(m, a, sd)
        /\ OrdersSum(Z \union {left}, a, sd) = OrdersSum(Z, a, sd) + Weight(left, a, sd)
        /\ OrdersSum(Z, a, sd) \in Int
    <3>1. OrdersSum(Z \union {m}, a, sd) = OrdersSum(Z, a, sd) + Weight(m, a, sd)
      BY <2>1, OrdersSumAdd
    <3>2. OrdersSum(Z \union {left}, a, sd) = OrdersSum(Z, a, sd) + Weight(left, a, sd)
      BY <2>1, <2>2, OrdersSumAdd
    <3>3. OrdersSum(Z, a, sd) \in Int
      BY <2>1, OrdersSumTyped
    <3> QED  BY <2>1, <3>1, <3>2, <3>3
  <2>4. /\ Weight(left, a, sd) = Weight(m, a, sd) - Part(m, q, a, sd)
        /\ Weight(m, a, sd) \in Int /\ Part(m, q, a, sd) \in Int
        /\ Weight(m, a, sd) = Part(m, m.qty, a, sd)
    BY <1>1, <1>3, PartFacts DEF left
  <2>5. /\ Weight(taker', a, sd) = Weight(taker, a, sd) - Part(taker, q, a, sd)
        /\ Weight(taker, a, sd) \in Int /\ Part(taker, q, a, sd) \in Int
    BY <1>1, <1>2, <1>3, PartFacts
  <2>6. OrdersSum(book', a, sd) = OrdersSum(book, a, sd) - Part(m, q, a, sd)
    <3>1. CASE m.qty = q
      <4>1. book' = Z
        BY <1>2, <3>1
      <4>2. Weight(m, a, sd) = Part(m, q, a, sd)
        BY <2>4, <3>1
      <4> QED  BY <2>3, <2>4, <4>1, <4>2
    <3>2. CASE m.qty # q
      <4>1. book' = Z \union {left}
        BY <1>2, <3>2
      <4> QED  BY <2>3, <2>4, <4>1
    <3> QED  BY <3>1, <3>2
  <2>7. taker' # NoTaker
    <3>1. taker' \in EngineOrders
      BY <1>1, <1>2, <1>3 DEF EngineOrders
    <3> QED  BY <3>1, NotAnOrder
  <2>8. InEngineWorth(a, sd)' = OrdersSum(book', a, sd) + Weight(taker', a, sd)
    <3>1. InEngineWorth(a, sd)' = OrdersSum(book', a, sd) + TakerWeight(a, sd)'
      BY <1>4, InEngineNext
    <3> QED  BY <2>7, <3>1 DEF TakerWeight
  <2>9. InEngineWorth(a, sd) = OrdersSum(book, a, sd) + Weight(taker, a, sd) /\ OrdersSum(book, a, sd) \in Int
    BY <1>1, InEngineFacts DEF TakerWeight
  <2> QED  BY <2>4, <2>5, <2>6, <2>8, <2>9
<1>8. book' \subseteq book \union {left}
  BY <1>2
<1> QED  BY <1>1, <1>2, <1>3, <1>6, <1>7, <1>8

-----------------------------------------------------------------------------
(* The money of an agent                                                   *)

\* What an agent owns in the end, and what its open buy orders may cost.
Cash(a) == account[a].available + account[a].reserved + Pending("available", a) + Pending("reserved", a)
Stock(a) == account[a].units + Pending("units", a) + InEngineWorth(a, "Sell") +
            WaitingWorth(orders, a, "Sell") + WaitingWorth(dropped, a, "Sell")
Open(a) == InEngineWorth(a, "Buy") + WaitingWorth(orders, a, "Buy")

\* What the account and its mail come to, but for the cash that is paid.
SameMail(a) == \A c \in Components : Pending(c, a)' = Pending(c, a)
SameMoney(a) == Cash(a)' = Cash(a) /\ Stock(a)' = Stock(a) /\ Open(a)' = Open(a)

LEMMA MoneyTyped ==
  ASSUME Typed, NEW a \in Agents
  PROVE  /\ account[a].available \in Int /\ account[a].reserved \in Int /\ account[a].units \in Int
         /\ Pending("available", a) \in Int /\ Pending("reserved", a) \in Int
         /\ Pending("units", a) \in Int /\ Pending("cover", a) \in Int
         /\ \A sd : /\ InEngineWorth(a, sd) \in Int
                    /\ WaitingWorth(orders, a, sd) \in Int /\ WaitingWorth(dropped, a, sd) \in Int
         /\ Cash(a) \in Int /\ Stock(a) \in Int /\ Open(a) \in Int
<1>1. account[a].available \in Int /\ account[a].reserved \in Int /\ account[a].units \in Int
  BY DEF Typed, AccountsTyped, Balances
<1>2. \A c \in Components : Pending(c, a) \in Int
  BY PendingTyped DEF Typed
<1>3. \A sd : InEngineWorth(a, sd) \in Int
  <2> SUFFICES ASSUME NEW sd PROVE InEngineWorth(a, sd) \in Int
    OBVIOUS
  <2>1. /\ InEngineWorth(a, sd) = OrdersSum(book, a, sd) + TakerWeight(a, sd)
        /\ OrdersSum(book, a, sd) \in Int /\ TakerWeight(a, sd) \in Int
    BY InEngineFacts DEF Typed
  <2> QED  BY <2>1
<1>4. \A sd : WaitingWorth(orders, a, sd) \in Int /\ WaitingWorth(dropped, a, sd) \in Int
  BY WaitingTyped DEF Typed, OrdersTyped
<1>5. /\ Pending("available", a) \in Int /\ Pending("reserved", a) \in Int
      /\ Pending("units", a) \in Int /\ Pending("cover", a) \in Int
  BY <1>2 DEF Components
<1> QED  BY <1>1, <1>3, <1>4, <1>5 DEF Cash, Stock, Open

\* Agents that think, orders that rest and orders that are done.
LEMMA MoneyUnchanged ==
  ASSUME UNCHANGED <<account, inbox, lost, orders, dropped>>,
         \A a, sd : InEngineWorth(a, sd)' = InEngineWorth(a, sd)
  PROVE  \A a : SameMail(a) /\ SameMoney(a)
<1> SUFFICES ASSUME NEW a PROVE SameMail(a) /\ SameMoney(a)
  OBVIOUS
<1>1. \A c : Pending(c, a)' = Pending(c, a)
  BY DEF Pending
<1> QED  BY <1>1 DEF SameMail, SameMoney, Cash, Stock, Open

LEMMA SameEngine ==
  ASSUME book' = book, taker' = taker
  PROVE  \A a, sd : InEngineWorth(a, sd)' = InEngineWorth(a, sd)
BY DEF InEngineWorth, InEngine

LEMMA RestMoney ==
  ASSUME Typed, Rest \/ Finish
  PROVE  \A a : SameMail(a) /\ SameMoney(a)
<1>1. UNCHANGED <<account, inbox, lost, orders, dropped, index>>
  BY DEF Rest, Finish, NoReport, agentVars
<1>2. EngineTyped
  BY DEF Typed
<1>3. ASSUME NEW a, NEW sd PROVE InEngineWorth(a, sd)' = InEngineWorth(a, sd)
  <2>1. CASE Rest
    <3>1. book' = book \union {taker} /\ taker' = NoTaker /\ taker # NoTaker
      BY <2>1 DEF Rest, Engine!Rest
    <3>2. book \union ({taker} \ {NoTaker}) = book' \union ({taker'} \ {NoTaker})
      BY <3>1
    <3> QED  BY <3>2 DEF InEngineWorth, InEngine
  <2>2. CASE Finish
    <3>1. Engine!Finish /\ book' = book /\ taker' = NoTaker /\ taker # NoTaker /\ taker.qty = 0
      BY <2>2 DEF Finish, Engine!Finish
    <3>2. EngineTyped'
      BY <1>1, <1>2, <3>1, LeaveFacts
    <3>3. /\ InEngineWorth(a, sd)' = OrdersSum(book', a, sd) + TakerWeight(a, sd)'
          /\ InEngineWorth(a, sd) = OrdersSum(book, a, sd) + TakerWeight(a, sd)
      BY <1>2, <3>2, InEngineFacts, InEngineNext
    <3>4. TakerWeight(a, sd)' = 0
      BY <3>1 DEF TakerWeight
    <3>5. TakerWeight(a, sd) = 0
      <4>1. taker \in EngineOrders
        BY <1>2, <3>1 DEF EngineTyped
      <4>2. taker.price \in Int
        BY <4>1, AskedPricesTyped DEF EngineOrders
      <4>3. Cents(taker.price) \in Int
        BY <4>2 DEF Cents
      <4>4. Worth(sd, taker) = 0
        BY <3>1, <4>3 DEF Worth
      <4> QED  BY <3>1, <4>4 DEF TakerWeight, Weight
    <3> QED  BY <3>1, <3>3, <3>4, <3>5
  <2> QED  BY <2>1, <2>2
<1> QED  BY <1>1, <1>3, MoneyUnchanged

\* An order, or a cancel, moves on from the ring buffer to the engine.
LEMMA PopOrderMoney ==
  ASSUME Typed, PopOrder
  PROVE  \A a \in Agents : SameMail(a) /\ SameMoney(a)
<1> SUFFICES ASSUME NEW a \in Agents PROVE SameMail(a) /\ SameMoney(a)
  OBVIOUS
<1> DEFINE o == Head(orders)
<1>1. EngineTyped /\ OrdersTyped
  BY DEF Typed
<1>2. /\ UNCHANGED <<account, inbox, lost, dropped>> /\ orders' = Tail(orders)
      /\ book' = book /\ taker = NoTaker
  BY DEF PopOrder, NoReport, agentVars, Engine!Arrive, Engine!Skip
<1>3. o \in Forms /\ orders # <<>> /\ orders \in Seq(Forms) /\ Tail(orders) \in Seq(Forms)
  BY <1>1, TailNodes DEF OrdersTyped, PopOrder
<1>4. \A c : Pending(c, a)' = Pending(c, a)
  BY <1>2 DEF Pending
<1>5. EngineTyped'
  BY <1>1, PopFacts
<1>6. ASSUME NEW sd PROVE TakerWeight(a, sd)' = Weight(o, a, sd)
  <2>1. CASE o.type = "CANCEL"
    <3>1. taker' = NoTaker
      BY <1>2, <2>1 DEF PopOrder, Engine!Skip
    <3> QED  BY <2>1, <3>1 DEF TakerWeight, Weight
  <2>2. CASE o.type # "CANCEL"
    <3>1. taker' = Engine!Order(lastId + 1, o.type, o.client, o.side, o.price, o.qty)
      BY <2>2 DEF PopOrder, Engine!Arrive
    <3> HIDE DEF o
    <3>2. /\ taker'.type = o.type /\ taker'.client = o.client /\ taker'.side = o.side
          /\ taker'.price = o.price /\ taker'.qty = o.qty
      BY <3>1 DEF Engine!Order
    <3>3. taker' # NoTaker
      <4>1. o \in OrderForms(PoolNodes)
        BY <1>3, <2>2, FormFacts
      <4>2. o.price \in AskedPrices /\ o.qty \in Nat /\ o.type \in {"LIMIT", "MARKET"}
            /\ o.client \in Agents /\ o.side \in Sides
        BY <4>1 DEF OrderForms
      <4>3. lastId + 1 \in Nat
        BY <1>1 DEF EngineTyped
      <4>4. taker' \in EngineOrders
        BY <3>1, <4>2, <4>3 DEF EngineOrders, Engine!Order
      <4> QED  BY <4>4, NotAnOrder
    <3> QED  BY <3>2, <3>3 DEF TakerWeight, Weight, Worth
  <2> QED  BY <2>1, <2>2
<1>7. ASSUME NEW sd
      PROVE  /\ InEngineWorth(a, sd)' = InEngineWorth(a, sd) + Weight(o, a, sd)
             /\ WaitingWorth(orders', a, sd) = WaitingWorth(orders, a, sd) - Weight(o, a, sd)
             /\ Weight(o, a, sd) \in Int
  <2>1. /\ InEngineWorth(a, sd)' = OrdersSum(book', a, sd) + TakerWeight(a, sd)'
        /\ InEngineWorth(a, sd) = OrdersSum(book, a, sd) + TakerWeight(a, sd)
        /\ OrdersSum(book, a, sd) \in Int
    BY <1>1, <1>5, InEngineFacts, InEngineNext
  <2>2. TakerWeight(a, sd) = 0
    BY <1>2 DEF TakerWeight
  <2>3. WaitingWorth(orders, a, sd) = Weight(o, a, sd) + WaitingWorth(orders', a, sd)
    BY <1>2, <1>3, WaitingTail
  <2>4. Weight(o, a, sd) \in Int /\ WaitingWorth(orders', a, sd) \in Int
    BY <1>2, <1>3, WeightTyped, WaitingTyped
  <2> HIDE DEF o
  <2> QED  BY <1>2, <1>6, <2>1, <2>2, <2>3, <2>4
<1>8. \A sd : InEngineWorth(a, sd) \in Int /\ WaitingWorth(orders, a, sd) \in Int /\ WaitingWorth(dropped, a, sd) \in Int
  BY MoneyTyped
<1> HIDE DEF o
<1>9. Cash(a)' = Cash(a)
  BY <1>2, <1>4 DEF Cash
<1>10. Open(a)' = Open(a)
  <2>1. Open(a)' = InEngineWorth(a, "Buy")' + WaitingWorth(orders', a, "Buy")
    BY DEF Open
  <2> QED  BY <1>7, <1>8, <2>1 DEF Open
<1>11. Stock(a)' = Stock(a)
  <2>1. Stock(a)' = account[a].units + Pending("units", a) + InEngineWorth(a, "Sell")' +
            WaitingWorth(orders', a, "Sell") + WaitingWorth(dropped, a, "Sell")
    BY <1>2, <1>4 DEF Stock
  <2>2. account[a].units \in Int /\ Pending("units", a) \in Int
    BY MoneyTyped
  <2> QED  BY <1>7, <1>8, <2>1, <2>2 DEF Stock
<1> QED  BY <1>4, <1>9, <1>10, <1>11 DEF SameMail, SameMoney

\* Cash is reserved and units are offered, even for an order that is dropped.
LEMMA PushMoney ==
  ASSUME Typed, PushOrder, NEW a \in Agents
  PROVE  LET o == Head(outgoing)
         IN /\ SameMail(a) /\ Cash(a)' = Cash(a) /\ Stock(a)' = Stock(a)
            /\ Weight(o, a, "Buy") \in Int /\ Weight(o, a, "Sell") \in Int
            /\ account'[a].available = account[a].available - Weight(o, a, "Buy")
            /\ account'[a].reserved = account[a].reserved + Weight(o, a, "Buy")
            /\ account'[a].units = account[a].units - Weight(o, a, "Sell")
            /\ Open(a)' \in {Open(a), Open(a) + Weight(o, a, "Buy")}
<1> DEFINE o == Head(outgoing)
           w(sd) == Weight(o, a, sd)
<1>1. /\ o \in Forms /\ outgoing \in Seq(Forms) /\ orders \in Seq(Forms) /\ dropped \in Seq(Forms)
      /\ account \in [Agents -> Balances]
  BY TailNodes DEF PushOrder, Typed, OrdersTyped, AccountsTyped
<1>2. UNCHANGED <<inbox, lost, book, taker>>
  BY DEF PushOrder, Engine!Delivered
<1>3. w("Buy") \in Int /\ w("Sell") \in Int
  BY <1>1, WeightTyped
<1>4. /\ account'[a].available = account[a].available - w("Buy")
      /\ account'[a].reserved = account[a].reserved + w("Buy")
      /\ account'[a].units = account[a].units - w("Sell")
  <2>1. account[a].available \in Int /\ account[a].reserved \in Int /\ account[a].units \in Int
    BY <1>1 DEF Balances
  <2>2. CASE o.type = "CANCEL" \/ o.client # a
    <3>1. account'[a] = account[a]
      <4>1. CASE o.type = "CANCEL"
        BY <4>1 DEF PushOrder
      <4>2. CASE o.type # "CANCEL" /\ o.client # a
        <5>1. account' = [account EXCEPT ![o.client] = ReservedFor(@, o)]
          BY <4>2 DEF PushOrder
        <5> HIDE DEF o
        <5> QED  BY <1>1, <4>2, <5>1
      <4> QED  BY <2>2, <4>1, <4>2
    <3>2. w("Buy") = 0 /\ w("Sell") = 0
      BY <2>2 DEF Weight
    <3> HIDE DEF w
    <3> QED  BY <2>1, <3>1, <3>2
  <2>3. CASE o.type # "CANCEL" /\ o.client = a
    <3>1. account' = [account EXCEPT ![o.client] = ReservedFor(@, o)]
      BY <2>3 DEF PushOrder
    <3>2. o \in OrderForms(PoolNodes)
      BY <1>1, <2>3, FormFacts
    <3>3. w("Buy") = (IF o.side = "Buy" THEN Cents(o.price) * o.qty ELSE 0)
          /\ w("Sell") = (IF o.side = "Sell" THEN o.qty ELSE 0)
      BY <2>3 DEF Weight, Worth
    <3> HIDE DEF o
    <3>4. account'[a] = ReservedFor(account[a], o)
      BY <1>1, <2>3, <3>1
    <3>5. o.side \in Sides
      BY <3>2 DEF OrderForms
    <3>6. account[a] \in Balances
      BY <1>1
    <3> DEFINE cost == Cents(o.price) * o.qty
    <3>7. /\ cost \in Int /\ o.qty \in Int
          /\ o.side = "Sell" =>
               Becomes(ReservedFor(account[a], o), account[a].available, account[a].reserved, account[a].units - o.qty)
          /\ o.side # "Sell" =>
               Becomes(ReservedFor(account[a], o), account[a].available - cost, account[a].reserved + cost,
                       account[a].units)
      BY <3>2, <3>6, ReservedForFields
    <3>8. w("Buy") = (IF o.side = "Buy" THEN cost ELSE 0)
      BY <3>3
    <3> HIDE DEF w, cost
    <3> QED  BY <2>1, <3>3, <3>4, <3>5, <3>7, <3>8 DEF Becomes, Sides
  <2> HIDE DEF o, w
  <2> QED  BY <2>2, <2>3
<1>5. \A c : Pending(c, a)' = Pending(c, a)
  BY <1>2 DEF Pending
<1>6. \A sd : InEngineWorth(a, sd)' = InEngineWorth(a, sd)
  BY <1>2, SameEngine
<1>7. \/ /\ \A sd : WaitingWorth(orders', a, sd) = WaitingWorth(orders, a, sd) + w(sd)
         /\ dropped' = dropped
      \/ /\ \A sd : WaitingWorth(dropped', a, sd) = WaitingWorth(dropped, a, sd) + w(sd)
         /\ orders' = orders
  <2>1. \/ orders' = Append(orders, o) /\ dropped' = dropped
        \/ dropped' = Append(dropped, o) /\ orders' = orders
    BY DEF PushOrder, Enqueue
  <2> HIDE DEF o
  <2>2. \A sd : WaitingWorth(Append(orders, o), a, sd) = WaitingWorth(orders, a, sd) + Weight(o, a, sd)
    BY <1>1, WaitingAppend
  <2>3. \A sd : WaitingWorth(Append(dropped, o), a, sd) = WaitingWorth(dropped, a, sd) + Weight(o, a, sd)
    BY <1>1, WaitingAppend
  <2> QED  BY <2>1, <2>2, <2>3
<1>8. /\ account[a].available \in Int /\ account[a].reserved \in Int /\ account[a].units \in Int
      /\ Pending("available", a) \in Int /\ Pending("reserved", a) \in Int /\ Pending("units", a) \in Int
      /\ InEngineWorth(a, "Buy") \in Int /\ WaitingWorth(orders, a, "Buy") \in Int
      /\ InEngineWorth(a, "Sell") \in Int /\ WaitingWorth(orders, a, "Sell") \in Int
      /\ WaitingWorth(dropped, a, "Sell") \in Int
  BY MoneyTyped
<1> HIDE DEF o, w
<1>9. Cash(a)' = Cash(a)
  <2>1. Cash(a)' = account'[a].available + account'[a].reserved + Pending("available", a) + Pending("reserved", a)
    BY <1>5 DEF Cash
  <2> QED  BY <1>3, <1>4, <1>8, <2>1 DEF Cash
<1>10. Stock(a)' = Stock(a)
  <2>1. Stock(a)' = account'[a].units + Pending("units", a) + InEngineWorth(a, "Sell") +
            WaitingWorth(orders', a, "Sell") + WaitingWorth(dropped', a, "Sell")
    BY <1>5, <1>6 DEF Stock
  <2> QED  BY <1>3, <1>4, <1>7, <1>8, <2>1 DEF Stock
<1>11. Open(a)' \in {Open(a), Open(a) + w("Buy")}
  <2>1. Open(a)' = InEngineWorth(a, "Buy") + WaitingWorth(orders', a, "Buy")
    BY <1>6 DEF Open
  <2> QED  BY <1>3, <1>7, <1>8, <2>1 DEF Open
<1> QED  BY <1>3, <1>4, <1>5, <1>9, <1>10, <1>11 DEF SameMail, o, w

\* A report is booked.
LEMMA PopTradeMoney ==
  ASSUME Typed, NEW b \in Agents, PopTrade(b), NEW a \in Agents
  PROVE  LET r == Head(inbox[b])
         IN /\ a # b => SameMail(a) /\ account'[a] = account[a]
            /\ a = b => /\ r \in AllReports
                        /\ \A c \in Components : Pending(c, a)' = Pending(c, a) - Change(c, r)
                        /\ account'[a].available = account[a].available + Change("available", r)
                        /\ account'[a].reserved = account[a].reserved + Change("reserved", r)
                        /\ account'[a].units = account[a].units + Change("units", r)
            /\ SameMoney(a)
<1> DEFINE r == Head(inbox[b])
<1>1. /\ inbox \in [Agents -> Seq(AllReports)] /\ lost \in [Agents -> Seq(AllReports)]
      /\ account \in [Agents -> Balances]
  BY DEF Typed, MailTyped, AccountsTyped
<1>2. /\ inbox[b] # <<>>
      /\ account' = [account EXCEPT ![b] = Booked(@, r)]
      /\ inbox' = [inbox EXCEPT ![b] = Tail(@)]
      /\ UNCHANGED <<lost, orders, dropped, book, taker>>
  BY DEF PopTrade, Engine!Delivered
<1>3. r \in AllReports /\ Tail(inbox[b]) \in Seq(AllReports)
  BY <1>1, <1>2, HeadTailProperties
<1>4. \A sd : /\ InEngineWorth(a, sd)' = InEngineWorth(a, sd)
              /\ WaitingWorth(orders', a, sd) = WaitingWorth(orders, a, sd)
              /\ WaitingWorth(dropped', a, sd) = WaitingWorth(dropped, a, sd)
  BY <1>2, SameEngine
<1> HIDE DEF r
<1>5. /\ account[a].available \in Int /\ account[a].reserved \in Int /\ account[a].units \in Int
      /\ Pending("available", a) \in Int /\ Pending("reserved", a) \in Int /\ Pending("units", a) \in Int
      /\ InEngineWorth(a, "Sell") \in Int /\ WaitingWorth(orders, a, "Sell") \in Int
      /\ WaitingWorth(dropped, a, "Sell") \in Int
  BY MoneyTyped
<1>6. /\ Open(a)' = Open(a)
      /\ Cash(a)' = account'[a].available + account'[a].reserved + Pending("available", a)' + Pending("reserved", a)'
      /\ Stock(a)' = account'[a].units + Pending("units", a)' + InEngineWorth(a, "Sell") +
            WaitingWorth(orders, a, "Sell") + WaitingWorth(dropped, a, "Sell")
  BY <1>4 DEF Open, Cash, Stock
<1>7. CASE a # b
  <2>1. account'[a] = account[a] /\ inbox'[a] = inbox[a] /\ lost'[a] = lost[a]
    BY <1>1, <1>2, <1>7
  <2>2. \A c : Pending(c, a)' = Pending(c, a)
    BY <2>1 DEF Pending
  <2> QED  BY <1>6, <1>7, <2>1, <2>2 DEF SameMail, SameMoney, Cash, Stock, r
<1>8. CASE a = b
  <2>1. account'[a] = Booked(account[a], r) /\ inbox'[a] = Tail(inbox[a]) /\ lost'[a] = lost[a]
    BY <1>1, <1>2, <1>8
  <2>2. account[a] \in Balances
    BY <1>1
  <2>3. /\ account'[a].available = account[a].available + Change("available", r)
        /\ account'[a].reserved = account[a].reserved + Change("reserved", r)
        /\ account'[a].units = account[a].units + Change("units", r)
    BY <1>3, <2>1, <2>2, BookedChange DEF Becomes
  <2>4. ASSUME NEW c \in Components PROVE Pending(c, a)' = Pending(c, a) - Change(c, r) /\ Change(c, r) \in Int
    <3>1. inbox[a] \in Seq(AllReports) /\ inbox[a] # <<>> /\ lost[a] \in Seq(AllReports) /\ r = Head(inbox[a])
      BY <1>1, <1>2, <1>8 DEF r
    <3>2. MailSum(c, inbox[a]) = Change(c, r) + MailSum(c, Tail(inbox[a]))
      BY <3>1, MailSumTail
    <3>3. Pending(c, a)' = MailSum(c, Tail(inbox[a])) + MailSum(c, lost[a])
      BY <2>1 DEF Pending
    <3>4. MailSum(c, Tail(inbox[a])) \in Int /\ MailSum(c, lost[a]) \in Int /\ Change(c, r) \in Int
      BY <1>3, <1>8, <3>1, MailSummable, ChangeFacts
    <3> QED  BY <3>2, <3>3, <3>4 DEF Pending
  <2>5. /\ Pending("available", a)' = Pending("available", a) - Change("available", r)
        /\ Pending("reserved", a)' = Pending("reserved", a) - Change("reserved", r)
        /\ Pending("units", a)' = Pending("units", a) - Change("units", r)
        /\ Change("available", r) \in Int /\ Change("reserved", r) \in Int /\ Change("units", r) \in Int
    BY <2>4 DEF Components
  <2>6. Cash(a)' = Cash(a)
    BY <1>5, <1>6, <2>3, <2>5 DEF Cash
  <2>7. Stock(a)' = Stock(a)
    BY <1>5, <1>6, <2>3, <2>5 DEF Stock
  <2> QED  BY <1>3, <1>6, <1>8, <2>3, <2>4, <2>6, <2>7 DEF SameMoney, r
<1> QED  BY <1>7, <1>8 DEF r

\* What a trade of q units at price p between the buy order b and the sell order s
\* adds to what is in the mail.
Moved(b, s, p, q, a) ==
  /\ Pending("available", a)' = Pending("available", a) +
       (IF s.client = a THEN Cents(p) * q ELSE 0) +
       (IF b.client = a THEN Cents(s.price) * q - Cents(p) * q ELSE 0)
  /\ Pending("reserved", a)' = Pending("reserved", a) + (IF b.client = a THEN -(Cents(s.price) * q) ELSE 0)
  /\ Pending("units", a)' = Pending("units", a) + (IF b.client = a THEN q ELSE 0)
  /\ Pending("cover", a)' = Pending("cover", a) + (IF b.client = a THEN -(Cents(p) * q) ELSE 0)

LEMMA MovedByReports ==
  ASSUME MailTyped, Dispatch, reports' \subseteq AllReports,
         \A x, y \in reports' : x.side = y.side => x = y,
         NEW b \in EngineOrders, NEW s \in EngineOrders, NEW p \in AskedPrices, NEW q \in Nat,
         b.side = "Buy", s.side = "Sell",
         NEW x \in {"FULL", "PARTIAL"}, NEW y \in {"FULL", "PARTIAL"},
         Engine!Report(b, p, q, s, x) \in reports', Engine!Report(s, p, q, b, y) \in reports',
         NEW a \in Agents
  PROVE  Moved(b, s, p, q, a)
<1> DEFINE rb == Engine!Report(b, p, q, s, x)
           rs == Engine!Report(s, p, q, b, y)
<1>1. /\ rb \in AllReports /\ rb.side = "Buy" /\ rb.clientRef = b.client /\ rb.type # "CANCEL"
      /\ rb.price = p /\ rb.quantity = q /\ rb.other.price = s.price /\ rb \in reports'
  BY DEF Engine!Report
<1>2. /\ rs \in AllReports /\ rs.side = "Sell" /\ rs.clientRef = s.client /\ rs.type # "CANCEL"
      /\ rs.price = p /\ rs.quantity = q /\ rs \in reports'
  BY DEF Engine!Report
<1> HIDE DEF rb, rs
<1> DEFINE paid == Cents(p) * q
           held == Cents(s.price) * q
<1>3. /\ Change("available", rb) = held - paid /\ Change("reserved", rb) = -held
      /\ Change("units", rb) = q /\ Change("cover", rb) = -paid
      /\ paid \in Int /\ held \in Int
  BY <1>1, ChangeFacts
<1>4. /\ Change("available", rs) = paid /\ Change("reserved", rs) = 0
      /\ Change("units", rs) = 0 /\ Change("cover", rs) = 0
  BY <1>2, ChangeFacts
<1>5. ASSUME NEW c \in Components
      PROVE  /\ Pending(c, a)' = Pending(c, a) + Told(c, a, rs) + Told(c, a, rb)
             /\ Pending(c, a) \in Int
  <2>1. Pending(c, a)' = Pending(c, a) + MailSum(c, Half(a, "Sell")) + MailSum(c, Half(a, "Buy"))
    BY DispatchPending
  <2>2. MailSum(c, Half(a, "Sell")) = Told(c, a, rs)
    BY <1>2, HalfSum
  <2>3. MailSum(c, Half(a, "Buy")) = Told(c, a, rb)
    BY <1>1, HalfSum
  <2> QED  BY <2>1, <2>2, <2>3, PendingTyped
<1> HIDE DEF paid, held
<1>6. /\ Pending("available", a)' = Pending("available", a) + Told("available", a, rs) + Told("available", a, rb)
      /\ Pending("reserved", a)' = Pending("reserved", a) + Told("reserved", a, rs) + Told("reserved", a, rb)
      /\ Pending("units", a)' = Pending("units", a) + Told("units", a, rs) + Told("units", a, rb)
      /\ Pending("cover", a)' = Pending("cover", a) + Told("cover", a, rs) + Told("cover", a, rb)
      /\ Pending("available", a) \in Int /\ Pending("reserved", a) \in Int
      /\ Pending("units", a) \in Int /\ Pending("cover", a) \in Int
  BY <1>5 DEF Components
<1>7. /\ Told("available", a, rs) = (IF s.client = a THEN paid ELSE 0)
      /\ Told("reserved", a, rs) = 0 /\ Told("units", a, rs) = 0 /\ Told("cover", a, rs) = 0
      /\ Told("available", a, rb) = (IF b.client = a THEN held - paid ELSE 0)
      /\ Told("reserved", a, rb) = (IF b.client = a THEN -held ELSE 0)
      /\ Told("units", a, rb) = (IF b.client = a THEN q ELSE 0)
      /\ Told("cover", a, rb) = (IF b.client = a THEN -paid ELSE 0)
  BY <1>1, <1>2, <1>3, <1>4 DEF Told
<1>8. /\ Pending("available", a)' = Pending("available", a) + (IF s.client = a THEN paid ELSE 0) +
                                      (IF b.client = a THEN held - paid ELSE 0)
      /\ Pending("reserved", a)' = Pending("reserved", a) + (IF b.client = a THEN -held ELSE 0)
      /\ Pending("units", a)' = Pending("units", a) + (IF b.client = a THEN q ELSE 0)
      /\ Pending("cover", a)' = Pending("cover", a) + (IF b.client = a THEN -paid ELSE 0)
  BY <1>3, <1>6, <1>7
<1> QED  BY <1>8 DEF Moved, paid, held

\* Prices that trade: not for more than the buyer bids, not for less than the seller asks.
Agreed(b, s, p) == s.price <= p /\ p <= b.price

\* Market orders ask for the edge of the grid, as their agents do.
OnGrid(o) == o.price \in Levels /\ (o.type = "MARKET" => o.price = MarketPrice(o.side))

LEMMA TradePrices ==
  ASSUME NEW m \in EngineOrders, taker \in EngineOrders, m.side = Opposite(taker.side),
         Engine!Tradable(m), OnGrid(m), OnGrid(taker)
  PROVE  /\ taker.side = "Buy" => m.price <= taker.price
         /\ taker.side # "Buy" => taker.price <= m.price
<1>1. m.price \in 0 .. MaxLevel /\ taker.price \in 0 .. MaxLevel
  BY DEF OnGrid, Levels
<1>2. Engine!PriceToIndex(m.price) = m.price
  BY <1>1 DEF Engine!PriceToIndex
<1>3. CASE taker.type = "MARKET"
  <2>1. taker.price = MarketPrice(taker.side)
    BY <1>3 DEF OnGrid
  <2> QED  BY <1>1, <2>1 DEF MarketPrice
<1>4. CASE taker.type # "MARKET"
  <2>1. ~Engine!OutOfReach(taker.side, m.price, taker.price)
    BY <1>2, <1>4 DEF Engine!Tradable
  <2> QED  BY <1>1, <2>1 DEF Engine!OutOfReach, Engine!IndexPriceAbove, Engine!IndexPriceBelow
<1> QED  BY <1>3, <1>4

\* Two orders trade.
LEMMA TradeMoney ==
  ASSUME Typed, NEW m \in book, Trade(m)
  PROVE  \E b \in EngineOrders, s \in EngineOrders, q \in 1 .. Lot :
           /\ {b, s} = {m, taker} /\ b.side = "Buy" /\ s.side = "Sell"
           /\ OnGrid(m) /\ OnGrid(taker) => Agreed(b, s, m.price)
           /\ \A a \in Agents :
                /\ account'[a] = account[a]
                /\ Moved(b, s, m.price, q, a)
                /\ Cash(a)' = Cash(a) + (IF s.client = a THEN Cents(m.price) * q ELSE 0)
                                      - (IF b.client = a THEN Cents(m.price) * q ELSE 0)
                /\ Stock(a)' = Stock(a) - (IF s.client = a THEN q ELSE 0) + (IF b.client = a THEN q ELSE 0)
                /\ Open(a)' = Open(a) - (IF b.client = a THEN Cents(b.price) * q ELSE 0)
<1>1. /\ Engine!Trade(m) /\ Dispatch
      /\ UNCHANGED <<account, orders, dropped, index>>
  BY DEF Trade, agentVars
<1>2. EngineTyped /\ MailTyped
  BY DEF Typed
<1>3. PICK q \in 1 .. Lot :
        /\ m \in EngineOrders /\ taker \in EngineOrders
        /\ m.side = Opposite(taker.side) /\ Engine!Tradable(m)
        /\ \E x, y \in {"FULL", "PARTIAL"} :
             reports' = {Engine!Report(taker, m.price, q, m, x), Engine!Report(m, m.price, q, taker, y)}
        /\ \A a, sd : InEngineWorth(a, sd)' =
                        InEngineWorth(a, sd) - Part(m, q, a, sd) - Part(taker, q, a, sd)
  BY <1>1, <1>2, TradeEngine
<1>4. /\ reports' \subseteq AllReports
      /\ \A x, y \in reports' : x.side = y.side => x = y
  BY <1>1, <1>2, TradeFacts
<1> DEFINE b == IF taker.side = "Buy" THEN taker ELSE m
           s == IF taker.side = "Buy" THEN m ELSE taker
           p == m.price
<1>5. /\ b \in EngineOrders /\ s \in EngineOrders /\ {b, s} = {m, taker}
      /\ b.side = "Buy" /\ s.side = "Sell"
  BY <1>3 DEF EngineOrders, Opposite, Sides
<1>6. \E x, y \in {"FULL", "PARTIAL"} :
        Engine!Report(b, p, q, s, x) \in reports' /\ Engine!Report(s, p, q, b, y) \in reports'
  BY <1>3
<1>7. \A a, sd : InEngineWorth(a, sd)' = InEngineWorth(a, sd) - Part(b, q, a, sd) - Part(s, q, a, sd)
  <2> SUFFICES ASSUME NEW a, NEW sd
               PROVE  InEngineWorth(a, sd)' = InEngineWorth(a, sd) - Part(b, q, a, sd) - Part(s, q, a, sd)
    OBVIOUS
  <2>1. InEngineWorth(a, sd) \in Int
    <3>1. /\ InEngineWorth(a, sd) = OrdersSum(book, a, sd) + TakerWeight(a, sd)
          /\ OrdersSum(book, a, sd) \in Int /\ TakerWeight(a, sd) \in Int
      BY <1>2, InEngineFacts
    <3> QED  BY <3>1
  <2>2. Part(m, q, a, sd) \in Int /\ Part(taker, q, a, sd) \in Int
    <3>1. m.price \in AskedPrices /\ taker.price \in AskedPrices
      BY <1>3 DEF EngineOrders
    <3>2. m.price \in Int /\ taker.price \in Int
      BY <3>1, AskedPricesTyped
    <3>3. Cents(m.price) * q \in Int /\ Cents(taker.price) * q \in Int
      BY <3>2 DEF Cents
    <3> QED  BY <3>3 DEF Part
  <2> QED  BY <1>3, <2>1, <2>2
<1>8. OnGrid(m) /\ OnGrid(taker) => Agreed(b, s, p)
  <2> SUFFICES ASSUME OnGrid(m), OnGrid(taker) PROVE Agreed(b, s, p)
    OBVIOUS
  <2>1. m.price \in Int
    BY DEF OnGrid, Levels
  <2>2. /\ taker.side = "Buy" => m.price <= taker.price
        /\ taker.side # "Buy" => taker.price <= m.price
    BY <1>3, TradePrices
  <2> QED  BY <2>1, <2>2 DEF Agreed
<1>9. p \in AskedPrices /\ b.price \in AskedPrices
  BY <1>3, <1>5 DEF EngineOrders
<1> HIDE DEF b, s
<1>10. ASSUME NEW a \in Agents
       PROVE  /\ account'[a] = account[a]
              /\ Moved(b, s, p, q, a)
              /\ Cash(a)' = Cash(a) + (IF s.client = a THEN Cents(p) * q ELSE 0)
                                    - (IF b.client = a THEN Cents(p) * q ELSE 0)
              /\ Stock(a)' = Stock(a) - (IF s.client = a THEN q ELSE 0) + (IF b.client = a THEN q ELSE 0)
              /\ Open(a)' = Open(a) - (IF b.client = a THEN Cents(b.price) * q ELSE 0)
  <2>1. Moved(b, s, p, q, a)
    <3>1. PICK x \in {"FULL", "PARTIAL"}, y \in {"FULL", "PARTIAL"} :
            Engine!Report(b, p, q, s, x) \in reports' /\ Engine!Report(s, p, q, b, y) \in reports'
      BY <1>6
    <3>2. q \in Nat
      OBVIOUS
    <3> QED  BY <1>1, <1>2, <1>4, <1>5, <1>9, <3>1, <3>2, MovedByReports
  <2> DEFINE paid == Cents(p) * q
             held == Cents(s.price) * q
             worth == Cents(b.price) * q
  <2>2. paid \in Int /\ held \in Int /\ worth \in Int /\ q \in Int
    <3>1. s.price \in AskedPrices
      BY <1>5 DEF EngineOrders
    <3>2. p \in Int /\ s.price \in Int /\ b.price \in Int
      BY <1>9, <3>1, AskedPricesTyped
    <3> QED  BY <3>2 DEF Cents
  <2>3. /\ Pending("available", a)' = Pending("available", a) + (IF s.client = a THEN paid ELSE 0)
                                        + (IF b.client = a THEN held - paid ELSE 0)
        /\ Pending("reserved", a)' = Pending("reserved", a) + (IF b.client = a THEN -held ELSE 0)
        /\ Pending("units", a)' = Pending("units", a) + (IF b.client = a THEN q ELSE 0)
    BY <2>1 DEF Moved
  <2>4. /\ InEngineWorth(a, "Buy")' = InEngineWorth(a, "Buy") - (IF b.client = a THEN worth ELSE 0)
        /\ InEngineWorth(a, "Sell")' = InEngineWorth(a, "Sell") - (IF s.client = a THEN q ELSE 0)
    <3>1. /\ Part(b, q, a, "Buy") = (IF b.client = a THEN worth ELSE 0) /\ Part(s, q, a, "Buy") = 0
          /\ Part(b, q, a, "Sell") = 0 /\ Part(s, q, a, "Sell") = (IF s.client = a THEN q ELSE 0)
      BY <1>5 DEF Part
    <3>2. InEngineWorth(a, "Buy") \in Int /\ InEngineWorth(a, "Sell") \in Int
      BY MoneyTyped
    <3>3. /\ InEngineWorth(a, "Buy")' = InEngineWorth(a, "Buy") - Part(b, q, a, "Buy") - Part(s, q, a, "Buy")
          /\ InEngineWorth(a, "Sell")' = InEngineWorth(a, "Sell") - Part(b, q, a, "Sell") - Part(s, q, a, "Sell")
      BY <1>7
    <3> HIDE DEF worth
    <3> QED  BY <2>2, <3>1, <3>2, <3>3
  <2> HIDE DEF paid, held, worth
  <2>5. /\ account[a].available \in Int /\ account[a].reserved \in Int /\ account[a].units \in Int
        /\ Pending("available", a) \in Int /\ Pending("reserved", a) \in Int /\ Pending("units", a) \in Int
        /\ InEngineWorth(a, "Buy") \in Int /\ WaitingWorth(orders, a, "Buy") \in Int
        /\ InEngineWorth(a, "Sell") \in Int /\ WaitingWorth(orders, a, "Sell") \in Int
        /\ WaitingWorth(dropped, a, "Sell") \in Int
    BY MoneyTyped
  <2>6. account'[a] = account[a] /\ orders' = orders /\ dropped' = dropped
    BY <1>1
  <2>7. Cash(a)' = Cash(a) + (IF s.client = a THEN paid ELSE 0) - (IF b.client = a THEN paid ELSE 0)
    <3>1. Cash(a)' = account[a].available + account[a].reserved + Pending("available", a)' + Pending("reserved", a)'
      BY <2>6 DEF Cash
    <3> QED  BY <2>2, <2>3, <2>5, <3>1 DEF Cash
  <2>8. Stock(a)' = Stock(a) - (IF s.client = a THEN q ELSE 0) + (IF b.client = a THEN q ELSE 0)
    <3>1. Stock(a)' = account[a].units + Pending("units", a)' + InEngineWorth(a, "Sell")' +
            WaitingWorth(orders, a, "Sell") + WaitingWorth(dropped, a, "Sell")
      BY <2>6 DEF Stock
    <3> QED  BY <2>2, <2>3, <2>4, <2>5, <3>1 DEF Stock
  <2>9. Open(a)' = Open(a) - (IF b.client = a THEN worth ELSE 0)
    <3>1. Open(a)' = InEngineWorth(a, "Buy")' + WaitingWorth(orders, a, "Buy")
      BY <2>6 DEF Open
    <3> QED  BY <2>2, <2>4, <2>5, <3>1 DEF Open
  <2> QED  BY <2>1, <2>6, <2>7, <2>8, <2>9 DEF paid, worth
<1> QED  BY <1>5, <1>8, <1>10

\* The rest of a market order is cancelled.
LEMMA ExpireMoney ==
  ASSUME Typed, Expire, NEW a \in Agents
  PROVE  LET w == Weight(taker, a, "Buy")
         IN /\ taker \in EngineOrders /\ w \in Int
            /\ account'[a] = account[a]
            /\ Pending("available", a)' = Pending("available", a) + w
            /\ Pending("reserved", a)' = Pending("reserved", a) - w
            /\ Pending("cover", a)' = Pending("cover", a) - w
            /\ Open(a)' = Open(a) - w
            /\ Cash(a)' = Cash(a) /\ Stock(a)' = Stock(a)
<1> DEFINE w(sd) == Weight(taker, a, sd)
           r == Engine!Report(taker, taker.price, taker.qty, taker, "CANCEL")
           paid == Cents(taker.price) * taker.qty
<1>1. /\ Engine!Expire /\ Dispatch /\ UNCHANGED <<account, orders, dropped, index>>
      /\ taker # NoTaker /\ taker' = NoTaker /\ book' = book
  BY DEF Expire, agentVars, Engine!Expire
<1>2. EngineTyped /\ MailTyped
  BY DEF Typed
<1>3. taker \in EngineOrders /\ EngineTyped'
  BY <1>1, <1>2, LeaveFacts DEF EngineTyped
<1>4. /\ reports' = {r} /\ r \in AllReports /\ reports' \subseteq AllReports
      /\ \A x, y \in reports' : x.side = y.side => x = y
  BY <1>1, <1>2, ExpireFacts
<1>5. /\ r.side = taker.side /\ r.clientRef = taker.client /\ r.type = "CANCEL"
      /\ r.price = taker.price /\ r.quantity = taker.qty
  BY DEF Engine!Report
<1>6. /\ w("Buy") = (IF taker.client = a /\ taker.side = "Buy" THEN paid ELSE 0)
      /\ w("Sell") = (IF taker.client = a /\ taker.side = "Sell" THEN taker.qty ELSE 0)
      /\ taker.side \in Sides
  BY <1>3 DEF Weight, Worth, EngineOrders
<1>7. \A sd : InEngineWorth(a, sd)' = InEngineWorth(a, sd) - w(sd) /\ w(sd) \in Int
  <2> SUFFICES ASSUME NEW sd PROVE InEngineWorth(a, sd)' = InEngineWorth(a, sd) - w(sd) /\ w(sd) \in Int
    OBVIOUS
  <2>1. /\ InEngineWorth(a, sd)' = OrdersSum(book', a, sd) + TakerWeight(a, sd)'
        /\ InEngineWorth(a, sd) = OrdersSum(book, a, sd) + TakerWeight(a, sd)
        /\ OrdersSum(book, a, sd) \in Int
    BY <1>2, <1>3, InEngineFacts, InEngineNext
  <2>2. TakerWeight(a, sd)' = 0 /\ TakerWeight(a, sd) = w(sd)
    BY <1>1 DEF TakerWeight
  <2>3. w(sd) \in Int
    BY <1>3, WeightTyped
  <2> HIDE DEF w
  <2> QED  BY <1>1, <2>1, <2>2, <2>3
<1> HIDE DEF r
<1>8. /\ paid \in Int /\ taker.qty \in Int
      /\ r.side = "Sell" =>
           /\ Change("available", r) = 0 /\ Change("reserved", r) = 0
           /\ Change("units", r) = taker.qty /\ Change("cover", r) = 0
      /\ r.side # "Sell" =>
           /\ Change("available", r) = paid /\ Change("reserved", r) = -paid
           /\ Change("units", r) = 0 /\ Change("cover", r) = -paid
  <2>1. taker.qty \in Int
    BY <1>3 DEF EngineOrders
  <2> QED  BY <1>4, <1>5, <2>1, ChangeFacts
<1>9. ASSUME NEW c \in Components
      PROVE  Pending(c, a)' = Pending(c, a) + Told(c, a, r) /\ Pending(c, a) \in Int
  <2>1. Pending(c, a)' = Pending(c, a) + MailSum(c, Half(a, "Sell")) + MailSum(c, Half(a, "Buy"))
    BY <1>1, <1>2, <1>4, DispatchPending
  <2>2. Pending(c, a) \in Int /\ Told(c, a, r) \in Int
    BY <1>2, <1>4, PendingTyped, ToldTyped
  <2>3. CASE r.side = "Sell"
    <3>1. MailSum(c, Half(a, "Sell")) = Told(c, a, r)
      BY <1>4, <2>3, HalfSum
    <3>2. MailSum(c, Half(a, "Buy")) = 0
      <4>1. \A x \in reports' : x.side # "Buy"
        BY <1>4, <2>3
      <4> QED  BY <1>4, <4>1, HalfSum
    <3> QED  BY <2>1, <2>2, <3>1, <3>2
  <2>4. CASE r.side = "Buy"
    <3>1. MailSum(c, Half(a, "Buy")) = Told(c, a, r)
      BY <1>4, <2>4, HalfSum
    <3>2. MailSum(c, Half(a, "Sell")) = 0
      <4>1. \A x \in reports' : x.side # "Sell"
        BY <1>4, <2>4
      <4> QED  BY <1>4, <4>1, HalfSum
    <3> QED  BY <2>1, <2>2, <3>1, <3>2
  <2> QED  BY <1>5, <1>6, <2>3, <2>4 DEF Sides
<1> HIDE DEF paid, w
<1>10. /\ Pending("available", a)' = Pending("available", a) + Told("available", a, r)
       /\ Pending("reserved", a)' = Pending("reserved", a) + Told("reserved", a, r)
       /\ Pending("units", a)' = Pending("units", a) + Told("units", a, r)
       /\ Pending("cover", a)' = Pending("cover", a) + Told("cover", a, r)
  BY <1>9 DEF Components
<1>11. /\ Told("available", a, r) = w("Buy") /\ Told("reserved", a, r) = -w("Buy")
       /\ Told("units", a, r) = w("Sell") /\ Told("cover", a, r) = -w("Buy")
  BY <1>5, <1>6, <1>8 DEF Told, Sides
<1>12. /\ account[a].available \in Int /\ account[a].reserved \in Int /\ account[a].units \in Int
       /\ Pending("available", a) \in Int /\ Pending("reserved", a) \in Int
       /\ Pending("units", a) \in Int /\ Pending("cover", a) \in Int
       /\ InEngineWorth(a, "Buy") \in Int /\ WaitingWorth(orders, a, "Buy") \in Int
       /\ InEngineWorth(a, "Sell") \in Int /\ WaitingWorth(orders, a, "Sell") \in Int
       /\ WaitingWorth(dropped, a, "Sell") \in Int
       /\ w("Buy") \in Int /\ w("Sell") \in Int
  BY <1>7, MoneyTyped
<1>13. account'[a] = account[a] /\ orders' = orders /\ dropped' = dropped
  BY <1>1
<1>14. /\ Cash(a)' = account[a].available + account[a].reserved + Pending("available", a)' + Pending("reserved", a)'
       /\ Stock(a)' = account[a].units + Pending("units", a)' + InEngineWorth(a, "Sell")' +
             WaitingWorth(orders, a, "Sell") + WaitingWorth(dropped, a, "Sell")
       /\ Open(a)' = InEngineWorth(a, "Buy")' + WaitingWorth(orders, a, "Buy")
  BY <1>13 DEF Cash, Stock, Open
<1>15. Cash(a)' = Cash(a)
  BY <1>10, <1>11, <1>12, <1>14 DEF Cash
<1>16. Stock(a)' = Stock(a)
  BY <1>7, <1>10, <1>11, <1>12, <1>14 DEF Stock
<1>17. Open(a)' = Open(a) - w("Buy")
  BY <1>7, <1>12, <1>14 DEF Open
<1>18. /\ Pending("available", a)' = Pending("available", a) + w("Buy")
       /\ Pending("reserved", a)' = Pending("reserved", a) - w("Buy")
       /\ Pending("cover", a)' = Pending("cover", a) - w("Buy")
  BY <1>10, <1>11, <1>12
<1> QED  BY <1>3, <1>12, <1>13, <1>15, <1>16, <1>17, <1>18 DEF w

-----------------------------------------------------------------------------
(* The ledger                                                              *)

\* What the ledger is a view of.
CashOf == [a \in Agents |-> Settled(a).available + Settled(a).reserved]
UnitsOf == [a \in Agents |-> Settled(a).units + Offered(a)]

LEMMA LedgerView ==
  ASSUME Typed, NEW a \in Agents
  PROVE  Settled(a).available + Settled(a).reserved = Cash(a) /\ Settled(a).units + Offered(a) = Stock(a)
<1>1. /\ Settled(a).available = account[a].available + Pending("available", a)
      /\ Settled(a).reserved = account[a].reserved + Pending("reserved", a)
      /\ Settled(a).units = account[a].units + Pending("units", a)
  BY SettledFacts
<1>2. /\ account[a].available \in Int /\ account[a].reserved \in Int /\ account[a].units \in Int
      /\ Pending("available", a) \in Int /\ Pending("reserved", a) \in Int /\ Pending("units", a) \in Int
      /\ InEngineWorth(a, "Sell") \in Int /\ WaitingWorth(orders, a, "Sell") \in Int
      /\ WaitingWorth(dropped, a, "Sell") \in Int
  BY MoneyTyped
<1> QED  BY <1>1, <1>2 DEF Cash, Stock, Offered

LEMMA LedgerViews ==
  Typed => /\ CashOf = [a \in Agents |-> Cash(a)] /\ UnitsOf = [a \in Agents |-> Stock(a)]
           /\ \A a \in Agents : Cash(a) \in Int /\ Stock(a) \in Int
BY LedgerView, MoneyTyped DEF CashOf, UnitsOf

LEMMA LedgerViewsNext ==
  ASSUME Typed'
  PROVE  /\ CashOf' = [a \in Agents |-> Cash(a)'] /\ UnitsOf' = [a \in Agents |-> Stock(a)']
         /\ \A a \in Agents : Cash(a)' \in Int /\ Stock(a)' \in Int
<1>1. (/\ CashOf = [a \in Agents |-> Cash(a)] /\ UnitsOf = [a \in Agents |-> Stock(a)]
       /\ \A a \in Agents : Cash(a) \in Int /\ Stock(a) \in Int)'
  BY LedgerViews, PTL
<1> QED  BY <1>1

LEMMA SameLedger ==
  ASSUME Typed, Typed', \A a \in Agents : Cash(a)' = Cash(a) /\ Stock(a)' = Stock(a)
  PROVE  CashOf' = CashOf /\ UnitsOf' = UnitsOf
<1>1. CashOf = [a \in Agents |-> Cash(a)] /\ UnitsOf = [a \in Agents |-> Stock(a)]
  BY LedgerViews
<1>2. CashOf' = [a \in Agents |-> Cash(a)'] /\ UnitsOf' = [a \in Agents |-> Stock(a)']
  BY LedgerViewsNext
<1> QED  BY <1>1, <1>2 DEF SameMoney

LEMMA LedgerInit == Init => TheLedger!Init
<1> SUFFICES ASSUME Init PROVE TheLedger!Init
  OBVIOUS
<1>1. Typed
  BY InitTyped
<1>2. ASSUME NEW a \in Agents PROVE Cash(a) = InitialCash /\ Stock(a) = InitialUnits
  <2>1. /\ account[a].available = InitialCash /\ account[a].reserved = 0 /\ account[a].units = InitialUnits
        /\ inbox[a] = <<>> /\ lost[a] = <<>> /\ orders = <<>> /\ dropped = <<>>
        /\ book = {} /\ taker = NoTaker
    BY DEF Init, Engine!Init
  <2>2. \A c : MailSum(c, inbox[a]) = 0 /\ MailSum(c, lost[a]) = 0
    BY <2>1, MailSumEmpty
  <2>3. \A c : Pending(c, a) = 0
    BY <2>2 DEF Pending
  <2>4. \A sd : WaitingWorth(orders, a, sd) = 0 /\ WaitingWorth(dropped, a, sd) = 0
    BY <2>1, WaitingEmpty
  <2>5. InEngineWorth(a, "Sell") = 0
    <3>1. InEngine(a, "Sell") = {}
      BY <2>1 DEF InEngine
    <3> QED  BY <3>1, SumEmpty DEF InEngineWorth
  <2> QED  BY <2>1, <2>3, <2>4, <2>5 DEF Cash, Stock
<1>3. CashOf = [a \in Agents |-> InitialCash] /\ UnitsOf = [a \in Agents |-> InitialUnits]
  BY <1>1, <1>2, LedgerViews
<1> QED  BY <1>3 DEF TheLedger!Init, CashOf, UnitsOf

LEMMA LedgerTrade ==
  ASSUME Typed, Typed', NEW m \in book, Trade(m)
  PROVE  TheLedger!Next
<1>1. PICK b \in EngineOrders, s \in EngineOrders, q \in 1 .. Lot :
           /\ {b, s} = {m, taker}
           /\ \A a \in Agents :
                /\ Cash(a)' = Cash(a) + (IF s.client = a THEN Cents(m.price) * q ELSE 0)
                                      - (IF b.client = a THEN Cents(m.price) * q ELSE 0)
                /\ Stock(a)' = Stock(a) - (IF s.client = a THEN q ELSE 0) + (IF b.client = a THEN q ELSE 0)
  BY TradeMoney
<1> DEFINE k == Cents(m.price) * q
           p == Cents(m.price)
           x == s.client
           y == b.client
<1>2. m.price \in AskedPrices /\ x \in Agents /\ y \in Agents
  BY <1>1 DEF EngineOrders
<1>3. k \in Int /\ q \in Int
  <2>1. m.price \in Int
    BY <1>2, AskedPricesTyped
  <2> QED  BY <2>1 DEF Cents
<1>4. /\ CashOf = [a \in Agents |-> Cash(a)] /\ UnitsOf = [a \in Agents |-> Stock(a)]
      /\ \A a \in Agents : Cash(a) \in Int /\ Stock(a) \in Int
  BY LedgerViews
<1>5. /\ CashOf' = [a \in Agents |-> Cash(a)'] /\ UnitsOf' = [a \in Agents |-> Stock(a)']
      /\ \A a \in Agents : Cash(a)' \in Int /\ Stock(a)' \in Int
  BY LedgerViewsNext
<1>6. p \in {Cents(r) : r \in LimitPrices \union (-1 .. MaxLevel + 1)}
  BY <1>2 DEF AskedPrices
<1> HIDE DEF k, x, y
<1>7. /\ CashOf \in [Agents -> Int] /\ CashOf' \in [Agents -> Int]
      /\ UnitsOf \in [Agents -> Int] /\ UnitsOf' \in [Agents -> Int]
  BY <1>4, <1>5
<1>8. CashOf' = [a \in Agents |-> CashOf[a] - (IF a = y THEN k ELSE 0) + (IF a = x THEN k ELSE 0)]
  <2>1. \A a \in Agents : CashOf'[a] = CashOf[a] + (IF x = a THEN k ELSE 0) - (IF y = a THEN k ELSE 0)
    BY <1>1, <1>4, <1>5 DEF k, x, y
  <2>2. \A a \in Agents : CashOf'[a] = CashOf[a] - (IF a = y THEN k ELSE 0) + (IF a = x THEN k ELSE 0)
    BY <1>3, <1>7, <2>1
  <2> QED  BY <1>7, <2>2
<1>9. UnitsOf' = [a \in Agents |-> UnitsOf[a] - (IF a = x THEN q ELSE 0) + (IF a = y THEN q ELSE 0)]
  <2>1. \A a \in Agents : UnitsOf'[a] = UnitsOf[a] - (IF a = x THEN q ELSE 0) + (IF a = y THEN q ELSE 0)
    BY <1>1, <1>4, <1>5 DEF x, y
  <2> QED  BY <1>7, <2>1
<1>13. TheLedger!Transfer(x, y, q, p)
  <2>1. CashOf' = [a \in Agents |-> CashOf[a] - (IF a = y THEN p * q ELSE 0) + (IF a = x THEN p * q ELSE 0)]
    BY <1>8 DEF k
  <2> HIDE DEF p
  <2> QED  BY <1>9, <2>1 DEF TheLedger!Transfer, TheLedger!Shifted, CashOf, UnitsOf
<1> HIDE DEF p
<1> QED  BY <1>2, <1>6, <1>13 DEF TheLedger!Next

LEMMA LedgerStep == Sound /\ [Next]_vars => [TheLedger!Next]_<<CashOf, UnitsOf>>
<1> SUFFICES ASSUME Sound, [Next]_vars PROVE TheLedger!Next \/ UNCHANGED <<CashOf, UnitsOf>>
  OBVIOUS
<1>1. Typed /\ Typed'
  BY SoundStep DEF Sound
<1>2. ASSUME \A a \in Agents : SameMoney(a) PROVE UNCHANGED <<CashOf, UnitsOf>>
  <2>1. \A a \in Agents : Cash(a)' = Cash(a) /\ Stock(a)' = Stock(a)
    BY <1>2 DEF SameMoney
  <2> QED  BY <1>1, <2>1, SameLedger
<1>3. CASE \E m \in book : Trade(m)
  BY <1>1, <1>3, LedgerTrade
<1>4. CASE PushOrder
  <2>1. Typed /\ PushOrder
    BY <1>1, <1>4
  <2>2. \A a \in Agents : Cash(a)' = Cash(a) /\ Stock(a)' = Stock(a)
    <3> SUFFICES ASSUME NEW a \in Agents PROVE Cash(a)' = Cash(a) /\ Stock(a)' = Stock(a)
      OBVIOUS
    <3> QED  BY <2>1, PushMoney
  <2> QED  BY <1>1, <2>2, SameLedger
<1>5. ASSUME NEW a \in Agents, NEW aims \in Aims(a), NEW v \in Wanted(a), Act(a, aims, v) PROVE UNCHANGED <<CashOf, UnitsOf>>
  <2>1. UNCHANGED <<account, inbox, lost, orders, dropped, book, taker>>
    BY <1>5 DEF Act, Engine!Delivered
  <2> QED  BY <1>2, <2>1, SameEngine, MoneyUnchanged
<1>6. ASSUME NEW a \in Agents, PopTrade(a) PROVE UNCHANGED <<CashOf, UnitsOf>>
  BY <1>1, <1>2, <1>6, PopTradeMoney
<1>7. CASE PopOrder
  BY <1>1, <1>2, <1>7, PopOrderMoney
<1>8. CASE Rest \/ Finish
  BY <1>1, <1>2, <1>8, RestMoney
<1>9. CASE Expire
  <2>1. Typed /\ Expire
    BY <1>1, <1>9
  <2>2. \A a \in Agents : Cash(a)' = Cash(a) /\ Stock(a)' = Stock(a)
    <3> SUFFICES ASSUME NEW a \in Agents PROVE Cash(a)' = Cash(a) /\ Stock(a)' = Stock(a)
      OBVIOUS
    <3> QED  BY <2>1, ExpireMoney
  <2> QED  BY <1>1, <2>2, SameLedger
<1>10. CASE UNCHANGED vars \/ MarketRest \/ ReturnCancel
  <2>1. UNCHANGED <<account, inbox, lost, orders, dropped, book, taker>>
    BY <1>10 DEF vars, agentVars, engineVars, MarketRest, ReturnCancel, NoReport, Engine!Delivered
  <2> QED  BY <1>2, <2>1, SameEngine, MoneyUnchanged
<1> QED  BY <1>3, <1>4, <1>5, <1>6, <1>7, <1>8, <1>9, <1>10 DEF Next, EngineStep

\* Through orders, cancels, trades, mail in flight and mail or orders that were
\* refused, cash and units change hands only as trades say.
THEOREM LedgerKept == Spec => ImplementsLedger
<1>1. Init => TheLedger!Init
  BY LedgerInit
<1>2. Sound /\ [Next]_vars => [TheLedger!Next]_<<CashOf, UnitsOf>>
  BY LedgerStep
<1>3. [TheLedger!Next]_<<CashOf, UnitsOf>> => [TheLedger!Next]_(TheLedger!vars)
  BY DEF TheLedger!vars, CashOf, UnitsOf
<1>4. Spec => []Sound
  BY SoundAlways
<1> QED  BY <1>1, <1>2, <1>3, <1>4, PTL DEF Spec, ImplementsLedger, TheLedger!Spec

-----------------------------------------------------------------------------
(* Prices on the grid                                                      *)

LEMMA TimesMonotone ==
  ASSUME NEW x \in Int, NEW y \in Int, NEW q \in Nat, x <= y
  PROVE  x * q <= y * q
<1>1. (y - x) * q >= 0
  <2>1. y - x \in Nat
    OBVIOUS
  <2> DEFINE d == y - x
  <2> HIDE DEF d
  <2>2. d \in Nat => d * q >= 0
    OBVIOUS
  <2> QED  BY <2>1, <2>2 DEF d
<1>2. (y - x) * q = y * q - x * q /\ x * q \in Int /\ y * q \in Int
  OBVIOUS
<1> QED  BY <1>1, <1>2

\* A report of a price of the grid, and no buyer pays less than the seller asked.
Fair(r) == r.price \in Levels /\ (r.side = "Buy" /\ r.type # "CANCEL" => r.other.price <= r.price)
FairReports == {r \in AllReports : Fair(r)}

LEMMA FairChange ==
  ASSUME NEW r \in FairReports
  PROVE  /\ Change("cover", r) <= Change("reserved", r)
         /\ Change("cover", r) <= Change("available", r) + Change("reserved", r)
         /\ Change("units", r) >= 0
         /\ Change("cover", r) \in Int /\ Change("reserved", r) \in Int
         /\ Change("available", r) \in Int /\ Change("units", r) \in Int
<1> DEFINE paid == Cents(r.price) * r.quantity
           held == Cents(r.other.price) * r.quantity
<1>1. /\ r \in AllReports /\ r.side \in Sides /\ r.quantity \in Nat
      /\ Cents(r.price) \in Nat /\ Cents(r.other.price) \in Int
      /\ r.side = "Buy" /\ r.type # "CANCEL" => Cents(r.other.price) <= Cents(r.price)
  BY DEF FairReports, AllReports, Fair, Levels, Cents
<1>2. paid >= 0 /\ (r.side = "Buy" /\ r.type # "CANCEL" => held <= paid)
  <2> DEFINE x == Cents(r.price)
             y == Cents(r.other.price)
             q == r.quantity
  <2>1. x \in Int /\ y \in Int /\ q \in Nat /\ 0 <= x
    BY <1>1
  <2> HIDE DEF x, y, q
  <2>2. 0 * q <= x * q /\ (y <= x => y * q <= x * q)
    BY <2>1, TimesMonotone
  <2> QED  BY <1>1, <2>1, <2>2 DEF x, y, q
<1>3. /\ paid \in Int /\ held \in Int
      /\ r.side = "Sell" =>
           /\ Change("available", r) = IF r.type = "CANCEL" THEN 0 ELSE paid
           /\ Change("reserved", r) = 0
           /\ Change("units", r) = IF r.type = "CANCEL" THEN r.quantity ELSE 0
           /\ Change("cover", r) = 0
      /\ r.side # "Sell" =>
           /\ Change("available", r) = IF r.type = "CANCEL" THEN paid ELSE held - paid
           /\ Change("reserved", r) = IF r.type = "CANCEL" THEN -paid ELSE -held
           /\ Change("units", r) = IF r.type = "CANCEL" THEN 0 ELSE r.quantity
           /\ Change("cover", r) = -paid
  BY <1>1, ChangeFacts
<1> HIDE DEF paid, held
<1> QED  BY <1>1, <1>2, <1>3 DEF Sides

LEMMA SumPlus ==
  ASSUME NEW f, NEW g, Summable(f), Summable(g), DOMAIN f = DOMAIN g
  PROVE  SumFunction([x \in DOMAIN f |-> f[x] + g[x]]) = SumFunction(f) + SumFunction(g)
<1> DEFINE D == DOMAIN f
           d == [x \in D |-> f[x] + g[x]]
<1>1. PICK T : Additive(T, f, D) /\ SumFunction(f) = T[D]
  BY SumAdditive
<1>2. PICK U : Additive(U, g, D) /\ SumFunction(g) = U[D]
  BY SumAdditive
<1> DEFINE V == [s \in SUBSET D |-> T[s] + U[s]]
<1>3. \A s \in SUBSET D : U[s] \in Int /\ T[s] \in Int
  BY <1>1, <1>2 DEF Additive
<1>4. V \in [SUBSET D -> Int] /\ V[{}] = 0
  BY <1>1, <1>2, <1>3 DEF Additive
<1>5. ASSUME NEW s \in SUBSET D, NEW x \in s PROVE V[s] = d[x] + V[s \ {x}]
  <2>1. U[s] = g[x] + U[s \ {x}] /\ T[s] = f[x] + T[s \ {x}]
    BY <1>1, <1>2 DEF Additive
  <2>2. g[x] \in Int /\ f[x] \in Int /\ U[s \ {x}] \in Int /\ T[s \ {x}] \in Int
    BY <1>3 DEF Summable
  <2>3. (f[x] + T[s \ {x}]) + (g[x] + U[s \ {x}]) = (f[x] + g[x]) + (T[s \ {x}] + U[s \ {x}])
    BY <2>2
  <2>4. V[s] = T[s] + U[s] /\ V[s \ {x}] = T[s \ {x}] + U[s \ {x}] /\ d[x] = f[x] + g[x]
    OBVIOUS
  <2> HIDE DEF V, d
  <2> QED  BY <2>1, <2>3, <2>4
<1>6. DOMAIN d = D /\ Summable(d)
  BY DEF Summable
<1> HIDE DEF V, d
<1>7. Additive(V, d, D)
  BY <1>4, <1>5 DEF Additive
<1>8. SumFunction(d) = V[D]
  BY <1>6, <1>7, SumIs DEF Summable
<1>9. V[D] = T[D] + U[D]
  BY DEF V
<1> QED  BY <1>1, <1>2, <1>8, <1>9 DEF d

LEMMA FairSums ==
  ASSUME NEW s \in Seq(AllReports), s \in Seq(FairReports)
  PROVE  /\ MailSum("cover", s) <= MailSum("reserved", s)
         /\ MailSum("cover", s) <= MailSum("available", s) + MailSum("reserved", s)
<1> DEFINE D == DOMAIN s
           fc == [k \in D |-> Change("cover", s[k])]
           fr == [k \in D |-> Change("reserved", s[k])]
           fa == [k \in D |-> Change("available", s[k])]
           g == [k \in D |-> fa[k] + fr[k]]
<1>1. \A k \in D : s[k] \in FairReports
  BY LenProperties, ElementOfSeq
<1>2. Summable(fc) /\ Summable(fr) /\ Summable(fa)
  BY MailSummable DEF Components
<1>3. \A k \in D : fc[k] <= fr[k] /\ fc[k] <= g[k]
  BY <1>1, FairChange
<1>4. DOMAIN fc = D /\ DOMAIN fr = D /\ DOMAIN fa = D /\ DOMAIN g = D
  OBVIOUS
<1>5. \A k \in D : g[k] = fa[k] + fr[k]
  OBVIOUS
<1>6. /\ MailSum("cover", s) = SumFunction(fc) /\ MailSum("reserved", s) = SumFunction(fr)
      /\ MailSum("available", s) = SumFunction(fa)
  BY DEF MailSum
<1>7. g = [k \in DOMAIN fa |-> fa[k] + fr[k]]
  BY <1>4
<1> HIDE DEF fc, fr, fa, g, D
<1>8. Summable(g)
  BY <1>2, <1>4, <1>5 DEF Summable
<1>9. SumFunction(fc) <= SumFunction(fr)
  BY <1>2, <1>3, <1>4, SumAtMost
<1>10. SumFunction(fc) <= SumFunction(g)
  BY <1>2, <1>3, <1>4, <1>8, SumAtMost
<1>11. SumFunction(g) = SumFunction(fa) + SumFunction(fr)
  BY <1>2, <1>4, <1>7, SumPlus
<1> QED  BY <1>6, <1>9, <1>10, <1>11

\* What a turn of an agent leaves to be pushed.
LEMMA TurnFacts ==
  ASSUME Typed, HeldOnce, NEW a \in Agents, NEW aims \in Aims(a), NEW v \in Wanted(a), Act(a, aims, v)
  PROVE  /\ \A k \in DOMAIN outgoing' :
              /\ outgoing'[k].client = a
              /\ outgoing'[k].type # "CANCEL" => Looked(a, outgoing'[k])
         /\ \A j, k \in DOMAIN outgoing' :
              /\ outgoing'[j].type # "CANCEL" /\ outgoing'[k].type # "CANCEL"
              /\ outgoing'[j].side = outgoing'[k].side
              => j = k
<1> DEFINE w == Sent(a, aims, v)
           g == outgoing'
<1>1. DOMAIN g = 1 .. Len(w)
  BY ActFacts, LenProperties
<1>2. \A k \in 1 .. Len(w) : g[k] = [w[k] EXCEPT !.index = g[k].index]
  BY ActFacts
<1>3. /\ \A k \in 1 .. Len(w) :
           w[k] \in Drafts /\ w[k].client = a /\ (w[k].type # "CANCEL" => Looked(a, w[k]))
      /\ \A j, k \in 1 .. Len(w) :
           w[j].type # "CANCEL" /\ w[k].type # "CANCEL" /\ w[j].side = w[k].side => j = k
  BY SentFacts DEF Typed
<1> HIDE DEF w, g
<1>4. ASSUME NEW k \in 1 .. Len(w)
      PROVE  /\ g[k].client = w[k].client /\ g[k].type = w[k].type
             /\ w[k].type # "CANCEL" => g[k].side = w[k].side /\ g[k].price = w[k].price
  <2>1. g[k] = [w[k] EXCEPT !.index = g[k].index]
    BY <1>2
  <2>2. CASE w[k] \in OrderForms({NoNode})
    BY <2>1, <2>2 DEF OrderForms
  <2>3. CASE w[k] \in CancelForms({NoNode})
    BY <2>1, <2>3 DEF CancelForms
  <2> QED  BY <1>3, <2>2, <2>3 DEF Drafts
<1>5. ASSUME NEW k \in 1 .. Len(w)
      PROVE  g[k].client = a /\ (g[k].type # "CANCEL" => Looked(a, g[k]))
  BY <1>3, <1>4 DEF Looked
<1>6. ASSUME NEW j \in 1 .. Len(w), NEW k \in 1 .. Len(w),
             g[j].type # "CANCEL", g[k].type # "CANCEL", g[j].side = g[k].side
      PROVE  j = k
  BY <1>3, <1>4, <1>6
<1> QED  BY <1>1, <1>5, <1>6 DEF g

\* Agents have no order to push that asks for a price off the grid. A market maker
\* at the edge of the grid or a random agent that draws a price far from the mid
\* price may have one.
QuotesOnGrid == \A k \in DOMAIN outgoing : outgoing[k].type # "CANCEL" => outgoing[k].price \in Levels

OrdersOnGrid(s) == \A k \in DOMAIN s : s[k].type # "CANCEL" => OnGrid(s[k])

EngineOnGrid == (\A o \in book : OnGrid(o)) /\ (taker # NoTaker => OnGrid(taker))

MailIsFair == inbox \in [Agents -> Seq(FairReports)] /\ lost \in [Agents -> Seq(FairReports)]

Grid == OrdersOnGrid(outgoing) /\ OrdersOnGrid(orders) /\ EngineOnGrid /\ MailIsFair

LEMMA GridAppend ==
  ASSUME NEW s \in Seq(Forms), NEW o \in Forms, OrdersOnGrid(s), o.type # "CANCEL" => OnGrid(o)
  PROVE  OrdersOnGrid(Append(s, o))
<1> DEFINE t == Append(s, o)
<1>1. /\ DOMAIN s = 1 .. Len(s) /\ DOMAIN t = 1 .. Len(s) + 1 /\ Len(s) \in Nat
      /\ \A k \in 1 .. Len(s) : t[k] = s[k]
      /\ t[Len(s) + 1] = o
  BY AppendProperties, LenProperties
<1> HIDE DEF t
<1>2. \A k \in DOMAIN t : k \in 1 .. Len(s) \/ k = Len(s) + 1
  BY <1>1
<1>3. OrdersOnGrid(t)
  BY <1>1, <1>2 DEF OrdersOnGrid
<1> QED  BY <1>3 DEF t

LEMMA GridTail ==
  ASSUME NEW s \in Seq(Forms), s # <<>>, OrdersOnGrid(s)
  PROVE  OrdersOnGrid(Tail(s)) /\ (Head(s).type # "CANCEL" => OnGrid(Head(s)))
<1> DEFINE t == Tail(s)
<1>1. /\ Len(s) \in Nat /\ Len(s) >= 1 /\ DOMAIN s = 1 .. Len(s) /\ DOMAIN t = 1 .. Len(s) - 1
      /\ \A k \in 1 .. Len(s) - 1 : t[k] = s[k + 1]
      /\ Head(s) = s[1]
  BY HeadTailProperties, LenProperties, EmptySeq
<1> HIDE DEF t
<1>2. \A k \in DOMAIN t : k + 1 \in DOMAIN s /\ t[k] = s[k + 1]
  BY <1>1
<1>3. 1 \in DOMAIN s
  BY <1>1
<1>4. OrdersOnGrid(t)
  BY <1>2 DEF OrdersOnGrid
<1> QED  BY <1>1, <1>3, <1>4 DEF OrdersOnGrid, t

LEMMA FairDispatch ==
  ASSUME MailTyped, MailIsFair, Dispatch, reports' \subseteq FairReports,
         \A x, y \in reports' : x.side = y.side => x = y
  PROVE  MailIsFair'
<1>1. reports' \subseteq AllReports
  BY DEF FairReports
<1>2. Delivers /\ MailTyped'
  BY <1>1, DispatchFacts
<1>3. \A a, sd : Half(a, sd) \in Seq(FairReports)
  <2> SUFFICES ASSUME NEW a, NEW sd PROVE Half(a, sd) \in Seq(FairReports)
    OBVIOUS
  <2>1. CASE \E r \in reports' : r.clientRef = a /\ r.side = sd
    <3>1. PICK r \in FairReports : Half(a, sd) = <<r>>
      BY <1>1, <2>1, HalfFacts
    <3>2. <<r>> \in Seq(FairReports)
      OBVIOUS
    <3> QED  BY <3>1, <3>2
  <2>2. CASE \A r \in reports' : ~(r.clientRef = a /\ r.side = sd)
    <3>1. Half(a, sd) = <<>>
      BY <1>1, <2>2, HalfFacts
    <3>2. <<>> \in Seq(FairReports)
      OBVIOUS
    <3> QED  BY <3>1, <3>2
  <2> QED  BY <2>1, <2>2
<1>4. ASSUME NEW a \in Agents
      PROVE  inbox'[a] \in Seq(FairReports) /\ lost'[a] \in Seq(FairReports)
  <2> DEFINE M == Mail(a)
  <2>1. PICK f \in 0 .. Len(M) : /\ inbox'[a] = inbox[a] \o SubSeq(M, 1, f)
                                 /\ lost'[a] = lost[a] \o SubSeq(M, f + 1, Len(M))
    BY <1>2 DEF Delivers
  <2>2. M \in Seq(FairReports)
    BY <1>3, ConcatProperties DEF Mail
  <2>3. inbox[a] \in Seq(FairReports) /\ lost[a] \in Seq(FairReports)
    BY DEF MailIsFair
  <2> HIDE DEF M
  <2>4. Len(M) \in Nat /\ \A i \in 1 .. Len(M) : M[i] \in FairReports
    BY <2>2, LenProperties, ElementOfSeq
  <2>5. SubSeq(M, 1, f) \in Seq(FairReports)
    BY <2>2, <2>4, SubSeqProperties
  <2>6. SubSeq(M, f + 1, Len(M)) \in Seq(FairReports)
    <3>1. \A i \in f + 1 .. Len(M) : M[i] \in FairReports
      BY <2>4
    <3> QED  BY <2>2, <2>4, <3>1, SubSeqProperties
  <2> QED  BY <2>1, <2>3, <2>5, <2>6, ConcatProperties
<1>5. DOMAIN inbox' = Agents /\ DOMAIN lost' = Agents
  BY <1>2 DEF MailTyped
<1>6. inbox' \in [Agents -> Seq(FairReports)] /\ lost' \in [Agents -> Seq(FairReports)]
  <2>1. inbox' = [a \in Agents |-> inbox'[a]] /\ lost' = [a \in Agents |-> lost'[a]]
    BY <1>2 DEF MailTyped
  <2> QED  BY <1>4, <2>1
<1> QED  BY <1>6 DEF MailIsFair

LEMMA GridInit == Init => Grid
<1> SUFFICES ASSUME Init PROVE Grid
  OBVIOUS
<1>1. OrdersOnGrid(outgoing) /\ OrdersOnGrid(orders)
  BY DEF Init, OrdersOnGrid
<1>2. EngineOnGrid
  BY DEF Init, Engine!Init, EngineOnGrid
<1>3. MailIsFair
  BY DEF Init, MailIsFair
<1> QED  BY <1>1, <1>2, <1>3 DEF Grid

LEMMA GridAct ==
  ASSUME Sound, Grid, QuotesOnGrid', NEW a \in Agents, NEW aims \in Aims(a), NEW v \in Wanted(a), Act(a, aims, v)
  PROVE  Grid'
<1>1. Typed /\ HeldOnce
  BY DEF Sound
<1>2. UNCHANGED <<orders, book, taker, inbox, lost>>
  BY DEF Act, Engine!Delivered
<1>3. ASSUME NEW k \in DOMAIN outgoing', outgoing'[k].type # "CANCEL" PROVE OnGrid(outgoing'[k])
  <2>1. outgoing'[k].price \in Levels
    BY <1>3 DEF QuotesOnGrid
  <2>2. Looked(a, outgoing'[k])
    BY <1>1, <1>3, TurnFacts
  <2> QED  BY <2>1, <2>2 DEF Looked, OnGrid
<1>4. OrdersOnGrid(outgoing')
  BY <1>3 DEF OrdersOnGrid
<1>5. OrdersOnGrid(orders') /\ EngineOnGrid' /\ MailIsFair'
  BY <1>2 DEF Grid, EngineOnGrid, MailIsFair
<1> QED  BY <1>4, <1>5 DEF Grid

LEMMA GridPush ==
  ASSUME Sound, Grid, PushOrder
  PROVE  Grid'
<1> DEFINE o == Head(outgoing)
<1>1. /\ outgoing \in Seq(Forms) /\ orders \in Seq(Forms) /\ outgoing # <<>>
      /\ OrdersOnGrid(outgoing) /\ OrdersOnGrid(orders)
  BY DEF PushOrder, Sound, Typed, OrdersTyped, Grid
<1>2. UNCHANGED <<book, taker, inbox, lost>> /\ outgoing' = Tail(outgoing)
  BY DEF PushOrder, Engine!Delivered
<1>3. o \in Forms /\ OrdersOnGrid(Tail(outgoing)) /\ (o.type # "CANCEL" => OnGrid(o))
  BY <1>1, TailNodes, GridTail
<1>4. orders' = Append(orders, o) \/ orders' = orders
  BY DEF PushOrder, Enqueue
<1> HIDE DEF o
<1>5. OrdersOnGrid(orders')
  BY <1>1, <1>3, <1>4, GridAppend
<1>6. EngineOnGrid' /\ MailIsFair'
  BY <1>2 DEF Grid, EngineOnGrid, MailIsFair
<1>7. OrdersOnGrid(outgoing')
  BY <1>2, <1>3
<1> QED  BY <1>5, <1>6, <1>7 DEF Grid

LEMMA GridPopOrder ==
  ASSUME Sound, Grid, PopOrder
  PROVE  Grid'
<1> DEFINE o == Head(orders)
<1>1. orders \in Seq(Forms) /\ orders # <<>> /\ OrdersOnGrid(orders)
  BY DEF PopOrder, Sound, Typed, OrdersTyped, Grid
<1>2. /\ UNCHANGED <<outgoing, inbox, lost>> /\ orders' = Tail(orders) /\ book' = book
      /\ taker = NoTaker
      /\ o.type = "CANCEL" => taker' = taker
      /\ o.type # "CANCEL" => taker' = Engine!Order(lastId + 1, o.type, o.client, o.side, o.price, o.qty)
  BY DEF PopOrder, NoReport, agentVars, Engine!Arrive, Engine!Skip
<1>3. OrdersOnGrid(Tail(orders)) /\ (o.type # "CANCEL" => OnGrid(o))
  BY <1>1, GridTail
<1> HIDE DEF o
<1>4. taker' # NoTaker => OnGrid(taker')
  BY <1>2, <1>3 DEF Engine!Order, OnGrid
<1>5. EngineOnGrid'
  BY <1>2, <1>4 DEF EngineOnGrid, Grid
<1>6. OrdersOnGrid(outgoing') /\ OrdersOnGrid(orders') /\ MailIsFair'
  BY <1>2, <1>3 DEF Grid, MailIsFair
<1> QED  BY <1>5, <1>6 DEF Grid

LEMMA GridTrade ==
  ASSUME Sound, Grid, NEW m \in book, Trade(m)
  PROVE  Grid'
<1>1. /\ Engine!Trade(m) /\ Dispatch
      /\ UNCHANGED <<outgoing, orders, index>>
  BY DEF Trade, agentVars
<1>2. EngineTyped /\ MailTyped
  BY DEF Sound, Typed
<1>3. PICK q \in 1 .. Lot :
        /\ m \in EngineOrders /\ taker \in EngineOrders /\ taker # NoTaker
        /\ m.side = Opposite(taker.side) /\ Engine!Tradable(m)
        /\ \E x, y \in {"FULL", "PARTIAL"} :
             reports' = {Engine!Report(taker, m.price, q, m, x), Engine!Report(m, m.price, q, taker, y)}
        /\ book' \subseteq book \union {[m EXCEPT !.qty = m.qty - q]}
        /\ taker' = [taker EXCEPT !.qty = taker.qty - q]
  BY <1>1, <1>2, TradeEngine
<1>4. /\ reports' \subseteq AllReports
      /\ \A x, y \in reports' : x.side = y.side => x = y
  BY <1>1, <1>2, TradeFacts
<1>5. OnGrid(m) /\ OnGrid(taker)
  BY <1>3 DEF Grid, EngineOnGrid
<1>6. OnGrid([m EXCEPT !.qty = m.qty - q]) /\ OnGrid(taker')
  <2>1. /\ [m EXCEPT !.qty = m.qty - q].price = m.price /\ [m EXCEPT !.qty = m.qty - q].type = m.type
        /\ [m EXCEPT !.qty = m.qty - q].side = m.side
        /\ taker'.price = taker.price /\ taker'.type = taker.type /\ taker'.side = taker.side
    BY <1>3 DEF EngineOrders
  <2> QED  BY <1>5, <2>1 DEF OnGrid
<1>7. EngineOnGrid'
  <2>1. \A o \in book' : o \in book \/ o = [m EXCEPT !.qty = m.qty - q]
    BY <1>3
  <2>2. \A o \in book' : OnGrid(o)
    BY <1>6, <2>1 DEF Grid, EngineOnGrid
  <2> QED  BY <1>6, <2>2 DEF EngineOnGrid
<1>8. reports' \subseteq FairReports
  <2>1. PICK x \in {"FULL", "PARTIAL"}, y \in {"FULL", "PARTIAL"} :
             reports' = {Engine!Report(taker, m.price, q, m, x), Engine!Report(m, m.price, q, taker, y)}
    BY <1>3
  <2>2. /\ taker.side # "Buy" => taker.price <= m.price
        /\ m.side = "Buy" => taker.side # "Buy"
    BY <1>3, <1>5, TradePrices DEF Opposite, EngineOrders, Sides
  <2>3. m.price \in Levels /\ m.price <= m.price
    BY <1>5 DEF OnGrid, Levels
  <2>4. Fair(Engine!Report(taker, m.price, q, m, x)) /\ Fair(Engine!Report(m, m.price, q, taker, y))
    BY <2>2, <2>3 DEF Fair, Engine!Report
  <2> QED  BY <1>4, <2>1, <2>4 DEF FairReports
<1>9. MailIsFair'
  BY <1>1, <1>2, <1>4, <1>8, FairDispatch DEF Grid
<1>10. OrdersOnGrid(outgoing') /\ OrdersOnGrid(orders')
  BY <1>1 DEF Grid
<1> QED  BY <1>7, <1>9, <1>10 DEF Grid

LEMMA GridLeave ==
  ASSUME Sound, Grid, Rest \/ Finish \/ Expire
  PROVE  Grid'
<1>1. UNCHANGED <<outgoing, orders>>
  BY DEF Rest, Finish, Expire, agentVars
<1>2. EngineOnGrid'
  BY DEF Rest, Finish, Expire, Engine!Rest, Engine!Finish, Engine!Expire, Grid, EngineOnGrid
<1>3. MailIsFair'
  <2>1. CASE Rest \/ Finish
    BY <2>1 DEF Rest, Finish, NoReport, Grid, MailIsFair
  <2>2. CASE Expire
    <3>1. Engine!Expire /\ Dispatch /\ EngineTyped /\ MailTyped /\ taker # NoTaker
      BY <2>2 DEF Expire, Engine!Expire, Sound, Typed
    <3>2. /\ reports' = {Engine!Report(taker, taker.price, taker.qty, taker, "CANCEL")}
          /\ reports' \subseteq AllReports
          /\ \A x, y \in reports' : x.side = y.side => x = y
      BY <3>1, ExpireFacts
    <3>3. taker.price \in Levels
      BY <3>1 DEF Grid, EngineOnGrid, OnGrid
    <3>4. Fair(Engine!Report(taker, taker.price, taker.qty, taker, "CANCEL"))
      BY <3>3 DEF Fair, Engine!Report
    <3>5. reports' \subseteq FairReports
      BY <3>2, <3>4 DEF FairReports
    <3> QED  BY <3>1, <3>2, <3>5, FairDispatch DEF Grid
  <2> QED  BY <2>1, <2>2
<1> QED  BY <1>1, <1>2, <1>3 DEF Grid

LEMMA GridPopTrade ==
  ASSUME Grid, NEW a \in Agents, PopTrade(a)
  PROVE  Grid' /\ Head(inbox[a]) \in FairReports
<1>1. /\ inbox[a] # <<>> /\ inbox' = [inbox EXCEPT ![a] = Tail(@)]
      /\ UNCHANGED <<outgoing, orders, book, taker, lost>>
  BY DEF PopTrade, Engine!Delivered
<1>2. inbox \in [Agents -> Seq(FairReports)] /\ lost \in [Agents -> Seq(FairReports)]
  BY DEF Grid, MailIsFair
<1>3. Head(inbox[a]) \in FairReports /\ Tail(inbox[a]) \in Seq(FairReports)
  BY <1>1, <1>2, HeadTailProperties
<1>4. MailIsFair'
  BY <1>1, <1>2, <1>3 DEF MailIsFair
<1>5. EngineOnGrid' /\ OrdersOnGrid(outgoing') /\ OrdersOnGrid(orders')
  BY <1>1 DEF Grid, EngineOnGrid
<1> QED  BY <1>3, <1>4, <1>5 DEF Grid

LEMMA GridStep == Sound /\ Grid /\ QuotesOnGrid' /\ [Next]_vars => Grid'
<1> SUFFICES ASSUME Sound, Grid, QuotesOnGrid', [Next]_vars PROVE Grid'
  OBVIOUS
<1>1. CASE UNCHANGED vars \/ MarketRest \/ ReturnCancel
  <2>1. UNCHANGED <<outgoing, orders, book, taker, inbox, lost>>
    BY <1>1 DEF vars, agentVars, engineVars, MarketRest, ReturnCancel, NoReport, Engine!Delivered
  <2> QED  BY <2>1 DEF Grid, EngineOnGrid, MailIsFair
<1>2. ASSUME NEW a \in Agents, NEW aims \in Aims(a), NEW v \in Wanted(a), Act(a, aims, v) PROVE Grid'
  BY <1>2, GridAct
<1>3. ASSUME NEW a \in Agents, PopTrade(a) PROVE Grid'
  BY <1>3, GridPopTrade
<1>4. CASE PushOrder
  BY <1>4, GridPush
<1>5. CASE PopOrder
  BY <1>5, GridPopOrder
<1>6. ASSUME NEW m \in book, Trade(m) PROVE Grid'
  BY <1>6, GridTrade
<1>7. CASE Rest \/ Finish \/ Expire
  BY <1>7, GridLeave
<1> QED  BY <1>1, <1>2, <1>3, <1>4, <1>5, <1>6, <1>7 DEF Next, EngineStep

-----------------------------------------------------------------------------
(* Reserves and debts                                                      *)

\* What is left of the cash of an agent once its open buy orders are paid.
Spare(a) == Cash(a) - Open(a)

\* What is reserved, less what the mail has settled at the price paid, pays for the
\* open buy orders.
Secured(a) == account[a].reserved + Pending("cover", a) >= Open(a)

\* The agent is no worse off after the step.
Improves(a) ==
  /\ Spare(a)' >= Spare(a) /\ account'[a].units >= account[a].units
  /\ Secured(a) => Secured(a)'

LEMMA FairPending ==
  ASSUME MailTyped, MailIsFair, NEW a \in Agents
  PROVE  /\ Pending("cover", a) <= Pending("reserved", a)
         /\ Pending("cover", a) <= Pending("available", a) + Pending("reserved", a)
<1> DEFINE i == inbox[a]
           l == lost[a]
<1>1. /\ i \in Seq(AllReports) /\ i \in Seq(FairReports)
      /\ l \in Seq(AllReports) /\ l \in Seq(FairReports)
  BY DEF MailTyped, MailIsFair
<1>2. \A c : Pending(c, a) = MailSum(c, i) + MailSum(c, l)
  BY DEF Pending
<1> HIDE DEF i, l
<1>3. /\ MailSum("cover", i) <= MailSum("reserved", i)
      /\ MailSum("cover", i) <= MailSum("available", i) + MailSum("reserved", i)
      /\ MailSum("cover", l) <= MailSum("reserved", l)
      /\ MailSum("cover", l) <= MailSum("available", l) + MailSum("reserved", l)
  BY <1>1, FairSums
<1>4. \A c \in Components : MailSum(c, i) \in Int /\ MailSum(c, l) \in Int
  BY <1>1, MailSummable
<1>5. /\ MailSum("cover", i) \in Int /\ MailSum("reserved", i) \in Int /\ MailSum("available", i) \in Int
      /\ MailSum("cover", l) \in Int /\ MailSum("reserved", l) \in Int /\ MailSum("available", l) \in Int
  BY <1>4 DEF Components
<1> QED  BY <1>2, <1>3, <1>5

LEMMA OnGridWeight ==
  ASSUME NEW o \in Forms \union EngineOrders, o.type # "CANCEL" => OnGrid(o), NEW a
  PROVE  Weight(o, a, "Buy") >= 0
<1>1. CASE o.type = "CANCEL"
  BY <1>1 DEF Weight
<1>2. CASE o.type # "CANCEL"
  <2> DEFINE x == Cents(o.price)
             q == o.qty
  <2>1. x \in Int /\ 0 <= x /\ q \in Nat
    BY <1>2 DEF OnGrid, Levels, Cents, Forms, OrderForms, CancelForms, EngineOrders
  <2>2. Weight(o, a, "Buy") = IF o.client = a /\ o.side = "Buy" THEN x * q ELSE 0
    BY <1>2 DEF Weight, Worth
  <2> HIDE DEF x, q
  <2>3. 0 * q <= x * q
    BY <2>1, TimesMonotone
  <2> QED  BY <2>1, <2>2, <2>3
<1> QED  BY <1>1, <1>2

LEMMA SameImproves ==
  ASSUME Typed, NEW a \in Agents, SameMail(a), SameMoney(a), account'[a] = account[a]
  PROVE  Improves(a)
<1>1. Pending("cover", a)' = Pending("cover", a) /\ Cash(a)' = Cash(a) /\ Open(a)' = Open(a)
  BY DEF SameMail, SameMoney, Components
<1>2. Spare(a)' = Spare(a) /\ Spare(a) \in Int /\ account[a].units \in Int
  BY <1>1, MoneyTyped DEF Spare
<1>3. Secured(a)' = Secured(a)
  BY <1>1 DEF Secured
<1> QED  BY <1>2, <1>3 DEF Improves

LEMMA TradeImproves ==
  ASSUME Typed, Grid, NEW m \in book, Trade(m), NEW a \in Agents
  PROVE  Improves(a)
<1>1. PICK b \in EngineOrders, s \in EngineOrders, q \in 1 .. Lot :
           /\ {b, s} = {m, taker}
           /\ OnGrid(m) /\ OnGrid(taker) => Agreed(b, s, m.price)
           /\ account'[a] = account[a]
           /\ Moved(b, s, m.price, q, a)
           /\ Cash(a)' = Cash(a) + (IF s.client = a THEN Cents(m.price) * q ELSE 0)
                                 - (IF b.client = a THEN Cents(m.price) * q ELSE 0)
           /\ Open(a)' = Open(a) - (IF b.client = a THEN Cents(b.price) * q ELSE 0)
  BY TradeMoney
<1>2. OnGrid(m) /\ OnGrid(taker) /\ Agreed(b, s, m.price)
  <2>1. taker # NoTaker
    BY DEF Trade, Engine!Trade
  <2> QED  BY <1>1, <2>1 DEF Grid, EngineOnGrid
<1> DEFINE x == Cents(m.price)
           y == Cents(b.price)
<1>3. x \in Int /\ 0 <= x /\ y \in Int /\ x <= y /\ q \in Nat
  <2>1. m.price \in Nat /\ b.price \in Nat
    BY <1>1, <1>2 DEF OnGrid, Levels
  <2> QED  BY <1>2, <2>1 DEF Agreed, Cents
<1>4. /\ Pending("cover", a)' = Pending("cover", a) + (IF b.client = a THEN -(x * q) ELSE 0)
      /\ Cash(a)' = Cash(a) + (IF s.client = a THEN x * q ELSE 0) - (IF b.client = a THEN x * q ELSE 0)
      /\ Open(a)' = Open(a) - (IF b.client = a THEN y * q ELSE 0)
      /\ account'[a] = account[a]
  BY <1>1 DEF Moved
<1> HIDE DEF x, y
<1>5. 0 * q <= x * q /\ x * q <= y * q /\ x * q \in Int /\ y * q \in Int
  BY <1>3, TimesMonotone
<1> DEFINE paid == x * q
           worth == y * q
<1>6. /\ Pending("cover", a)' = Pending("cover", a) + (IF b.client = a THEN -paid ELSE 0)
      /\ Cash(a)' = Cash(a) + (IF s.client = a THEN paid ELSE 0) - (IF b.client = a THEN paid ELSE 0)
      /\ Open(a)' = Open(a) - (IF b.client = a THEN worth ELSE 0)
      /\ 0 <= paid /\ paid <= worth /\ paid \in Int /\ worth \in Int
  BY <1>3, <1>4, <1>5
<1> HIDE DEF paid, worth
<1>7. /\ Pending("cover", a) \in Int /\ Cash(a) \in Int /\ Open(a) \in Int
      /\ account[a].reserved \in Int /\ account[a].units \in Int
  BY MoneyTyped
<1>8. Spare(a)' >= Spare(a)
  BY <1>6, <1>7 DEF Spare
<1>9. Secured(a) => Secured(a)'
  BY <1>4, <1>6, <1>7 DEF Secured
<1> QED  BY <1>4, <1>7, <1>8, <1>9 DEF Improves

LEMMA ExpireImproves ==
  ASSUME Typed, Grid, Expire, NEW a \in Agents
  PROVE  Improves(a)
<1> DEFINE w == Weight(taker, a, "Buy")
<1>1. /\ taker \in EngineOrders /\ w \in Int
      /\ account'[a] = account[a]
      /\ Pending("cover", a)' = Pending("cover", a) - w
      /\ Open(a)' = Open(a) - w
      /\ Cash(a)' = Cash(a)
  BY ExpireMoney
<1>2. w >= 0
  <2>1. OnGrid(taker)
    BY DEF Expire, Engine!Expire, Grid, EngineOnGrid
  <2> QED  BY <1>1, <2>1, OnGridWeight
<1>3. /\ Pending("cover", a) \in Int /\ Cash(a) \in Int /\ Open(a) \in Int
      /\ account[a].reserved \in Int /\ account[a].units \in Int
  BY MoneyTyped
<1> HIDE DEF w
<1>4. Spare(a)' >= Spare(a)
  BY <1>1, <1>2, <1>3 DEF Spare
<1>5. Secured(a) => Secured(a)'
  BY <1>1, <1>3 DEF Secured
<1> QED  BY <1>1, <1>3, <1>4, <1>5 DEF Improves

LEMMA PopTradeImproves ==
  ASSUME Typed, Grid, NEW b \in Agents, PopTrade(b), NEW a \in Agents
  PROVE  Improves(a)
<1> DEFINE r == Head(inbox[b])
<1>1. CASE a # b
  <2>1. SameMail(a) /\ account'[a] = account[a] /\ SameMoney(a)
    BY <1>1, PopTradeMoney
  <2> QED  BY <2>1, SameImproves
<1>2. CASE a = b
  <2>1. /\ r \in AllReports
        /\ \A c \in Components : Pending(c, a)' = Pending(c, a) - Change(c, r)
        /\ account'[a].reserved = account[a].reserved + Change("reserved", r)
        /\ account'[a].units = account[a].units + Change("units", r)
        /\ SameMoney(a)
    BY <1>2, PopTradeMoney
  <2>2. r \in FairReports
    BY GridPopTrade
  <2> HIDE DEF r
  <2>3. /\ Change("cover", r) <= Change("reserved", r) /\ Change("units", r) >= 0
        /\ Change("cover", r) \in Int /\ Change("reserved", r) \in Int /\ Change("units", r) \in Int
    BY <2>2, FairChange
  <2>4. Pending("cover", a)' = Pending("cover", a) - Change("cover", r)
    BY <2>1 DEF Components
  <2>5. /\ Pending("cover", a) \in Int /\ Cash(a) \in Int /\ Open(a) \in Int
        /\ account[a].reserved \in Int /\ account[a].units \in Int
    BY MoneyTyped
  <2>6. Cash(a)' = Cash(a) /\ Open(a)' = Open(a)
    BY <2>1 DEF SameMoney
  <2>7. Spare(a)' >= Spare(a)
    BY <2>5, <2>6 DEF Spare
  <2>8. Secured(a) => Secured(a)'
    BY <2>1, <2>3, <2>4, <2>5, <2>6 DEF Secured
  <2>9. account'[a].units >= account[a].units
    BY <2>1, <2>3, <2>5
  <2> QED  BY <2>7, <2>8, <2>9 DEF Improves
<1> QED  BY <1>1, <1>2

\* No step but a push takes anything from anybody.
LEMMA OthersImprove ==
  ASSUME Sound, Grid, [Next]_vars, ~PushOrder, NEW a \in Agents
  PROVE  Improves(a)
<1>1. Typed
  BY DEF Sound
<1>2. ASSUME UNCHANGED <<account, inbox, lost, orders, dropped, book, taker>> PROVE Improves(a)
  <2>1. SameMail(a) /\ SameMoney(a)
    BY <1>2, SameEngine, MoneyUnchanged
  <2> QED  BY <1>1, <1>2, <2>1, SameImproves
<1>3. CASE UNCHANGED vars \/ MarketRest \/ ReturnCancel
  BY <1>2, <1>3 DEF vars, agentVars, engineVars, MarketRest, ReturnCancel, NoReport,
                    Engine!Delivered
<1>4. ASSUME NEW b \in Agents, NEW aims \in Aims(b), NEW v \in Wanted(b), Act(b, aims, v) PROVE Improves(a)
  BY <1>2, <1>4 DEF Act, Engine!Delivered
<1>5. ASSUME NEW b \in Agents, PopTrade(b) PROVE Improves(a)
  BY <1>1, <1>5, PopTradeImproves
<1>6. CASE PopOrder
  <2>1. SameMail(a) /\ SameMoney(a)
    BY <1>1, <1>6, PopOrderMoney
  <2>2. account' = account
    BY <1>6 DEF PopOrder, agentVars
  <2> QED  BY <1>1, <2>1, <2>2, SameImproves
<1>7. ASSUME NEW m \in book, Trade(m) PROVE Improves(a)
  BY <1>1, <1>7, TradeImproves
<1>8. CASE Rest \/ Finish
  <2>1. SameMail(a) /\ SameMoney(a)
    BY <1>1, <1>8, RestMoney
  <2>2. account' = account
    BY <1>8 DEF Rest, Finish, agentVars
  <2> QED  BY <1>1, <2>1, <2>2, SameImproves
<1>9. CASE Expire
  BY <1>1, <1>9, ExpireImproves
<1> QED  BY <1>3, <1>4, <1>5, <1>6, <1>7, <1>8, <1>9 DEF Next, EngineStep

\* The orders of a that RunOutgoingLoop has still to push.
Asked(a) ==
  {outgoing[k] : k \in {j \in DOMAIN outgoing : outgoing[j].type # "CANCEL" /\ outgoing[j].client = a}}

\* What the agent looked at is still there.
Affords(a, o) ==
  IF o.side = "Sell"
    THEN account[a].units >= IF a \in RandomAgents THEN 1 ELSE Lot
    ELSE IF a \in RandomAgents
      THEN o.price \in LimitPrices /\ Spare(a) >= Cents(o.price)
      ELSE Spare(a) >= Cents(o.price) * Lot

Backed(a) ==
  /\ \A o \in Asked(a) : Affords(a, o)
  /\ \A o, r \in Asked(a) : o.side = r.side => o = r

Bounded(a) ==
  /\ account[a].units >= IF a \in RandomAgents THEN 1 - Lot ELSE 0
  /\ \/ Spare(a) >= 0
     \/ a \in RandomAgents /\ \E p \in LimitPrices : Spare(a) >= (1 - Lot) * Cents(p)

Solvent(a) == Secured(a) /\ Bounded(a) /\ Backed(a)

LEMMA CentsTyped == ASSUME NEW p \in Int, NEW q \in Int PROVE Cents(p) \in Int /\ q * Cents(p) \in Int /\ Cents(p) * q \in Int
<1>1. Cents(p) \in Int
  BY DEF Cents
<1> DEFINE c == Cents(p)
<1> HIDE DEF c
<1>2. c \in Int => q * c \in Int /\ c * q \in Int
  OBVIOUS
<1> QED  BY <1>1, <1>2 DEF c

LEMMA AskedTyped ==
  ASSUME Typed, NEW a
  PROVE  \A o \in Asked(a) : /\ o \in OrderForms(PoolNodes) /\ o.client = a
                             /\ o.type # "CANCEL" /\ o.price \in Int /\ o.qty = Lot
<1> SUFFICES ASSUME NEW k \in DOMAIN outgoing, outgoing[k].type # "CANCEL", outgoing[k].client = a
             PROVE  /\ outgoing[k] \in OrderForms(PoolNodes) /\ outgoing[k].price \in Int
                    /\ outgoing[k].qty = Lot
  BY DEF Asked
<1> DEFINE o == outgoing[k]
<1>1. o \in Forms
  BY ElementOfSeq, LenProperties DEF Typed, OrdersTyped
<1> HIDE DEF o
<1>2. o.type # "CANCEL" => o \in OrderForms(PoolNodes)
  BY <1>1, FormFacts
<1>3. o \in OrderForms(PoolNodes) => o.price \in AskedPrices /\ o.qty = Lot
  BY DEF OrderForms
<1> QED  BY <1>2, <1>3, AskedPricesTyped DEF o

LEMMA SpareTyped == Typed => \A a \in Agents : Spare(a) \in Int /\ account[a].units \in Int
<1> SUFFICES ASSUME Typed, NEW a \in Agents PROVE Spare(a) \in Int /\ account[a].units \in Int
  OBVIOUS
<1>1. Cash(a) \in Int /\ Open(a) \in Int /\ account[a].units \in Int
  BY MoneyTyped
<1> QED  BY <1>1 DEF Spare

LEMMA SpareTypedNext ==
  ASSUME Typed'
  PROVE  \A a \in Agents : Spare(a)' \in Int /\ account'[a].units \in Int
<1>1. (\A a \in Agents : Spare(a) \in Int /\ account[a].units \in Int)'
  BY SpareTyped, PTL
<1> QED  BY <1>1

\* Nothing becomes too little by growing.
LEMMA MoreIsFine ==
  ASSUME Typed, Typed', NEW a \in Agents, Spare(a)' >= Spare(a), account'[a].units >= account[a].units
  PROVE  /\ Bounded(a) => Bounded(a)'
         /\ \A o : o.price \in Int /\ Affords(a, o) => Affords(a, o)'
<1>1. /\ Spare(a) \in Int /\ account[a].units \in Int
      /\ Spare(a)' \in Int /\ account'[a].units \in Int
  BY SpareTyped, SpareTypedNext
<1> DEFINE s == Spare(a)
           t == Spare(a)'
           u == account[a].units
           v == account'[a].units
<1>2. s \in Int /\ t \in Int /\ u \in Int /\ v \in Int /\ s <= t /\ u <= v
  BY <1>1
<1>3. ASSUME NEW p \in Int
      PROVE  /\ s >= (1 - Lot) * Cents(p) => t >= (1 - Lot) * Cents(p)
             /\ s >= Cents(p) => t >= Cents(p)
             /\ s >= Cents(p) * Lot => t >= Cents(p) * Lot
  <2> DEFINE x == (1 - Lot) * Cents(p)
             y == Cents(p)
             z == Cents(p) * Lot
  <2>1. x \in Int /\ y \in Int /\ z \in Int
    <3>1. 1 - Lot \in Int /\ Lot \in Int
      OBVIOUS
    <3> QED  BY <3>1, CentsTyped
  <2> HIDE DEF x, y, z, s, t, u, v
  <2>2. (s >= x => t >= x) /\ (s >= y => t >= y) /\ (s >= z => t >= z)
    BY <1>2, <2>1
  <2> QED  BY <2>2 DEF x, y, z
<1>4. Bounded(a) => Bounded(a)'
  <2> SUFFICES ASSUME Bounded(a) PROVE Bounded(a)'
    OBVIOUS
  <2>1. v >= IF a \in RandomAgents THEN 1 - Lot ELSE 0
    BY <1>2 DEF Bounded
  <2>2. \/ t >= 0
        \/ a \in RandomAgents /\ \E p \in LimitPrices : t >= (1 - Lot) * Cents(p)
    <3>1. CASE s >= 0
      BY <1>2, <3>1
    <3>2. CASE a \in RandomAgents /\ \E p \in LimitPrices : s >= (1 - Lot) * Cents(p)
      <4>1. LimitPrices \subseteq Int
        OBVIOUS
      <4> QED  BY <1>3, <3>2, <4>1
    <3> QED  BY <3>1, <3>2 DEF Bounded
  <2> QED  BY <2>1, <2>2 DEF Bounded
<1>5. ASSUME NEW o, o.price \in Int, Affords(a, o) PROVE Affords(a, o)'
  <2>1. CASE o.side = "Sell"
    BY <1>2, <1>5, <2>1 DEF Affords
  <2>2. CASE o.side # "Sell"
    BY <1>3, <1>5, <2>2 DEF Affords
  <2> QED  BY <2>1, <2>2
<1> QED  BY <1>4, <1>5

LEMMA AskedTail ==
  ASSUME outgoing \in Seq(Forms), outgoing # <<>>, Distinct(outgoing), outgoing' = Tail(outgoing), NEW a
  PROVE  /\ Asked(a)' \subseteq Asked(a) \ {Head(outgoing)}
         /\ Head(outgoing).type # "CANCEL" /\ Head(outgoing).client = a => Head(outgoing) \in Asked(a)
<1> DEFINE t == Tail(outgoing)
           h == Head(outgoing)
<1>1. /\ Len(outgoing) \in Nat /\ Len(outgoing) >= 1 /\ DOMAIN outgoing = 1 .. Len(outgoing)
      /\ DOMAIN t = 1 .. Len(outgoing) - 1
      /\ \A k \in 1 .. Len(outgoing) - 1 : t[k] = outgoing[k + 1]
      /\ h = outgoing[1]
  BY HeadTailProperties, LenProperties, EmptySeq
<1>2. h.index \notin Nodes(t)
  BY TailNodes
<1>3. Asked(a)' = {t[k] : k \in {j \in DOMAIN t : t[j].type # "CANCEL" /\ t[j].client = a}}
  BY DEF Asked
<1> HIDE DEF t, h
<1>4. ASSUME NEW k \in DOMAIN t, t[k].type # "CANCEL", t[k].client = a
      PROVE  t[k] \in Asked(a) /\ t[k] # h
  <2>1. k + 1 \in DOMAIN outgoing /\ t[k] = outgoing[k + 1]
    BY <1>1
  <2>2. t[k] \in Asked(a)
    BY <1>4, <2>1 DEF Asked
  <2>3. t[k].index \in Nodes(t)
    BY DEF Nodes
  <2> QED  BY <1>2, <2>2, <2>3
<1>5. h.type # "CANCEL" /\ h.client = a => h \in Asked(a)
  <2>1. 1 \in DOMAIN outgoing
    BY <1>1
  <2> QED  BY <1>1, <2>1 DEF Asked
<1>6. Asked(a)' \subseteq Asked(a) \ {h}
  BY <1>3, <1>4
<1> QED  BY <1>5, <1>6 DEF h

LEMMA SolventInit == Init => \A a \in Agents : Solvent(a)
<1> SUFFICES ASSUME Init, NEW a \in Agents PROVE Solvent(a)
  OBVIOUS
<1>1. /\ account[a].available = InitialCash /\ account[a].reserved = 0 /\ account[a].units = InitialUnits
      /\ inbox[a] = <<>> /\ lost[a] = <<>> /\ orders = <<>> /\ outgoing = <<>>
      /\ book = {} /\ taker = NoTaker
  BY DEF Init, Engine!Init
<1>2. \A c : Pending(c, a) = 0
  <2>1. \A c : MailSum(c, inbox[a]) = 0 /\ MailSum(c, lost[a]) = 0
    BY <1>1, MailSumEmpty
  <2> QED  BY <2>1 DEF Pending
<1>3. Open(a) = 0
  <2>1. WaitingWorth(orders, a, "Buy") = 0
    BY <1>1, WaitingEmpty
  <2>2. InEngine(a, "Buy") = {}
    BY <1>1 DEF InEngine
  <2>3. InEngineWorth(a, "Buy") = 0
    BY <2>2, SumEmpty DEF InEngineWorth
  <2> QED  BY <2>1, <2>3 DEF Open
<1>4. Secured(a)
  BY <1>1, <1>2, <1>3 DEF Secured
<1>5. Spare(a) = InitialCash
  BY <1>1, <1>2, <1>3 DEF Spare, Cash
<1>6. Bounded(a)
  BY <1>1, <1>5 DEF Bounded
<1>7. Backed(a)
  BY <1>1 DEF Backed, Asked
<1> QED  BY <1>4, <1>6, <1>7 DEF Solvent

\* What an agent has in hand when it decides is not promised to anybody.
LEMMA SolventAct ==
  ASSUME Sound, Sound', Grid, NEW b \in Agents, NEW aims \in Aims(b), NEW v \in Wanted(b), Act(b, aims, v),
         NEW a \in Agents, Solvent(a), Improves(a)
  PROVE  Backed(a)'
<1>1. Typed /\ HeldOnce /\ Typed'
  BY DEF Sound
<1>2. account' = account
  BY DEF Act
<1>3. Asked(a)' = {outgoing'[k] : k \in {j \in DOMAIN outgoing' :
                                          outgoing'[j].type # "CANCEL" /\ outgoing'[j].client = a}}
  BY DEF Asked
<1>4. /\ \A k \in DOMAIN outgoing' :
              /\ outgoing'[k].client = b
              /\ outgoing'[k].type # "CANCEL" => Looked(b, outgoing'[k])
      /\ \A j, k \in DOMAIN outgoing' :
              /\ outgoing'[j].type # "CANCEL" /\ outgoing'[k].type # "CANCEL"
              /\ outgoing'[j].side = outgoing'[k].side
              => j = k
  BY <1>1, TurnFacts
<1>5. CASE a # b
  BY <1>3, <1>4, <1>5 DEF Backed
<1>6. CASE a = b
  <2>1. Spare(a)' >= account[a].available
    <3>1. Pending("cover", a) <= Pending("available", a) + Pending("reserved", a)
      BY <1>1, FairPending DEF Grid, Typed
    <3>2. /\ account[a].available \in Int /\ account[a].reserved \in Int
          /\ Pending("available", a) \in Int /\ Pending("reserved", a) \in Int
          /\ Pending("cover", a) \in Int /\ Open(a) \in Int
      BY <1>1, MoneyTyped
    <3>3. Spare(a) >= account[a].available
      BY <3>1, <3>2 DEF Solvent, Secured, Spare, Cash
    <3>4. Spare(a)' >= Spare(a) /\ Spare(a) \in Int /\ Spare(a)' \in Int
      BY <1>1, SpareTyped, SpareTypedNext DEF Improves
    <3> QED  BY <3>2, <3>3, <3>4
  <2>2. ASSUME NEW o \in Asked(a)'
        PROVE  Affords(a, o)'
    <3>1. PICK k \in DOMAIN outgoing' : outgoing'[k].type # "CANCEL" /\ o = outgoing'[k]
      BY <1>3
    <3>2. Looked(a, o)
      BY <1>4, <1>6, <3>1
    <3>3. o.price \in Int
      <4>1. o \in Forms
        BY <1>1, <3>1, ElementOfSeq, LenProperties DEF Typed, OrdersTyped
      <4>2. o \in OrderForms(PoolNodes)
        BY <3>1, <4>1, FormFacts
      <4>3. o.price \in AskedPrices
        BY <4>2 DEF OrderForms
      <4> QED  BY <4>3, AskedPricesTyped
    <3>4. Cents(o.price) \in Int /\ Cents(o.price) * Lot \in Int
      <4>1. Lot \in Int
        OBVIOUS
      <4> QED  BY <3>3, <4>1, CentsTyped
    <3>5. Spare(a)' \in Int /\ account[a].available \in Int
      BY <1>1, SpareTypedNext, MoneyTyped
    <3>6. CASE o.side = "Sell"
      BY <1>2, <3>2, <3>6 DEF Looked, Affords
    <3>7. CASE o.side # "Sell"
      <4>1. CASE a \in RandomAgents
        <5>1. account[a].available >= Cents(o.price) /\ o.price \in LimitPrices
          BY <3>2, <3>7, <4>1 DEF Looked
        <5>2. Spare(a)' >= Cents(o.price)
          BY <2>1, <3>4, <3>5, <5>1
        <5> QED  BY <3>7, <4>1, <5>1, <5>2 DEF Affords
      <4>2. CASE a \notin RandomAgents
        <5>1. account[a].available >= Cents(o.price) * Lot
          BY <3>2, <3>7, <4>2 DEF Looked
        <5> DEFINE c == Cents(o.price) * Lot
        <5>2. c \in Int /\ account[a].available >= c
          BY <3>4, <5>1
        <5> HIDE DEF c
        <5>3. Spare(a)' >= c
          BY <2>1, <3>5, <5>2
        <5> QED  BY <3>7, <4>2, <5>3 DEF Affords, c
      <4> QED  BY <4>1, <4>2
    <3> QED  BY <3>6, <3>7
  <2>3. \A o \in Asked(a)' : Affords(a, o)'
    BY <2>2
  <2>4. \A o, r \in Asked(a)' : o.side = r.side => o = r
    BY <1>3, <1>4
  <2> QED  BY <2>3, <2>4 DEF Backed
<1> QED  BY <1>5, <1>6

\* Every other step leaves what is asked for as it is.
LEMMA SolventKept ==
  ASSUME Typed, Typed', NEW a \in Agents, Solvent(a), Improves(a), outgoing' = outgoing
  PROVE  Solvent(a)'
<1>1. Spare(a)' >= Spare(a) /\ account'[a].units >= account[a].units /\ Secured(a)'
  BY DEF Improves, Solvent
<1>2. Bounded(a)' /\ (\A o : o.price \in Int /\ Affords(a, o) => Affords(a, o)')
  BY <1>1, MoreIsFine DEF Solvent
<1>3. Asked(a)' = Asked(a)
  BY DEF Asked
<1>4. \A o \in Asked(a) : o.price \in Int
  BY AskedTyped
<1>5. Backed(a)'
  BY <1>2, <1>3, <1>4 DEF Solvent, Backed
<1> QED  BY <1>1, <1>2, <1>5 DEF Solvent

\* The step that spends: an agent looked at one unit, or at the cost of one, and
\* gives away Lot.
LEMMA SolventPush ==
  ASSUME Sound, Sound', Grid, PushOrder, NEW a \in Agents, Solvent(a)
  PROVE  Solvent(a)'
<1> DEFINE h == Head(outgoing)
           buys == Weight(h, a, "Buy")
           sells == Weight(h, a, "Sell")
<1>1. Typed /\ Typed' /\ HeldOnce
  BY DEF Sound
<1>2. /\ outgoing \in Seq(Forms) /\ outgoing # <<>> /\ Distinct(outgoing) /\ outgoing' = Tail(outgoing)
  BY <1>1 DEF PushOrder, Typed, OrdersTyped, HeldOnce
<1>3. h \in Forms /\ (h.type # "CANCEL" => OnGrid(h))
  BY <1>2, TailNodes, GridTail DEF Grid
<1>4. /\ Pending("cover", a)' = Pending("cover", a) /\ Cash(a)' = Cash(a)
      /\ buys \in Int /\ sells \in Int
      /\ account'[a].reserved = account[a].reserved + buys
      /\ account'[a].units = account[a].units - sells
      /\ Open(a)' \in {Open(a), Open(a) + buys}
  BY <1>1, PushMoney DEF SameMail, Components
<1>5. buys >= 0
  BY <1>3, OnGridWeight
<1>6. /\ Asked(a)' \subseteq Asked(a) \ {h}
      /\ h.type # "CANCEL" /\ h.client = a => h \in Asked(a)
  BY <1>2, AskedTail
<1>7. /\ Pending("cover", a) \in Int /\ Cash(a) \in Int /\ Open(a) \in Int
      /\ account[a].reserved \in Int /\ account[a].units \in Int
  BY <1>1, MoneyTyped
<1>8. \A o \in Asked(a) : o \in OrderForms(PoolNodes) /\ o.price \in Int /\ o.qty = Lot
  BY <1>1, AskedTyped
<1> HIDE DEF buys, sells
<1>9. Secured(a)'
  <2>1. Secured(a)
    BY DEF Solvent
  <2> QED  BY <1>4, <1>5, <1>7, <2>1 DEF Secured
<1>10. Spare(a)' \in {Spare(a), Spare(a) - buys} /\ Spare(a) \in Int
  BY <1>4, <1>7 DEF Spare
<1> HIDE DEF h
<1>11. CASE h.type = "CANCEL" \/ h.client # a
  <2>1. buys = 0 /\ sells = 0
    BY <1>11 DEF buys, sells, Weight
  <2>2. Spare(a)' >= Spare(a) /\ account'[a].units >= account[a].units
    BY <1>4, <1>7, <1>10, <2>1
  <2>3. Bounded(a)' /\ (\A o : o.price \in Int /\ Affords(a, o) => Affords(a, o)')
    BY <1>1, <2>2, MoreIsFine DEF Solvent
  <2>4. Backed(a)'
    BY <1>6, <1>8, <2>3 DEF Solvent, Backed
  <2> QED  BY <1>9, <2>3, <2>4 DEF Solvent
<1>12. CASE h.type # "CANCEL" /\ h.client = a
  <2>1. h \in Asked(a) /\ Affords(a, h)
    BY <1>6, <1>12 DEF Solvent, Backed
  <2>2. h.side \in {"Buy", "Sell"} /\ h.price \in Int /\ h.qty = Lot
    BY <1>8, <2>1 DEF OrderForms, Sides
  <2>3. \A o \in Asked(a)' : o \in Asked(a) /\ o.side # h.side /\ Affords(a, o)
                             /\ o.side \in {"Buy", "Sell"}
    BY <1>6, <1>8, <2>1 DEF Solvent, Backed, OrderForms, Sides
  <2>4. \A o, r \in Asked(a)' : o.side = r.side => o = r
    BY <1>6 DEF Solvent, Backed
  <2>5. CASE h.side = "Sell"
    <3>1. buys = 0 /\ sells = Lot
      BY <1>12, <2>2, <2>5 DEF buys, sells, Weight, Worth
    <3>2. Spare(a)' = Spare(a) /\ account'[a].units = account[a].units - Lot
      BY <1>4, <1>10, <3>1
    <3>3. account'[a].units >= IF a \in RandomAgents THEN 1 - Lot ELSE 0
      <4>1. account[a].units >= IF a \in RandomAgents THEN 1 ELSE Lot
        BY <2>1, <2>5 DEF Affords
      <4> QED  BY <1>7, <3>2, <4>1
    <3>4. Bounded(a)'
      BY <3>2, <3>3 DEF Solvent, Bounded
    <3>5. \A o \in Asked(a)' : o.side = "Buy" /\ Affords(a, o)
      BY <2>3, <2>5
    <3>6. \A o \in Asked(a)' : Affords(a, o)'
      BY <3>2, <3>5 DEF Affords
    <3> QED  BY <1>9, <2>4, <3>4, <3>6 DEF Solvent, Backed
  <2>6. CASE h.side = "Buy"
    <3> DEFINE c == Cents(h.price)
    <3>1. buys = c * Lot /\ sells = 0
      BY <1>12, <2>2, <2>6 DEF buys, sells, Weight, Worth
    <3>2. account'[a].units = account[a].units
      BY <1>4, <1>7, <3>1
    <3>3. c \in Int /\ c * Lot \in Int /\ (1 - Lot) * c \in Int /\ (1 - Lot) * c = c - c * Lot
      <4>1. Lot \in Int /\ 1 - Lot \in Int
        OBVIOUS
      <4>2. c \in Int /\ c * Lot \in Int /\ (1 - Lot) * c \in Int
        BY <2>2, <4>1, CentsTyped
      <4> HIDE DEF c
      <4>3. (1 - Lot) * c = c - c * Lot
        BY <4>1, <4>2
      <4> QED  BY <4>2, <4>3
    <3>4. \/ Spare(a)' >= 0
          \/ a \in RandomAgents /\ \E p \in LimitPrices : Spare(a)' >= (1 - Lot) * Cents(p)
      <4>1. CASE a \in RandomAgents
        <5>1. h.price \in LimitPrices /\ Spare(a) >= c
          BY <2>1, <2>6, <4>1 DEF Affords
        <5>2. Spare(a)' >= c - c * Lot
          <6> DEFINE w == c * Lot
          <6>1. w \in Int /\ w >= 0 /\ Spare(a)' \in {Spare(a), Spare(a) - w}
            BY <1>5, <1>10, <3>1, <3>3
          <6> HIDE DEF w, c
          <6>2. Spare(a)' >= c - w
            BY <1>10, <3>3, <5>1, <6>1
          <6> QED  BY <6>2 DEF w
        <5>3. Spare(a)' >= (1 - Lot) * Cents(h.price)
          BY <3>3, <5>2
        <5> QED  BY <4>1, <5>1, <5>3
      <4>2. CASE a \notin RandomAgents
        <5> DEFINE w == c * Lot
        <5>1. Spare(a) >= w
          BY <2>1, <2>6, <4>2 DEF Affords
        <5>2. w \in Int /\ w >= 0 /\ Spare(a)' \in {Spare(a), Spare(a) - w}
          BY <1>5, <1>10, <3>1, <3>3
        <5> HIDE DEF w, c
        <5> QED  BY <1>10, <5>1, <5>2
      <4> QED  BY <4>1, <4>2
    <3>5. Bounded(a)'
      BY <3>2, <3>4 DEF Solvent, Bounded
    <3>6. \A o \in Asked(a)' : o.side = "Sell" /\ Affords(a, o)
      BY <2>3, <2>6
    <3>7. \A o \in Asked(a)' : Affords(a, o)'
      BY <3>2, <3>6 DEF Affords
    <3> QED  BY <1>9, <2>4, <3>5, <3>7 DEF Solvent, Backed
  <2> QED  BY <2>2, <2>5, <2>6
<1> QED  BY <1>11, <1>12

LEMMA SolventStep ==
  ASSUME Sound, Sound', Grid, [Next]_vars, NEW a \in Agents, Solvent(a)
  PROVE  Solvent(a)'
<1>1. Typed /\ Typed'
  BY DEF Sound
<1>2. CASE PushOrder
  BY <1>2, SolventPush
<1>3. CASE ~PushOrder
  <2>1. Improves(a)
    BY <1>3, OthersImprove
  <2>2. CASE outgoing' = outgoing
    BY <1>1, <2>1, <2>2, SolventKept
  <2>3. CASE outgoing' # outgoing
    <3>1. PICK b \in Agents : \E aims \in Aims(b), v \in Wanted(b) : Act(b, aims, v)
      BY <1>3, <2>3 DEF Next, EngineStep, PopTrade, PopOrder, Trade, Rest, MarketRest, Expire,
                        ReturnCancel, Finish, vars, agentVars
    <3>2. Backed(a)'
      BY <2>1, <3>1, SolventAct
    <3>3. Spare(a)' >= Spare(a) /\ account'[a].units >= account[a].units /\ Secured(a)'
      BY <2>1 DEF Improves, Solvent
    <3>4. Bounded(a)'
      BY <1>1, <3>3, MoreIsFine DEF Solvent
    <3> QED  BY <3>2, <3>3, <3>4 DEF Solvent
  <2> QED  BY <2>2, <2>3
<1> QED  BY <1>2, <1>3

AllSolvent == \A a \in Agents : Solvent(a)

LEMMA OnGridStep ==
  Sound /\ Sound' /\ Grid /\ AllSolvent /\ QuotesOnGrid' /\ [Next]_vars => Grid' /\ AllSolvent'
<1> SUFFICES ASSUME Sound, Sound', Grid, AllSolvent, QuotesOnGrid', [Next]_vars
             PROVE  Grid' /\ AllSolvent'
  OBVIOUS
<1>1. Grid'
  BY GridStep
<1>2. ASSUME NEW a \in Agents PROVE Solvent(a)'
  BY SolventStep DEF AllSolvent
<1> QED  BY <1>1, <1>2 DEF AllSolvent

LEMMA SolventMeans == Sound /\ Grid /\ AllSolvent => ReservedCovers /\ DebtIsBounded
<1> SUFFICES ASSUME Sound, Grid, AllSolvent, NEW a \in Agents
             PROVE  /\ Settled(a).reserved >= Committed(a)
                    /\ Settled(a).available + Settled(a).reserved - Committed(a) = Spare(a)
                    /\ Bounded(a)
  BY DEF ReservedCovers, DebtIsBounded, Bounded
<1>1. Typed
  BY DEF Sound
<1>2. /\ Settled(a).available = account[a].available + Pending("available", a)
      /\ Settled(a).reserved = account[a].reserved + Pending("reserved", a)
  BY <1>1, SettledFacts
<1>3. Committed(a) = Open(a)
  BY DEF Committed, Open
<1>4. /\ account[a].available \in Int /\ account[a].reserved \in Int
      /\ Pending("available", a) \in Int /\ Pending("reserved", a) \in Int
      /\ Pending("cover", a) \in Int /\ Open(a) \in Int
  BY <1>1, MoneyTyped
<1>5. Pending("cover", a) <= Pending("reserved", a)
  BY <1>1, FairPending DEF Grid, Typed
<1>6. account[a].reserved + Pending("cover", a) >= Open(a) /\ Bounded(a)
  BY DEF AllSolvent, Solvent, Secured
<1>7. Settled(a).reserved >= Committed(a)
  BY <1>2, <1>3, <1>4, <1>5, <1>6
<1>8. Settled(a).available + Settled(a).reserved - Committed(a) = Spare(a)
  BY <1>2, <1>3, <1>4 DEF Spare, Cash
<1> QED  BY <1>6, <1>7, <1>8

LEMMA AlwaysSolvent == Spec => ([]QuotesOnGrid => [](ReservedCovers /\ DebtIsBounded))
<1>1. Init => Grid /\ AllSolvent
  BY GridInit, SolventInit DEF AllSolvent
<1>2. Sound /\ Sound' /\ Grid /\ AllSolvent /\ QuotesOnGrid' /\ [Next]_vars => Grid' /\ AllSolvent'
  BY OnGridStep
<1>3. Sound /\ Grid /\ AllSolvent => ReservedCovers /\ DebtIsBounded
  BY SolventMeans
<1>4. Spec => []Sound
  BY SoundAlways
<1> QED  BY <1>1, <1>2, <1>3, <1>4, PTL DEF Spec

\* What every agent has reserved pays for its open buy orders, with mail in flight,
\* mail lost and orders dropped, in every behaviour in which no agent asks for a
\* price off the grid (Agent.cpp:73-180).
THEOREM ReservesCoverOrders == Spec => ([]QuotesOnGrid => []ReservedCovers)
BY AlwaysSolvent, PTL

\* No agent owes more than the units it did not look at when it decided, under the
\* same condition (AgentStrategy.cpp:43-44, 156, 174, 240-246, Agent.cpp:73-101).
THEOREM DebtsBounded == Spec => ([]QuotesOnGrid => []DebtIsBounded)
BY AlwaysSolvent, PTL

=============================================================================
