------------------------------ MODULE OrderPool ------------------------------
(***************************************************************************)
(* OrderPool.h: the free nodes of a vector of orders, linked through the   *)
(* nodes themselves, last in, first out. allocate and deallocate hold the  *)
(* pool's mutex, so each is one function of the pool. deallocate checks    *)
(* nothing: the list stays a list only if nobody returns a node twice.     *)
(***************************************************************************)
EXTENDS Integers, Sequences

CONSTANT PoolSize   \* MAX_ORDERS, fifty million in the code

ASSUME PoolAssumption == PoolSize \in Nat \ {0}

PoolNodes == 0 .. PoolSize - 1
NoNode == -1        \* INVALID_POOL_INDEX

Pools == [free_head : PoolNodes \union {NoNode},
          next_free : [PoolNodes -> PoolNodes \union {NoNode}]]

InitialPool ==
  [free_head |-> 0,
   next_free |-> [i \in PoolNodes |-> IF i = PoolSize - 1 THEN NoNode ELSE i + 1]]

Exhausted(pool) == pool.free_head = NoNode

\* The node that allocate() returns, and the pool it leaves.
NextNode(pool) == pool.free_head
Allocated(pool) == [pool EXCEPT !.free_head = pool.next_free[pool.free_head]]

\* The pool before each of n allocations in a row, and after them.
Allocations(pool, n) ==
  LET before[k \in 1 .. n + 1] == IF k = 1 THEN pool ELSE Allocated(before[k - 1])
  IN before

\* Mutant: free_head_ is set before it is copied to the node.
DeallocatedLate(pool, i) ==
  [free_head |-> i, next_free |-> [pool.next_free EXCEPT ![i] = i]]

Deallocated(pool, i) ==
  [free_head |-> i, next_free |-> [pool.next_free EXCEPT ![i] = pool.free_head]]

\* The nodes met on the way from free_head_, cut off at the size of the pool.
FreeList(pool) ==
  LET walk[k \in 0..PoolSize] ==
        IF k = 0 THEN <<>>
        ELSE LET w == walk[k - 1]
                 n == IF w = <<>> THEN pool.free_head ELSE pool.next_free[w[Len(w)]]
             IN IF n = NoNode THEN w ELSE Append(w, n)
  IN walk[PoolSize]

\* L lists the free nodes in the order in which allocate() will return them.
IsFreeList(pool, L) ==
  /\ L \in Seq(PoolNodes)
  /\ \A k, m \in 1..Len(L) : L[k] = L[m] => k = m
  /\ pool.free_head = IF L = <<>> THEN NoNode ELSE L[1]
  /\ \A k \in 1..Len(L) : pool.next_free[L[k]] = IF k = Len(L) THEN NoNode ELSE L[k + 1]

=============================================================================
