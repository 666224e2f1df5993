-------------------------- MODULE FlatHashMapProofs --------------------------
(***************************************************************************)
(* The table answers as a map, for any capacity and any set of keys.       *)
(***************************************************************************)
EXTENDS FlatHashMap, TLAPS

USE CapacityAssumption, KeyAssumption

LEMMA SlotFacts ==
  /\ \A s \in Slots : s \in Int /\ 0 <= s /\ s < Capacity
  /\ \A s \in Int : 0 <= s /\ s < Capacity => s \in Slots
  /\ NoSlot \notin Slots
BY DEF Slots, NoSlot

\* std::hash and the mask lead to an entry of the table.
LEMMA HashInSlots == \A k \in Keys : Hash(k) \in Slots
BY DEF Hash, Slots

LEMMA SuccInSlots == \A s \in Slots : Succ(s) \in Slots
BY DEF Succ, Slots

-----------------------------------------------------------------------------
(* The probe's way around the table                                        *)

LEMMA DistanceRange ==
  ASSUME NEW j \in Slots, NEW s \in Slots
  PROVE  Distance(j, s) \in Slots /\ (Distance(j, s) = 0 <=> s = j)
BY DEF Distance, Slots

LEMMA DistanceIsInjective ==
  ASSUME NEW j \in Slots, NEW s \in Slots, NEW t \in Slots, Distance(j, s) = Distance(j, t)
  PROVE  s = t
BY DEF Distance, Slots

\* One step forward is one step further from the start, or back at it.
LEMMA DistanceOfSucc ==
  ASSUME NEW j \in Slots, NEW s \in Slots
  PROVE  \/ Distance(j, Succ(s)) = Distance(j, s) + 1
         \/ Succ(s) = j /\ Distance(j, s) = Capacity - 1
BY DEF Distance, Slots, Succ

LEMMA NothingPrecedesStart ==
  ASSUME NEW j \in Slots, NEW t \in Slots
  PROVE  ~Precedes(j, t, j)
BY DistanceRange, SlotFacts DEF Precedes

LEMMA PrecedesSucc ==
  ASSUME NEW j \in Slots, NEW s \in Slots, NEW t \in Slots, Precedes(j, t, Succ(s))
  PROVE  Precedes(j, t, s) \/ t = s
<1>1. CASE Distance(j, Succ(s)) = Distance(j, s) + 1
  <2>1. Distance(j, t) \in Int /\ Distance(j, s) \in Int
    BY DistanceRange, SlotFacts
  <2>2. Distance(j, t) < Distance(j, s) \/ Distance(j, t) = Distance(j, s)
    BY <1>1, <2>1 DEF Precedes
  <2> QED  BY <2>2, DistanceIsInjective DEF Precedes
<1>2. CASE Succ(s) = j
  BY <1>2, NothingPrecedesStart
<1> QED BY <1>1, <1>2, DistanceOfSucc

\* Of two slots one comes first.
LEMMA PrecedesIsTotal ==
  ASSUME NEW j \in Slots, NEW s \in Slots, NEW t \in Slots
  PROVE  s = t \/ Precedes(j, s, t) \/ Precedes(j, t, s)
<1>1. Distance(j, s) \in Int /\ Distance(j, t) \in Int
  BY DistanceRange, SlotFacts
<1>2. CASE Distance(j, s) = Distance(j, t)
  BY <1>2, DistanceIsInjective
<1>3. CASE Distance(j, s) # Distance(j, t)
  BY <1>1, <1>3 DEF Precedes
<1> QED  BY <1>2, <1>3

LEMMA PrecedesIsTransitive ==
  ASSUME NEW j \in Slots, NEW s \in Slots, NEW t \in Slots, NEW u \in Slots,
         Precedes(j, s, t), Precedes(j, t, u)
  PROVE  Precedes(j, s, u)
BY DistanceRange, SlotFacts DEF Precedes

-----------------------------------------------------------------------------
(* Entries and requests                                                    *)

LEMMA EntryFacts ==
  ASSUME NEW e \in Entries
  PROVE  /\ e.state \in {"Empty", "Deleted", "Occupied"}
         /\ e.state = "Empty" <=> e = Empty
         /\ e.state = "Deleted" <=> e = Deleted
         /\ e.state = "Occupied" => e.key \in Keys /\ e.value \in Values
BY DEF Entries, Empty, Deleted, Occupied

LEMMA OccupiedFacts ==
  ASSUME NEW k \in Keys, NEW v \in Values
  PROVE  /\ Occupied(k, v) \in Entries
         /\ Occupied(k, v).state = "Occupied"
         /\ Occupied(k, v).key = k
         /\ Occupied(k, v).value = v
         /\ Occupied(k, v) # Empty
<1>1. Occupied(k, v) \in Entries
  BY DEF Entries
<1>2. Occupied(k, v).state = "Occupied" /\ Empty.state = "Empty"
  BY DEF Occupied, Empty
<1> QED  BY <1>1, <1>2 DEF Occupied

LEMMA VacantFacts ==
  /\ Empty \in Entries /\ Empty.state = "Empty"
  /\ Deleted \in Entries /\ Deleted.state = "Deleted" /\ Deleted # Empty
BY DEF Entries, Empty, Deleted

LEMMA RequestFacts ==
  ASSUME NEW r \in Requests
  PROVE  /\ r.key \in Keys
         /\ r # NoCall
         /\ r.op \in {"insert", "find", "erase"}
         /\ r.op = "insert" => r.value \in Values
         /\ r.op # "insert" => r.value = NoValue
BY DEF Requests, Request, NoCall

LEMMA NoCallFacts ==
  NoCall.op = "none"
BY DEF NoCall

-----------------------------------------------------------------------------
(* The invariant                                                           *)

Holds(s, k) == data[s].state = "Occupied" /\ data[s].key = k

\* A probe has met neither an empty entry nor its key on the way to where it
\* is. The tombstone an insert will use again lies behind it, unless the probe
\* has been all the way around, and then there is no empty entry to stop at.
ProbePassed ==
  call # NoCall =>
    /\ \A t \in Slots :
         Precedes(Hash(call.key), t, index) => data[t] # Empty /\ ~Holds(t, call.key)
    /\ firstDeleted # NoSlot =>
         /\ call.op = "insert"
         /\ data[firstDeleted] = Deleted
         /\ \/ Precedes(Hash(call.key), firstDeleted, index)
            \/ \A t \in Slots : data[t] # Empty

MapInv == TypeOK /\ KeysReachable /\ ProbePassed

LEMMA InitMapInv == Init => MapInv
<1> SUFFICES ASSUME Init PROVE MapInv
  OBVIOUS
<1>1. TypeOK
  BY VacantFacts DEF Init, TypeOK, Slots, NoSlot
<1>2. Used = {}
  BY VacantFacts DEF Init, Used
<1>3. KeysReachable
  BY <1>2 DEF KeysReachable
<1>4. ProbePassed
  BY DEF Init, ProbePassed
<1> QED  BY <1>1, <1>3, <1>4 DEF MapInv

LEMMA BeginMapInv ==
  ASSUME MapInv, NEW request \in Requests, Begin(request)
  PROVE  MapInv'
<1>1. request.key \in Keys
  BY RequestFacts
<1>2. TypeOK'
  BY <1>1, HashInSlots DEF MapInv, TypeOK, Begin
<1>3. KeysReachable'
  BY DEF MapInv, KeysReachable, Used, Begin
<1>4. ProbePassed'
  BY <1>1, HashInSlots, NothingPrecedesStart DEF ProbePassed, Begin
<1> QED  BY <1>2, <1>3, <1>4 DEF MapInv

LEMMA AdvanceMapInv == MapInv /\ Advance => MapInv'
<1> SUFFICES ASSUME MapInv, Advance PROVE MapInv'
  OBVIOUS
<1>1. call \in Requests /\ call.key \in Keys /\ index \in Slots
  BY RequestFacts DEF MapInv, TypeOK, Advance
<1>2. TypeOK'
  BY <1>1, SuccInSlots DEF MapInv, TypeOK, Advance
<1>3. KeysReachable'
  BY DEF MapInv, KeysReachable, Used, Advance
<1> DEFINE from == Hash(call.key)
<1>4. from \in Slots
  BY <1>1, HashInSlots
<1>5. data[index] # Empty /\ ~Holds(index, call.key)
  BY DEF Advance, AtEmpty, AtKey, Holds
<1>6. \A t \in Slots : Precedes(from, t, index) => data[t] # Empty /\ ~Holds(t, call.key)
  BY DEF MapInv, ProbePassed, Advance
<1>7. ASSUME NEW t \in Slots, Precedes(from, t, Succ(index))
      PROVE  data[t] # Empty /\ ~Holds(t, call.key)
  BY <1>1, <1>4, <1>5, <1>6, <1>7, PrecedesSucc
<1>8. \/ \A t \in Slots : Precedes(from, t, index) \/ t = index => Precedes(from, t, Succ(index))
      \/ \A t \in Slots : data[t] # Empty
  <2>1. CASE Distance(from, Succ(index)) = Distance(from, index) + 1
    BY <2>1, <1>1, <1>4, DistanceRange, SlotFacts DEF Precedes
  <2>2. CASE Distance(from, index) = Capacity - 1
    <3>1. ASSUME NEW t \in Slots PROVE t = index \/ Precedes(from, t, index)
      <4>1. /\ Distance(from, t) \in Int /\ Distance(from, t) < Capacity
            /\ Distance(from, index) \in Int
        BY <1>1, <1>4, DistanceRange, SlotFacts
      <4>2. ~(Distance(from, index) < Distance(from, t))
        BY <4>1, <2>2
      <4> QED  BY <4>2, <1>1, <1>4, PrecedesIsTotal DEF Precedes
    <3> QED  BY <3>1, <1>5, <1>6
  <2> QED  BY <2>1, <2>2, <1>1, <1>4, DistanceOfSucc
<1>9. ASSUME firstDeleted' # NoSlot
      PROVE  /\ call.op = "insert"
             /\ data[firstDeleted'] = Deleted
             /\ firstDeleted' = index \/ Precedes(from, firstDeleted', index)
                  \/ \A t \in Slots : data[t] # Empty
             /\ firstDeleted' \in Slots
  BY <1>1, <1>9 DEF Advance, Calls, MapInv, ProbePassed, TypeOK
<1>10. ProbePassed'
  <2>1. call' = call /\ index' = Succ(index) /\ data' = data
    BY DEF Advance
  <2> QED  BY <2>1, <1>7, <1>8, <1>9 DEF ProbePassed, Holds
<1> QED  BY <1>2, <1>3, <1>10 DEF MapInv

\* Where a probe stops at an empty entry, the table does not hold its key.
LEMMA AbsentAtEmpty ==
  ASSUME MapInv, call # NoCall, AtEmpty, NEW s \in Used
  PROVE  data[s].key # call.key
<1> SUFFICES ASSUME data[s].key = call.key PROVE FALSE
  OBVIOUS
<1>1. call.key \in Keys /\ index \in Slots /\ s \in Slots
  BY RequestFacts DEF MapInv, TypeOK, Used
<1>2. Hash(call.key) \in Slots
  BY <1>1, HashInSlots
<1>3. CASE s = index
  BY <1>3, VacantFacts DEF AtEmpty, Used
<1>4. CASE Precedes(Hash(call.key), s, index)
  BY <1>1, <1>4 DEF MapInv, ProbePassed, Holds, Used
<1>5. CASE Precedes(Hash(call.key), index, s)
  BY <1>1, <1>5 DEF MapInv, KeysReachable, AtEmpty
<1> QED  BY <1>1, <1>2, <1>3, <1>4, <1>5, PrecedesIsTotal

\* A call that returns leaves no probe behind.
LEMMA ReturnMapInv ==
  ASSUME NEW answer, Return(answer), data' \in [Slots -> Entries], KeysReachable'
  PROVE  MapInv'
<1>1. TypeOK'
  BY DEF TypeOK, Return, Slots
<1>2. ProbePassed'
  BY DEF ProbePassed, Return
<1> QED  BY <1>1, <1>2 DEF MapInv

\* The entry an insert writes: the tombstone it passed, or the empty entry.
Target == IF firstDeleted # NoSlot THEN firstDeleted ELSE index

LEMMA TargetFacts ==
  ASSUME MapInv, Calls("insert"), AtEmpty
  PROVE  /\ call \in Requests /\ call # NoCall
         /\ call.key \in Keys /\ call.value \in Values
         /\ Target \in Slots /\ data[Target].state # "Occupied"
         /\ \A t \in Slots : Precedes(Hash(call.key), t, Target) => data[t] # Empty
<1>1. call \in Requests /\ call # NoCall
  BY NoCallFacts DEF MapInv, TypeOK, Calls
<1>2. call.key \in Keys /\ call.value \in Values
  BY <1>1, RequestFacts DEF Calls
<1>3. index \in Slots /\ Hash(call.key) \in Slots
  BY <1>2, HashInSlots DEF MapInv, TypeOK
<1>4. \A t \in Slots : Precedes(Hash(call.key), t, index) => data[t] # Empty
  BY <1>1 DEF MapInv, ProbePassed
<1>5. CASE firstDeleted = NoSlot
  BY <1>1, <1>2, <1>3, <1>4, <1>5, VacantFacts DEF Target, AtEmpty
<1>6. CASE firstDeleted # NoSlot
  <2>1. firstDeleted \in Slots /\ Target = firstDeleted
    BY <1>6 DEF MapInv, TypeOK, Target
  <2>2. data[firstDeleted] = Deleted /\ Precedes(Hash(call.key), firstDeleted, index)
    BY <1>1, <1>3, <1>6 DEF MapInv, ProbePassed, AtEmpty
  <2> QED  BY <1>1, <1>2, <1>3, <1>4, <2>1, <2>2, VacantFacts, PrecedesIsTransitive
<1> QED  BY <1>5, <1>6

\* The keys stay reachable if a slot that held nothing, or the key itself, gets
\* the key, no other slot holds it and no empty entry lies on the way.
LEMMA WriteKeepsReachable ==
  ASSUME data \in [Slots -> Entries], KeysReachable,
         NEW k \in Keys, NEW v \in Values, NEW s \in Slots,
         data' = [data EXCEPT ![s] = Occupied(k, v)],
         \A t \in Used : data[t].key = k => t = s,
         \A t \in Slots : Precedes(Hash(k), t, s) => data[t] # Empty
  PROVE  data' \in [Slots -> Entries] /\ KeysReachable'
<1>1. data' \in [Slots -> Entries]
  BY OccupiedFacts
<1>2. \A t \in Slots : data'[t] = IF t = s THEN Occupied(k, v) ELSE data[t]
  OBVIOUS
<1>3. \A t \in Slots : data[t] # Empty => data'[t] # Empty
  BY <1>2, OccupiedFacts
<1>4. ASSUME NEW t \in Used', t # s PROVE t \in Used /\ data'[t] = data[t]
  BY <1>2, <1>4 DEF Used
<1>5. data'[s].key = k
  BY <1>2, OccupiedFacts
<1>6. ASSUME NEW t \in Used', NEW u \in Used', data'[u].key = data'[t].key
      PROVE  u = t
  BY <1>4, <1>5, <1>6 DEF KeysReachable
<1>7. ASSUME NEW t \in Used', NEW u \in Slots, Precedes(Hash(data'[t].key), u, t)
      PROVE  data'[u] # Empty
  <2>1. CASE t = s
    BY <1>3, <1>5, <1>7, <2>1
  <2>2. CASE t # s
    BY <1>3, <1>4, <1>7, <2>2 DEF KeysReachable
  <2> QED  BY <2>1, <2>2
<1>8. KeysReachable'
  BY <1>6, <1>7 DEF KeysReachable
<1> QED  BY <1>1, <1>8

LEMMA InsertNewMapInv == MapInv /\ InsertNew => MapInv'
<1> SUFFICES ASSUME MapInv, InsertNew PROVE MapInv'
  OBVIOUS
<1>1. Calls("insert") /\ AtEmpty /\ Return(TRUE)
      /\ data' = [data EXCEPT ![Target] = Occupied(call.key, call.value)]
  BY DEF InsertNew, Target
<1>2. \A t \in Used : data[t].key = call.key => t = Target
  BY <1>1, TargetFacts, AbsentAtEmpty
<1>3. data' \in [Slots -> Entries] /\ KeysReachable'
  BY <1>1, <1>2, TargetFacts, WriteKeepsReachable DEF MapInv, TypeOK
<1> QED  BY <1>1, <1>3, ReturnMapInv

\* What a call finds at its key.
LEMMA AtKeyFacts ==
  ASSUME MapInv, AtKey, call # NoCall
  PROVE  /\ call \in Requests /\ call.key \in Keys
         /\ index \in Slots /\ index \in Used
         /\ data[index] \in Entries /\ data[index].key = call.key
         /\ \A t \in Used : data[t].key = call.key => t = index
         /\ \A t \in Slots : Precedes(Hash(call.key), t, index) => data[t] # Empty
BY RequestFacts DEF MapInv, TypeOK, AtKey, Used, KeysReachable, ProbePassed

LEMMA InsertAgainMapInv == MapInv /\ InsertAgain => MapInv'
<1> SUFFICES ASSUME MapInv, InsertAgain PROVE MapInv'
  OBVIOUS
<1>1. call # NoCall /\ call.op = "insert" /\ AtKey /\ Return(FALSE)
      /\ data' = [data EXCEPT ![index] = Occupied(call.key, call.value)]
  BY NoCallFacts DEF InsertAgain, Calls
<1>2. call.value \in Values
  BY <1>1, AtKeyFacts, RequestFacts
<1>3. data' \in [Slots -> Entries] /\ KeysReachable'
  BY <1>1, <1>2, AtKeyFacts, WriteKeepsReachable DEF MapInv, TypeOK
<1> QED  BY <1>1, <1>3, ReturnMapInv

\* An erased entry becomes a tombstone, which stays in the way of the probes.
LEMMA EraseHitMapInv == MapInv /\ EraseHit => MapInv'
<1> SUFFICES ASSUME MapInv, EraseHit PROVE MapInv'
  OBVIOUS
<1>1. call # NoCall /\ AtKey /\ Return(TRUE) /\ data' = [data EXCEPT ![index] = Deleted]
  BY NoCallFacts DEF EraseHit, Calls
<1>2. data \in [Slots -> Entries] /\ index \in Slots
  BY DEF MapInv, TypeOK
<1>3. data' \in [Slots -> Entries]
  BY <1>1, <1>2, VacantFacts
<1>4. \A t \in Slots : data'[t] = IF t = index THEN Deleted ELSE data[t]
  BY <1>1, <1>2
<1>5. \A t \in Slots : data[t] # Empty => data'[t] # Empty
  BY <1>4, VacantFacts
<1>6. \A t \in Used' : t \in Used /\ data'[t] = data[t]
  BY <1>4, VacantFacts DEF Used
<1>7. KeysReachable'
  BY <1>5, <1>6 DEF MapInv, KeysReachable
<1> QED  BY <1>1, <1>3, <1>7, ReturnMapInv

LEMMA AnswerMapInv ==
  ASSUME MapInv, NEW answer, Return(answer), UNCHANGED data
  PROVE  MapInv'
<1>1. data' \in [Slots -> Entries] /\ KeysReachable'
  BY DEF MapInv, TypeOK, KeysReachable, Used
<1> QED  BY <1>1, ReturnMapInv

\* Probes pass neither an empty entry nor their key (FlatHashMap.h:36-98).
THEOREM MapInvariant == Spec => []MapInv
<1>1. MapInv /\ Step => MapInv'
  <2> SUFFICES ASSUME MapInv, Step PROVE MapInv'
    OBVIOUS
  <2>1. CASE FindHit
    BY <2>1, AnswerMapInv DEF FindHit
  <2>2. CASE FindMiss
    BY <2>2, AnswerMapInv DEF FindMiss
  <2>3. CASE EraseMiss
    BY <2>3, AnswerMapInv DEF EraseMiss
  <2> QED
    BY <2>1, <2>2, <2>3, AdvanceMapInv, InsertNewMapInv, InsertAgainMapInv, EraseHitMapInv DEF Step
<1>2. MapInv /\ UNCHANGED vars => MapInv'
  BY DEF vars, MapInv, TypeOK, KeysReachable, Used, ProbePassed, Holds
<1>3. MapInv /\ [Next]_vars => MapInv'
  BY <1>1, <1>2, BeginMapInv DEF Next
<1> QED
  BY <1>3, InitMapInv, PTL DEF Spec

\* Entries, call and locals stay what they are declared to be.
THEOREM MapTypes == Spec => []TypeOK
<1>1. MapInv => TypeOK
  BY DEF MapInv
<1> QED  BY <1>1, MapInvariant, PTL

\* Every key sits in one slot, and no empty entry hides it (FlatHashMap.h:36-98).
THEOREM MapKeysReachable == Spec => []KeysReachable
<1>1. MapInv => KeysReachable
  BY DEF MapInv
<1> QED  BY <1>1, MapInvariant, PTL

-----------------------------------------------------------------------------
(* The table implements the map                                            *)

LEMMA ContentFacts ==
  ASSUME KeysReachable
  PROVE  /\ Content = [k \in DOMAIN Content |-> Content[k]]
         /\ DOMAIN Content = {data[s].key : s \in Used}
         /\ \A s \in Used : Content[data[s].key] = data[s].value
<1>1. /\ Content = [k \in DOMAIN Content |-> Content[k]]
      /\ DOMAIN Content = {data[s].key : s \in Used}
  BY DEF Content
<1>2. ASSUME NEW s \in Used
      PROVE  Content[data[s].key] = data[s].value
  <2>1. (CHOOSE t \in Used : data[t].key = data[s].key) = s
    BY DEF KeysReachable
  <2> QED  BY <2>1 DEF Content
<1> QED  BY <1>1, <1>2

\* The same of the state a step leads to.
LEMMA ContentFactsNext ==
  ASSUME KeysReachable'
  PROVE  /\ Content' = [k \in DOMAIN Content' |-> Content'[k]]
         /\ DOMAIN Content' = {data'[s].key : s \in Used'}
         /\ \A s \in Used' : Content'[data'[s].key] = data'[s].value
<1>1. /\ Content' = [k \in DOMAIN Content' |-> Content'[k]]
      /\ DOMAIN Content' = {data'[s].key : s \in Used'}
  BY DEF Content
<1>2. ASSUME NEW s \in Used'
      PROVE  Content'[data'[s].key] = data'[s].value
  <2>1. (CHOOSE t \in Used' : data'[t].key = data'[s].key) = s
    BY DEF KeysReachable
  <2> QED  BY <2>1 DEF Content
<1> QED  BY <1>1, <1>2

LEMMA InitIsMapInit == Init => Map!Init
<1> SUFFICES ASSUME Init PROVE Map!Init
  OBVIOUS
<1>1. Used = {}
  BY VacantFacts DEF Init, Used
<1>2. Content = [k \in {} |-> NoValue]
  BY <1>1 DEF Content
<1> QED  BY <1>2 DEF Init, Map!Init

\* Writing a key's only slot writes the map at that key and nowhere else.
LEMMA WriteIsInsert ==
  ASSUME data \in [Slots -> Entries], KeysReachable, KeysReachable',
         NEW k \in Keys, NEW v \in Values, NEW s \in Slots,
         data' = [data EXCEPT ![s] = Occupied(k, v)],
         s \in Used => data[s].key = k,
         \A t \in Used : data[t].key = k => t = s
  PROVE  /\ Content' = [j \in DOMAIN Content \union {k} |-> IF j = k THEN v ELSE Content[j]]
         /\ k \in DOMAIN Content <=> s \in Used
<1>1. \A t \in Slots : data'[t] = IF t = s THEN Occupied(k, v) ELSE data[t]
  OBVIOUS
<1>2. s \in Used' /\ data'[s].key = k /\ data'[s].value = v
  BY <1>1, OccupiedFacts DEF Used
<1>3. \A t \in Slots : t # s => (t \in Used' <=> t \in Used) /\ data'[t] = data[t]
  BY <1>1 DEF Used
<1>4. \A t \in Used : t \in Slots
  BY DEF Used
<1>5. \A t \in Used' : t \in Slots
  BY DEF Used
<1>6. DOMAIN Content' = DOMAIN Content \union {k}
  BY <1>2, <1>3, <1>4, <1>5, ContentFacts, ContentFactsNext
<1>7. Content'[k] = v
  BY <1>2, ContentFactsNext
<1>8. ASSUME NEW j \in DOMAIN Content, j # k PROVE Content'[j] = Content[j]
  <2>1. PICK t \in Used : data[t].key = j
    BY ContentFacts
  <2>2. t # s /\ t \in Used' /\ data'[t] = data[t]
    BY <1>3, <1>4, <1>8, <2>1
  <2> QED  BY <2>1, <2>2, ContentFacts, ContentFactsNext
<1>9. k \in DOMAIN Content <=> s \in Used
  BY ContentFacts
<1> QED  BY <1>6, <1>7, <1>8, <1>9, ContentFactsNext

LEMMA InsertNewIsInsert ==
  ASSUME MapInv, MapInv', InsertNew
  PROVE  Map!Insert(call.key, call.value) /\ call.key \in Keys /\ call.value \in Values
<1>1. Calls("insert") /\ AtEmpty /\ Return(TRUE)
      /\ data' = [data EXCEPT ![Target] = Occupied(call.key, call.value)]
  BY DEF InsertNew, Target
<1>2. \A t \in Used : data[t].key # call.key
  BY <1>1, TargetFacts, AbsentAtEmpty
<1>3. Target \notin Used
  BY <1>1, TargetFacts DEF Used
<1>4. /\ Content' = [j \in DOMAIN Content \union {call.key} |->
                       IF j = call.key THEN call.value ELSE Content[j]]
      /\ call.key \notin DOMAIN Content
  <2>1. data \in [Slots -> Entries] /\ KeysReachable /\ KeysReachable'
    BY DEF MapInv, TypeOK
  <2>2. call.key \in Keys /\ call.value \in Values /\ Target \in Slots
    BY <1>1, TargetFacts
  <2>3. /\ Content' = [j \in DOMAIN Content \union {call.key} |->
                         IF j = call.key THEN call.value ELSE Content[j]]
        /\ call.key \in DOMAIN Content <=> Target \in Used
    BY <1>1, <1>2, <1>3, <2>1, <2>2, WriteIsInsert
  <2> QED  BY <1>3, <2>3
<1>5. reply' = Map!Reply("insert", call.key, call.value, call.key \notin DOMAIN Content)
  BY <1>1, <1>4 DEF Return, Map!Reply, Calls
<1> QED  BY <1>1, <1>4, <1>5, TargetFacts DEF Map!Insert

LEMMA InsertAgainIsInsert ==
  ASSUME MapInv, MapInv', InsertAgain
  PROVE  Map!Insert(call.key, call.value) /\ call.key \in Keys /\ call.value \in Values
<1>1. call # NoCall /\ call.op = "insert" /\ AtKey /\ Return(FALSE)
      /\ data' = [data EXCEPT ![index] = Occupied(call.key, call.value)]
  BY NoCallFacts DEF InsertAgain, Calls
<1>2. call.value \in Values
  BY <1>1, AtKeyFacts, RequestFacts
<1>3. /\ Content' = [j \in DOMAIN Content \union {call.key} |->
                       IF j = call.key THEN call.value ELSE Content[j]]
      /\ call.key \in DOMAIN Content
  <2>1. data \in [Slots -> Entries] /\ KeysReachable /\ KeysReachable'
    BY DEF MapInv, TypeOK
  <2>2. /\ call.key \in Keys /\ index \in Slots /\ index \in Used /\ data[index].key = call.key
        /\ \A t \in Used : data[t].key = call.key => t = index
    BY <1>1, AtKeyFacts
  <2>3. /\ Content' = [j \in DOMAIN Content \union {call.key} |->
                         IF j = call.key THEN call.value ELSE Content[j]]
        /\ call.key \in DOMAIN Content <=> index \in Used
    BY <1>1, <1>2, <2>1, <2>2, WriteIsInsert
  <2> QED  BY <2>2, <2>3
<1>4. reply' = Map!Reply("insert", call.key, call.value, call.key \notin DOMAIN Content)
  BY <1>1, <1>3 DEF Return, Map!Reply
<1> QED  BY <1>1, <1>2, <1>3, <1>4, AtKeyFacts DEF Map!Insert

LEMMA FindIsFind ==
  ASSUME MapInv, FindHit \/ FindMiss
  PROVE  Map!Find(call.key) /\ call.key \in Keys
<1>1. call # NoCall /\ call.op = "find" /\ UNCHANGED data
  BY NoCallFacts DEF FindHit, FindMiss, Calls
<1>2. call.key \in Keys /\ call.value = NoValue
  BY <1>1, RequestFacts DEF MapInv, TypeOK
<1>3. UNCHANGED Content
  BY <1>1 DEF Content, Used
<1>4. CASE FindHit
  <2>1. call.key \in DOMAIN Content /\ Content[call.key] = data[index].value
    BY <1>1, <1>4, AtKeyFacts, ContentFacts DEF FindHit, MapInv
  <2> QED  BY <1>1, <1>2, <1>3, <1>4, <2>1 DEF FindHit, Return, Map!Find, Map!Reply
<1>5. CASE FindMiss
  <2>1. call.key \notin DOMAIN Content
    BY <1>1, <1>5, AbsentAtEmpty, ContentFacts DEF FindMiss, MapInv
  <2> QED  BY <1>1, <1>2, <1>3, <1>5, <2>1 DEF FindMiss, Return, Map!Find, Map!Reply
<1> QED  BY <1>4, <1>5

LEMMA EraseHitIsErase ==
  ASSUME MapInv, MapInv', EraseHit
  PROVE  Map!Erase(call.key) /\ call.key \in Keys
<1>1. call # NoCall /\ call.op = "erase" /\ AtKey /\ Return(TRUE)
      /\ data' = [data EXCEPT ![index] = Deleted]
  BY NoCallFacts DEF EraseHit, Calls
<1>2. call.key \in Keys /\ call.value = NoValue
  BY <1>1, RequestFacts DEF MapInv, TypeOK
<1>3. data \in [Slots -> Entries] /\ KeysReachable /\ KeysReachable' /\ index \in Slots
  BY DEF MapInv, TypeOK
<1>4. \A t \in Slots : data'[t] = IF t = index THEN Deleted ELSE data[t]
  BY <1>1, <1>3
<1>5. Used' = Used \ {index} /\ \A t \in Used' : data'[t] = data[t]
  BY <1>4, VacantFacts DEF Used
<1>6. call.key \in DOMAIN Content
  BY <1>1, <1>3, AtKeyFacts, ContentFacts
<1>7. DOMAIN Content' = DOMAIN Content \ {call.key}
  <2>1. \A t \in Used : data[t].key = call.key <=> t = index
    BY <1>1, AtKeyFacts
  <2> QED  BY <1>3, <1>5, <2>1, ContentFacts, ContentFactsNext
<1>8. \A j \in DOMAIN Content' : Content'[j] = Content[j]
  BY <1>3, <1>5, ContentFacts, ContentFactsNext
<1>9. Content' = [j \in DOMAIN Content \ {call.key} |-> Content[j]]
  BY <1>3, <1>7, <1>8, ContentFactsNext
<1>10. reply' = Map!Reply("erase", call.key, NoValue, call.key \in DOMAIN Content)
  BY <1>1, <1>2, <1>6 DEF Return, Map!Reply
<1> QED  BY <1>2, <1>9, <1>10 DEF Map!Erase

LEMMA EraseMissIsErase ==
  ASSUME MapInv, EraseMiss
  PROVE  Map!Erase(call.key) /\ call.key \in Keys
<1>1. call # NoCall /\ call.op = "erase" /\ AtEmpty /\ Return(FALSE) /\ UNCHANGED data
  BY NoCallFacts DEF EraseMiss, Calls
<1>2. call.key \in Keys /\ call.value = NoValue
  BY <1>1, RequestFacts DEF MapInv, TypeOK
<1>3. UNCHANGED Content
  BY <1>1 DEF Content, Used
<1>4. call.key \notin DOMAIN Content
  BY <1>1, AbsentAtEmpty, ContentFacts DEF MapInv
<1>5. Content = [j \in DOMAIN Content \ {call.key} |-> Content[j]]
  BY <1>4, ContentFacts DEF MapInv
<1>6. reply' = Map!Reply("erase", call.key, NoValue, call.key \in DOMAIN Content)
  <2>1. (call.key \in DOMAIN Content) = FALSE
    BY <1>4
  <2> QED  BY <1>1, <1>2, <2>1 DEF Return, Map!Reply
<1> QED  BY <1>2, <1>3, <1>5, <1>6 DEF Map!Erase

\* Every call is answered as a map would answer it, for every capacity and
\* every set of keys (FlatHashMap.h:36-98).
THEOREM TableImplementsMap == Spec => ImplementsMap
<1>1. ASSUME MapInv, MapInv', [Next]_vars
      PROVE  [Map!Next]_<<Content, reply>>
  <2>1. CASE (\E request \in Requests : Begin(request)) \/ Advance \/ UNCHANGED vars
    <3>1. UNCHANGED data /\ UNCHANGED reply
      BY <2>1 DEF Begin, Advance, vars
    <3>2. UNCHANGED Content
      BY <3>1 DEF Content, Used
    <3> QED  BY <3>1, <3>2
  <2>2. CASE InsertNew \/ InsertAgain
    BY <1>1, <2>2, InsertNewIsInsert, InsertAgainIsInsert DEF Map!Next
  <2>3. CASE FindHit \/ FindMiss
    BY <1>1, <2>3, FindIsFind DEF Map!Next
  <2>4. CASE EraseHit \/ EraseMiss
    BY <1>1, <2>4, EraseHitIsErase, EraseMissIsErase DEF Map!Next
  <2> QED  BY <1>1, <2>1, <2>2, <2>3, <2>4 DEF Next, Step
<1> QED
  BY <1>1, InitIsMapInit, MapInvariant, PTL DEF Spec, ImplementsMap, Map!Spec

=============================================================================
