---------------------------- MODULE FlatHashMap ----------------------------
(***************************************************************************)
(* FlatHashMap.h: the open-addressing table from order id to pool slot in  *)
(* which the book finds the order to cancel or remove. One turn of a probe *)
(* loop is one step. An erased entry stays behind as a tombstone, which    *)
(* ends no probe and which only an insert uses again.                      *)
(***************************************************************************)
EXTENDS Integers

CONSTANTS
  Capacity,   \* entries of the table: 8388608 in the book
  Keys,       \* order ids
  Values,     \* pool slots
  NoValue     \* the nullptr of a find that fails

ASSUME CapacityAssumption == Capacity \in Nat \ {0}
ASSUME KeyAssumption == Keys \subseteq Nat
ASSUME ValueAssumption == NoValue \notin Values

VARIABLES
  data,          \* the entries
  call,          \* the call under way
  index,         \* where its probe is
  firstDeleted,  \* first_deleted of an insert
  reply          \* the last call that has returned, and its answer

vars == <<data, call, index, firstDeleted, reply>>

Slots == 0..(Capacity - 1)
NoSlot == -1      \* npos

\* The key of an entry that is not Occupied is never read.
Empty == [state |-> "Empty"]
Deleted == [state |-> "Deleted"]
Occupied(k, v) == [state |-> "Occupied", key |-> k, value |-> v]
Entries == {Empty, Deleted} \union {Occupied(k, v) : k \in Keys, v \in Values}

NoCall == [op |-> "none"]
Request(op, k, v) == [op |-> op, key |-> k, value |-> v]
Requests ==
  {Request("insert", k, v) : k \in Keys, v \in Values}
    \union {Request(op, k, NoValue) : op \in {"find", "erase"}, k \in Keys}

NoReply == [op |-> "none"]

Init ==
  /\ data = [s \in Slots |-> Empty]
  /\ call = NoCall
  /\ index = 0
  /\ firstDeleted = NoSlot
  /\ reply = NoReply

-----------------------------------------------------------------------------
(* The probe                                                               *)

\* std::hash of an integer is the integer, and mask takes its low bits.
Hash(k) == k % Capacity

\* Mutant: the index is not masked.
SuccUnmasked(s) == s + 1

\* (s + 1) & mask
Succ(s) == IF s = Capacity - 1 THEN 0 ELSE s + 1

Calls(op) == call.op = op

Begin(request) ==
  /\ call = NoCall
  /\ call' = request
  /\ index' = Hash(request.key)
  /\ firstDeleted' = NoSlot
  /\ UNCHANGED <<data, reply>>

\* Mutant: a tombstone ends the probe.
AtVacant == data[index] \in {Empty, Deleted}

AtEmpty == data[index] = Empty
AtKey == data[index].state = "Occupied" /\ data[index].key = call.key

\* Mutant: the probe skips every other entry.
AdvanceByTwo ==
  /\ call # NoCall /\ ~AtEmpty /\ ~AtKey
  /\ index' = Succ(Succ(index))
  /\ UNCHANGED <<data, call, firstDeleted, reply>>

\* Neither an empty entry nor the key: on to the next entry.
Advance ==
  /\ call # NoCall /\ ~AtEmpty /\ ~AtKey
  /\ index' = Succ(index)
  /\ firstDeleted' = IF Calls("insert") /\ data[index] = Deleted /\ firstDeleted = NoSlot
                       THEN index ELSE firstDeleted
  /\ UNCHANGED <<data, call, reply>>

\* The locals of the call die with it.
Return(answer) ==
  /\ call' = NoCall
  /\ index' = 0
  /\ firstDeleted' = NoSlot
  /\ reply' = [op |-> call.op, key |-> call.key, value |-> call.value, answer |-> answer]

-----------------------------------------------------------------------------
(* How the calls end                                                       *)

InsertNew ==
  /\ Calls("insert") /\ AtEmpty
  /\ LET target == IF firstDeleted # NoSlot THEN firstDeleted ELSE index
     IN data' = [data EXCEPT ![target] = Occupied(call.key, call.value)]
  /\ Return(TRUE)

InsertAgain ==
  /\ Calls("insert") /\ AtKey
  /\ data' = [data EXCEPT ![index] = Occupied(call.key, call.value)]
  /\ Return(FALSE)

FindHit == Calls("find") /\ AtKey /\ Return(data[index].value) /\ UNCHANGED data
FindMiss == Calls("find") /\ AtEmpty /\ Return(NoValue) /\ UNCHANGED data

\* Mutant: the entry is made Empty, and hides the entries probed past it.
EraseToEmpty ==
  /\ Calls("erase") /\ AtKey
  /\ data' = [data EXCEPT ![index] = Empty]
  /\ Return(TRUE)

EraseHit ==
  /\ Calls("erase") /\ AtKey
  /\ data' = [data EXCEPT ![index] = Deleted]
  /\ Return(TRUE)

EraseMiss == Calls("erase") /\ AtEmpty /\ Return(FALSE) /\ UNCHANGED data

Step == Advance \/ InsertNew \/ InsertAgain \/ FindHit \/ FindMiss \/ EraseHit \/ EraseMiss

Next == (\E request \in Requests : Begin(request)) \/ Step

\* The loop goes on once it has begun.
Spec == Init /\ [][Next]_vars /\ WF_vars(Step)

-----------------------------------------------------------------------------
(* Properties                                                              *)

\* The entries, the call and its locals are what they are declared to be.
TypeOK ==
  /\ data \in [Slots -> Entries]
  /\ call \in Requests \union {NoCall}
  /\ index \in Slots
  /\ firstDeleted \in Slots \union {NoSlot}

Used == {s \in Slots : data[s].state = "Occupied"}

\* Steps from slot j forward to slot s.
Distance(j, s) == IF s >= j THEN s - j ELSE s - j + Capacity

\* s lies before t on the way that starts at slot j.
Precedes(j, s, t) == Distance(j, s) < Distance(j, t)

\* Every key sits in one slot only, and no empty entry lies on the way to it,
\* whatever was erased and inserted before: a probe for it cannot end too early
\* (FlatHashMap.h:36-98).
KeysReachable ==
  \A s \in Used :
    /\ \A t \in Used : data[t].key = data[s].key => t = s
    /\ \A t \in Slots : Precedes(Hash(data[s].key), t, s) => data[t] # Empty

\* The map the entries stand for.
Content ==
  [k \in {data[s].key : s \in Used} |-> data[CHOOSE s \in Used : data[s].key = k].value]

\* Calls are answered as a map would answer them (FlatHashMap.h:36-98,
\* Orderbook.cpp:119, 155, 163, 184).
Map == INSTANCE KeyValueMap WITH content <- Content

ImplementsMap == Map!Spec

\* A probe ends as long as the table has an empty entry (FlatHashMap.h:41, 65, 84).
ProbesEnd == call # NoCall /\ (\E s \in Slots : data[s] = Empty) ~> call = NoCall

\* A call on a table that holds no key returns, as it must for orders to be
\* found "quickly [...] by their respective order id" (README.md:87). It does
\* not if every entry has been used once: nothing makes a tombstone empty again
\* (FlatHashMap.h:46, 65, 84, 91).
CallsReturn == call # NoCall /\ Used = {} ~> call = NoCall

=============================================================================
