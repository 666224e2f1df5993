--------------------------- MODULE CalendarQueue ---------------------------
(***************************************************************************)
(* CalenderQueue.h and the loop of AgentManager that it drives: one event  *)
(* per agent, in a bucket per unit of time modulo Buckets. The agent whose *)
(* event is popped acts and is scheduled again.                            *)
(*                                                                         *)
(* Times are doubles in the code; here they count ticks, Resolution to the *)
(* unit, so that several events of one unit can be told apart.             *)
(***************************************************************************)
EXTENDS Integers, SequencesExt

CONSTANTS
  NAgents,      \* agents, in the order of agents_
  Buckets,      \* 1024 in the code, a power of two
  Resolution,   \* ticks per unit of time
  MaxDelay,     \* the longest delay ScheduleNextAction draws, in ticks
  MaxTime       \* maxTime_, in units

ASSUME SizesAssumption ==
  NAgents \in Nat \ {0} /\ Buckets \in Nat \ {0} /\ Resolution \in Nat \ {0}
ASSUME TimesAssumption == MaxDelay \in Nat /\ MaxTime \in Nat

VARIABLES
  buckets,   \* buckets_: a bucket's events, the latest first
  head,      \* head_: the bucket popped from last
  warmed,    \* agents that WarmUp has scheduled
  now,       \* currentTime_, in whole units
  event      \* the event of the turn, with the time it was scheduled for

vars == <<buckets, head, warmed, now, event>>

Agents == 1..NAgents
Positions == 0..(Buckets - 1)
Delays == 0..MaxDelay

Unit(t) == t \div Resolution

BucketOf(t) == Unit(t) % Buckets

Init ==
  /\ buckets = [b \in Positions |-> <<>>]
  /\ head = 0
  /\ warmed = 0
  /\ now = 0
  /\ event = [time |-> 0, pos |-> 1]

-----------------------------------------------------------------------------
(* The queue                                                               *)

\* Mutant: a new event goes to the end of its bucket, from which Pop takes.
InsertedLast(bucket, e) == Append(bucket, e)

\* std::upper_bound: before the first event that is earlier.
Inserted(bucket, e) ==
  LET before == CHOOSE k \in 0 .. Len(bucket) :
                  /\ \A i \in 1 .. k : bucket[i].time >= e.time
                  /\ \A i \in k + 1 .. Len(bucket) : bucket[i].time < e.time
  IN InsertAt(bucket, before + 1, e)

Push(bs, e) == [bs EXCEPT ![BucketOf(e.time)] = Inserted(@, e)]

\* Mutant: the search starts behind the bucket popped from last.
NextBucketBehind ==
  CHOOSE b \in Positions :
    /\ buckets[b] # <<>>
    /\ \A c \in Positions :
         buckets[c] # <<>> => (b - head - 1) % Buckets <= (c - head - 1) % Buckets

\* The first bucket from head_ on, around the array, that holds an event.
NextBucket ==
  CHOOSE b \in Positions :
    /\ buckets[b] # <<>>
    /\ \A c \in Positions : buckets[c] # <<>> => (b - head) % Buckets <= (c - head) % Buckets

-----------------------------------------------------------------------------
(* The loops of AgentManager                                               *)

\* WarmUp schedules the agents in turn.
WarmUp(d) ==
  /\ warmed < NAgents
  /\ warmed' = warmed + 1
  /\ buckets' = Push(buckets, [time |-> d, pos |-> warmed + 1])
  /\ UNCHANGED <<head, now, event>>

\* Mutant: the bucket is emptied.
WithoutAny(b) == [buckets EXCEPT ![b] = <<>>]

\* Pop takes the last event of the bucket.
Without(b) == [buckets EXCEPT ![b] = Front(@)]

\* One turn of RunOutgoingLoop: the clock is set to the whole units of the
\* event's time, and the agent is scheduled from there.
Turn(d) ==
  /\ warmed = NAgents /\ now < MaxTime
  /\ head' = NextBucket
  /\ event' = Last(buckets[head'])
  /\ now' = Unit(event'.time)
  /\ buckets' = Push(Without(head'), [time |-> now' * Resolution + d, pos |-> event'.pos])
  /\ UNCHANGED warmed

Next == \E d \in Delays : WarmUp(d) \/ Turn(d)

Spec == Init /\ [][Next]_vars

-----------------------------------------------------------------------------
(* Properties                                                              *)

Times == 0..(MaxTime * Resolution + 2 * MaxDelay)
Events == [time : Times, pos : Agents]

\* The array holds events, each in the bucket of its time, the latest first
\* (CalenderQueue.h:30-38).
TypeOK ==
  /\ buckets \in [Positions -> Seq(Events)]
  /\ \A b \in Positions :
       /\ \A k \in 1..Len(buckets[b]) : BucketOf(buckets[b][k].time) = b
       /\ \A j, k \in 1..Len(buckets[b]) : j < k => buckets[b][j].time >= buckets[b][k].time
  /\ head \in Positions
  /\ warmed \in 0..NAgents
  /\ now \in Nat
  /\ event \in Events

Queued == UNION {Range(buckets[b]) : b \in Positions}

\* Every agent has one event in the queue between turns: none acts twice for
\* one event or falls out of the simulation (AgentManager.cpp:24-46).
OneEventEach ==
  /\ {e.pos : e \in Queued} = 1..warmed
  /\ \A b, c \in Positions :
       \A j \in 1..Len(buckets[b]), k \in 1..Len(buckets[c]) :
         buckets[b][j].pos = buckets[c][k].pos => b = c /\ j = k

\* No unit of time is left while an event of it is still in the queue, as long
\* as no delay reaches around the array (CalenderQueue.h:27-57).
NothingOverdue == \A e \in Queued : Unit(e.time) >= now

\* The event popped is the earliest in the queue, also within a unit, as long as
\* no delay reaches around the array (CalenderQueue.h:36-38, 49-54).
PopsEarliest ==
  [][warmed = NAgents => \A e \in Queued : event'.time <= e.time]_vars

=============================================================================
