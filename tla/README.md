# A TLA+ model of agent-orderbook-simulation

The program simulates a market. Agents submit limit, market and cancel orders
through a lock-free ring buffer to a matching engine, which keeps a limit order
book and reports trades back to each agent through a ring buffer of the agent's
own. Three threads take part. This directory holds TLA+ modules of the parts of
the program, the TLC configurations that check them on small instances, and
proofs, checked by TLAPS, that the main results hold for every size.

Paths below are relative to the repository: `src/MatchingEngine.cpp` is what
`PROJECT.json` calls `src/src/MatchingEngine.cpp`.

## 1. Inventory

| Part | State | Operations | Called by |
|---|---|---|---|
| Matching engine (`MatchingEngine`) | `orders_`, `counter_`, `running_` | Start, Stop, ProcessOrder, MatchLimitOrder, MatchMarketOrder, CancelOrder, CreateCancelOrder | engine thread; Stop and the pushes to `orders_` on main |
| Order book (`Orderbook`) | price levels, bitmaps, best levels, `orderMap_` | AddOrder, RemoveOrder, CancelOrder, FillOrder, GetBestBid/Ask, PriceToIndex, IndexToPrice | engine; strategies read it from main |
| Order pool (`OrderPool`) | nodes, free list, under a mutex | allocate, deallocate, get_order | strategies on main, engine |
| Flat hash map | entries Empty, Occupied, Deleted | insert, find, erase | book |
| Ring buffer (`RingBuffer`) | array, `head_`, `tail_` | Push, Pop, empty | main to engine; engine to the incoming thread |
| Trade dispatcher | agents by client reference | Attach, Detach, PushTradeInfo | book |
| Agent | cash, units, active orders, `incomingBuffer_` | PushOrder, PushTrade, PopTrade, ClearIncoming | all three threads |
| Strategies | mid prices, moving sums | Act, CreateOrders, CancelOrders | main |
| Agent manager | clock, event queue, `running_` | WarmUp, RunOutgoingLoop, RunIncomingLoop | main and the incoming thread |
| Calendar queue (`CalenderQueue`) | 1024 buckets, `head_` | Push, Pop | agent manager |
| Single-thread ring buffer | array, indices | Push, Pop, full, size | momentum trader |
| Lifecycle (`main.cpp`) | the two threads | start, stop, join, print | - |
| Order dispatcher | - | throws; not built | - |

Interaction. Main plays the agents: it pops the earliest event of the calendar
queue, lets the agent's strategy take nodes from the pool and fill them in, and
pushes their addresses to `orders_`. The engine thread pops them, gives each a
new id, matches it and links what is left into the book; every fill goes through
the dispatcher to the ring buffers of the two agents, which the incoming thread
empties. A node of the pool is thus written by two threads in turn, and changes
hands through the ring buffer and the pool's mutex.

What is hard: the relaxed lock-free ring buffers; intrusive lists over recycled
nodes, with links, bitmaps, best levels and hash map that must agree; the partial
fills between which the other thread allocates; tombstones; the wrap of the
calendar; the order in which the threads are stopped; results of Push that nobody
looks at; prices in doubles. `PROJECT.json` lists these hazards at their lines
with the properties that would catch them.

What makes each part correct:

- engine and book: price-time priority; the book is not crossed; nobody trades
  beyond its limit; every node has one holder; lists, bitmaps, cached best levels
  and map agree; every order taken from the ring buffer settles; a cancel takes
  effect;
- ring buffer: a FIFO without overwriting, loss or data race, though each side
  knows the other's index late; a Stop that waits for it returns, and only then;
- hash map: answers as a map would, and answers at all;
- calendar queue: events come out in time order, one per agent;
- agents: cash and units move only as trades say; what is reserved pays for the
  open orders; debts are bounded; the table of active orders holds the active ones;
- order pool: the free list visits every node nobody holds, once;
- momentum trader: decides on the averages of its two windows;
- lifecycle: everything pushed is processed, every trade reaches its agent, every
  thread returns.

## 2. Modules

| Module | Models | Role |
|---|---|---|
| `Prices` | `PriceToIndex`, `IndexToPrice`, the price tests | the grid, used by both books |
| `Orderbook` | `Orderbook.cpp`, `Order.h`, `OrderPool.h`, `Trade.h`, `TradeDispatcher.cpp` | one action operator per method |
| `MatchingEngine` | `MatchingEngine.cpp`, the agents' pushes | composes book, pool, ring buffer and two threads: `Spec`; `DirectSpec` calls `ProcessOrder` directly |
| `PriceTimeBook` | nothing: the abstract engine | a set of orders and one taker |
| `EngineProperties` | - | invariants, liveness, the refinement |
| `MCMatchingEngine` | - | symmetry and view for TLC |
| `RingBuffer` | `RingBuffer.h`, the wait of Stop | one atomic operation per action |
| `BoundedFifo` | nothing: the abstract queue | refined by `RingBuffer` |
| `Lifecycle` | `main.cpp`, the loops of the three threads | start and end of a run |
| `FlatHashMap` | `FlatHashMap.h` | one probe per action |
| `KeyValueMap` | nothing: the abstract map | refined by `FlatHashMap` |
| `CalendarQueue` | `CalenderQueue.h`, WarmUp and the outgoing loop | who acts next |
| `OrderPool` | `OrderPool.h` | the free list, as operators |
| `Accounts` | `Agent.cpp`, `AgentStrategy.cpp`, `TradeDispatcher.cpp`, the pushes of the outgoing loop | three threads over `OrderPool`, with `PriceTimeBook` as the engine |
| `Ledger` | nothing: the abstract accounts | refined by `Accounts` |
| `AccountsProperties`, `MCAccounts` | - | invariants and the refinement; symmetry and view |
| `MovingAverages` | `SingleThreadRingBuffer.h`, the averages of the momentum trader | one turn per step |
| `OrderbookProofs`, `MatchingEngineProofs`, `PriceTimeProofs`, `RingBufferProofs`, `LifecycleProofs`, `FlatHashMapProofs`, `CalendarQueueProofs`, `AccountsProofs` | - | theorems |

The modules fit together along their interfaces. `MatchingEngine` uses a bounded
sequence where the code has a ring buffer, and `RingBuffer` implements one
(`RingImplementsFifo`); it uses a partial function where the code has the hash
map, and `FlatHashMap` implements one (`TableImplementsMap`). `Accounts` takes the
engine as `PriceTimeBook` describes it, which `MatchingEngine` implements
(`EngineImplementsPriceTime`), and keeps the pool's nodes with the orders, which
the abstract engine does not know. The agents whose turns it takes in any order
are those that `CalendarQueue` puts in turn, and `Lifecycle` counts the orders and
trades that the other modules look into.

### State and actions

`Orderbook`. A node is a member of `Slots`; its constant fields are `order`, the
quantity is `rem`, its links `prev` and `next`. `head`, `tail`, `bits` and `best`
are `bids_`/`asks_`, the bitmaps and the best indices. `AddOrder`, `Unlink`,
`CancelOrder` and `FillOrder` are whole methods, `ClearBit` with its scan
included. `trades` is what the step handed to the dispatcher, with the fields
that the agents read.

`MatchingEngine`. `PopOrder` and `PopCancel` are one turn of `Start` up to the
matching loop; `Fill` is one turn of a matching loop; `Rest`, `Complete`,
`MarketRest` and `MarketCancel` end it. The last two are apart because the engine
takes a node for its own cancel, and the other thread may exhaust the pool before
or after. `SubmitLimit`, `SubmitMarket` and `SubmitCancel` are allocate, the
setters and Push of one order: the node is private in between, and the pool
locks. `PoolExhausted` is the exception of `allocate`, which ends the program in
either thread. `DirectSpec` calls the public `ProcessOrder` directly: the caller
numbers its orders, a market order may carry any price, and the engine does not
renumber, so this is where a cancel that names an order of the book finds it.
`benchmark_OrderLatency` is one such caller; its cancels name the id that the next
order will get and find nothing, and the model has these too.

`RingBuffer`. `tailSeen` and `headSeen` are what acquire loads of the other
thread's index may return: an older value, never one before the last seen.
`SeeTail` and `SeeHead` advance them at any time. The two overloads of Push have
one body and are one action sequence.

`Accounts`. `account` has the three atomics of an agent, `active` the keys of
`activeOrders_`, `inbox` its ring buffer. `Act` is a strategy's `Act`: the orders it
may return, by strategy, are `Wanted`, the active orders it may cancel, any number
of them at once, `Aims`. Nodes are allocated for the cancels, then for the sell,
then for the buy (`Turn`), and kept in `outgoing` in the order in which
`RunOutgoingLoop` pushes them (`Sent`). `PushOrder` is one push: reserve, enter into
the table, Push, whose refusal nobody looks at. `PopOrder`, `Trade`, `Rest`, `Expire`
and `Finish` are a step of `PriceTimeBook` each, with what it does to the pool and
what `Dispatch` sends to the agents. The engine's own cancel makes three calls to
the pool, and the agents' thread may allocate between any two: `MarketRest` takes
the node of the cancel, kept in `cxl`, `Expire` returns that of the order, and
`ReturnCancel` the first. `PopTrade` is the incoming thread. `dropped` and `lost`
keep what full ring buffers refused; `dropped` is read only to bound the number of
orders, and `lost` not at all.

`MovingAverages`. `CreateOrders(p)` is a turn with mid price `p`, up to the choice
of a side.

`Lifecycle`. `orders` holds requests, each a type and a side, `taker` the one that is
matched, `resting` the number of orders in the book on either side, `inbox` the
number of reports in each agent's buffer. `Fill` reports to two agents, or twice to
one, and needs an order on the other side; `Rest` reports nothing, nor does a
cancel; `Expire`, a market order without counterpart, reports to its own agent
only. `Start` contains the store of `running_`, which the engine makes itself when
it is first scheduled.

`FlatHashMap`. `Begin` is the head of a call, `Advance` a turn of its loop that
goes on, the other actions the turns that return.

`CalendarQueue`. `WarmUp(d)` and `Turn(d)` are one agent each, `d` being the draw
of `ScheduleNextAction`. `head_` stays on the bucket popped from, as in the code.
The clock is an integer to which a double is assigned, hence `Unit`.

### Abstractions

- A price is a number of ticks. The code's doubles matter in one place: the
  computed price of a level may be one ulp above or below the double the agents
  send (80 of 2001 levels). `RoundsUp` and `RoundsDown` say which; every property
  is proved for all such sets.
- The agents of `MatchingEngine` submit any order in the constant sets at any
  time. Real strategies submit a subset.
- The pool of `MatchingEngine` hands out any free node. The code's LIFO order, which
  `OrderPool` has, is a special case.
- A handler of `Agent` updates several atomics one after the other; `Accounts` does
  so in one step. The strategies read one of them at a time, so what they see
  between two updates they may also see before or after. `GetBestBid` and
  `GetBestAsk` are read together.
- The mid prices and draws that decide which orders are cancelled are left out:
  `Accounts` lets an agent cancel any of its active orders, none, some or all, in
  one turn. The fields a cancel copies are left out as well: the engine gives it an
  id of its own, so that they are never used.
- A random agent of `Accounts` draws from `LimitPrices`. A market maker's `round` of
  half a tick may go either way.
- The ring buffer of `MatchingEngine` refuses an order exactly when it is full;
  the real one may also refuse on an old `tail_`. Both end in `dropped`, and only
  the moment differs.
- `Lifecycle` leaves open which prices meet and whose orders they are: any order in
  the book may be filled by one of the other side, and any agents may get the
  reports of it.
- In `Lifecycle` `empty()` is exact. What makes an old value harmless is
  `StoppedIsEmpty` of `RingBuffer`: TRUE is only answered when it is true.
- Delays in `CalendarQueue` are bounded by the length of the array, see 3.

## 3. Runs

| Run | States | Question |
|---|---|---|
| `EngineThreaded` | 322 thousand | Is the book sound, does it implement price-time priority, and does every order settle, with two threads over one pool? |
| `EngineDirect` | 483 thousand | The same safety with cancels that find their order, and prices beyond the grid. |
| `Accounts` | 330 thousand | Do cash, units and nodes add up, whatever is late or refused? |
| `RingBuffer` | 10 thousand | Is the ring buffer a FIFO without a race, and does it drain? |
| `Lifecycle` | 30 thousand | Is everything processed, and does everybody return? |
| `FlatHashMap` | 370 thousand | Does the table answer as a map? |
| `CalendarQueue` | 21 thousand | Do events come out in time order? |
| `CancelLost`, `ActiveLeft`, `TradesLeft`, `MapSpins`, `AveragesOff` | - | Violated: see 5. |

Bounds, and why they are enough to make the cases happen:

- `EngineThreaded`: three orders over three nodes and a ring buffer of two. A
  market order without liquidity needs a node of its own, so the pool runs out,
  the ring refuses, and nodes are recycled under the eyes of the other thread.
  Prices 0 and 1, where level 1 has `RoundsUp`; quantities 1 and 2 for partial
  fills. `MaxOrders` bounds the ids. The run has a liveness property, so it uses
  neither symmetry nor a view.
- `EngineDirect`: four nodes and five orders, so that a level holds three or four
  orders and cancels hit its head, middle and tail. Level 2 is the last, and price
  3 lies beyond it.
- `Accounts`: four agents, five nodes, four orders of two units, cash for two to
  five of them; a ring buffer of two orders, and of one trade per agent, so that
  both refuse. Level 1 rounds up. Prices stay on the grid: a market buy reserves
  at 120, and an ask above that would be paid from cash that was not reserved
  (`ReservedCovers` fails with such a price). Four orders are too few for a market
  maker's quote to be executed, since two must rest before it quotes; quotes are
  reserved, pushed, dropped and rested.
- `RingBuffer`: four slots, two items: the indices wrap with the buffer full and
  empty, and nothing bounds the number of items.
- `Lifecycle`: two agents, rings of two, up to four orders of any type: a taker that
  fills two orders, a market order whose rest is cancelled, and a ring that refuses.
- `FlatHashMap`: capacity 4 and keys 1, 3, 7 and 11, of which three hash to the
  last entry: probes wrap, pass tombstones and reuse them, and the table fills up.
  Nothing bounds the number of calls.
- `CalendarQueue`: four buckets of two ticks, delays up to 7 ticks. A delay of 8
  reaches the bucket of the current unit again, and `NothingOverdue` is then
  violated: with 1024 buckets the queue keeps time order only as long as no
  exponential draw reaches 1024 units, which nothing in the code enforces. The run
  shows that this is the only condition needed.

`SYMMETRY SlotSymmetry` (`EngineDirect`) is sound because nodes are interchangeable
(no operator orders them), and `RandomSymmetry` (`Accounts`) because random agents
are; those runs check safety only. `VIEW LiveState` identifies states that differ
in the fields of free nodes, or in links outside the book. No action or property
reads those before they are written: `AddOrder` sets both links, `Allocate` all
fields, and cancels copy from nodes in use. `VIEW Unreported` leaves out the
reports of the last step, which `Dispatch` has copied in that step.

`CHECK_DEADLOCK FALSE` is set where a run really ends: when `MaxOrders` is used up
or the pool's exception has ended the program (engine, `Accounts`), when the producer has
stopped and the ring is empty (`RingBuffer`), when main has returned
(`Lifecycle`), when the time is up (`CalendarQueue`).

### Fairness

- `WF(EngineStep)` in `MatchingEngine`: the loop of `Start` polls and has no
  blocking call, so a scheduled engine thread takes the next step. Nothing is
  assumed of the agents.
- `RingBuffer`: a Push, Pop or Stop under way goes on, both consumers poll for
  ever, and stores become visible in finite time. Nothing makes the producer
  begin a Push or a Stop.
- `Lifecycle`: each of the three threads goes on when it can. `Start` may still
  come as late as it likes: `Terminates` speaks only of a Stop after it.
- `FlatHashMap`: a probe goes on.

## 4. Proofs

Every theorem is proved for all values of the constants, under the ASSUMEs of the
modules: slots, clients, items and keys are sets with the obvious typing, sizes
are positive numbers, the three kinds of agents are disjoint and start with no debt.
Some theorems about the calendar queue and the accounts have a premise of their own,
named below.

**Engine** (`OrderbookProofs`, `MatchingEngineProofs`). The inductive invariant is
`IInv == TypeOK /\ NodesHaveOneHolder /\ LevelsAreQueues /\ BestIsExact /\ NumberedOrders`.
None of its parts is inductive alone. Typing needs the levels: `FillOrder` takes
the node at the head of the best level, a node only if the best level is not
empty. The levels need the ids: an order goes to the tail, so its id must be
newer than that of every resting order. Both need one holder per node: a link
that led to a recycled node would change under another thread. `OrderbookProofs`
has the lemmas about each method (what AddOrder and Unlink do to lists, bits and
map); `MatchingEngineProofs` has one lemma per action. From the invariant follow
`TypesHold`, `NodesAccounted`, `LevelsStayQueues`, `BestStaysExact` and
`NumbersStayUnique`, each for `Spec` and `DirectSpec`.

**What traders see** (`PriceTimeProofs`). `TradesWithinLimits` follows from `IInv`
and the guard of `Fill`. `BookNotCrossed` speaks of best levels and is not
inductive; `AllApart` says it of every pair of a resting bid and ask, and is: an
order rests only when the best opposite level is out of its reach, and every
other opposite order is no better than that.

**Price-time priority** (`PriceTimeProofs`). `EngineImplementsPriceTime` and
`DirectImplementsPriceTime` map every action to an action of `PriceTimeBook` or to
a stutter. The abstract book is the set of orders in the levels, the abstract taker
the order the engine matches. `RefInv` adds to `IInv` what the mapping needs:
orders in the ring buffer carry what an agent may send (`QueuedAreRequests`), and a
market order that rests while its cancel is created is alone on its side
(`ExpiringIsAlone`), so that nobody could tell it is in the book. The step that
matters is `Fill`: the head of the best level is the oldest order of the best
price, because a level is in the order of its ids.

**Hash map** (`FlatHashMapProofs`). `KeysReachable` is not inductive: an insert that
reuses a tombstone must know that its key is not further on. `ProbePassed` says
what a probe knows: it has met neither an empty entry nor its key since the entry
its key hashes to, and the tombstone it remembers lies on that way, unless the
probe has been all around and there is no empty entry to stop at. Where a probe
meets an empty entry the key is therefore absent (`AbsentAtEmpty`). The lemmas on
`Precedes` order the entries along the way around the table. `TableImplementsMap`
then maps each returning turn to an operation of `KeyValueMap`, for every capacity,
power of two or not.

**Ring buffer** (`RingBufferProofs`). `RInv` adds `IndicesInOrder`: seen tail, tail,
seen head and head lie in this order around the ring. It gives the absence of
data races, `StopMeansEmpty` and the refinement `RingImplementsFifo`, step by
step.

**Lifecycle** (`LifecycleProofs`). `DrainInv` links the phases: the ring buffer is
empty for good once Stop has passed, and `running_` is false after `Start` only
then. It gives `EngineProcessesEverything`.

**Calendar queue** (`CalendarQueueProofs`). `QueueInv` adds `NoneTooLate` to `TypeOK`
and `OneEventEach`: before the time is up no event lies further ahead than a delay.
The three are inductive whatever the delays are, for a turn takes one event out and
puts one of the same agent in. Time order needs `MaxDelay < Buckets * Resolution`,
the bound the run has too, and `Window`: every queued unit is less than a turn of
the array ahead of the clock, and `head_` is the clock's bucket. Within a window
the distance of two buckets around the array is the distance of their units
(`RemainderDistance`), so the nearest bucket has the earliest events, and its last
one is the earliest of all (`TurnPopsEarliest`). The clock then moves to that
event, which is why the window holds again.

**Accounts** (`AccountsProofs`). Four properties and a refinement, in three layers.

1. `Sound == Typed /\ HeldOnce` is inductive without any condition (`SoundAlways`).
   `Typed` says what every variable ranges over, orders on their way and reports
   included. `HeldOnce` says that the nodes of the orders in `outgoing`, `orders`,
   `dropped` and the engine are all different, and that the free list consists of
   the others. Each needs the other: `deallocate` keeps the list a list only if the
   node is not on it, and a turn gets nodes nobody holds only if the list is one.
   A turn of any number of cancels takes that many nodes at once, and hands them out
   in an order that is not that of the pushes (`TurnsPermute`). The engine's own
   cancel takes its node and returns it in steps of their own, between which other
   nodes come and go, so `cxl` is a holder too. `TypeCorrect` and `FreeNodesListed`
   follow.
2. `LedgerKept`: no step but a trade changes any agent's cash or units, counted with
   the mail in flight and lost and, for units, with what is offered for sale. A
   balance after all mail is a fold over the mail (`Settled`), what is on offer a sum
   over a set. The proof has no induction over data to use, so it replaces both by
   sums that are functions on all subsets of a finite set (`Additive`): those exist
   and are unique because a smallest counterexample would have a smaller one. A
   report then changes the sums by a fixed amount (`Change`), and each action has one
   lemma about three numbers of an agent, `Cash`, `Stock` and `Open`. A trade an
   agent makes with itself is a transfer like any other.
3. `ReservesCoverOrders` and `DebtsBounded` hold of every behaviour whose quotes stay
   on the grid (`QuotesOnGrid`). The premise is necessary: an ask above the grid rests
   at its edge, where a market buy that reserved the price of the edge pays more. A
   random draw may leave the grid, and so may a market maker's quote beside the first
   or last level. Nothing in the code prevents either, so the premise stays; the run
   keeps the draws on the grid, and two orders that rest at levels 1 and 2 leave its
   quotes there as well.
   - `Grid` adds that everything on its way to the engine or in it has a price of the
     grid, a market order the price of the edge, and that in a report to a buyer the
     price the seller asked is no higher than the price paid.
   - `Secured` strengthens `ReservedCovers`. That one counts what the mail releases at
     the price of the opposite order, which may be less than was paid; `Secured` counts
     it at the price paid, and is still kept when a report releases less. No step but
     a push breaks it or lowers what is free (`OthersImprove`).
   - `Backed` is why the debt does not add up. A decision is made on the balance of
     one moment and pushed later, when other orders of the same turn have been pushed
     and mail has been booked. It says that what the agent looked at is still there
     when the order is pushed: mail only adds to it, and a turn has, besides cancels,
     at most one order per side, which touch different balances. `SolventPush` is the one step that
     spends, and leaves at most `Lot - 1` units, or their cost, missing.

Only model-checked: liveness (`OrdersSettle`, `Drains`, `Terminates`, `ProbesEnd`),
which is out of the prover's reach. Every invariant, every refinement and the one
action property that the passing runs check is a theorem; those about reserves and
debts and about time order have the premises named above. What the five violated
properties say is false, so nothing about them is proved.

## 5. Where code and documentation disagree

Each has a run whose only property TLC finds violated.

1. `CancelLost`: the engine renumbers cancels, so no agent's cancel ever finds its
   order (`src/MatchingEngine.cpp:10`).
2. `ActiveLeft`: a report removes the id of the opposite order from a table that is
   keyed by the pool index of the agent's own, so executed orders stay active
   (`src/Agent.cpp:115`).
3. `TradesLeft`: the manager is stopped before the engine, so trades reported late
   stay unread and are missing from the summary (`src/main.cpp:118`).
4. `MapSpins`: tombstones are never freed; when no entry of the table is Empty the
   next search for an absent key does not end, even if every entry is a tombstone
   and the table holds no key (`include/FlatHashMap.h:65`). `CallsReturn` speaks only
   of a table without a key, so that a table which is merely full does not violate
   it: the run inserts two keys into two entries, erases both, and the next call
   never returns. With 8,388,608 entries and ids in sequence this takes as many
   rested orders. Since each agent's cancel looks up an id that is absent (1.), one
   such call is enough.
5. `AveragesOff`: the moving sums never include the first window, and the short
   buffer refuses prices while the long one fills (`src/AgentStrategy.cpp:145`).

More observations, which no property checks. `main` waits for ever if the engine
thread first runs after Stop (`Terminates` excludes the case by its premise). An
event 1024 or more units ahead is popped early (section 3). An order priced outside
100 to 120 rests at the edge of the grid and trades at its own price, outside the
price levels of `README.md:85` and perhaps beyond the limit of the order that took
it (`src/Orderbook.cpp:71`, `235`); `BookNotCrossed` and `TradesWithinLimits` make an
exception of such orders. A full ring buffer loses an order with its node and what
was reserved for it, or a report with the cash and units it would have booked: the
properties of nodes and accounts count both back, and say only that nothing else is
lost. An exhausted pool ends the program; `OrdersSettle` asks for nothing after that.
Random agents check that they can
pay for one unit of the ten they order, although `README.md:108` says that an agent
unable to afford an action skips its turn; `DebtIsBounded` says how far that goes.

## 6. Not modelled

- `Attach` and `Detach`, which run before and after the threads; `PrintBook`,
  `PrintSummary`, `PrintStates`, `GetInfo` and the dialogue of `main`: output and
  input. `benchmark_AgentLatency` gives three agents one client reference, so that
  the last attached gets the trades of all; the model gives each its own.
- The choice of the orders to cancel by mid price, and the mid prices a market maker
  reads before it has stored any: every choice is allowed instead.
- `GetBestBid` reads the best index twice while the engine may write it. What a
  strategy computes from a torn read is a price, and no property tells that price
  from a legal one.
- Truncation of `price * 100` to cents: prices are counted in ticks.
- Infinite delays, which the exponential draw may yield, and negative quantities of
  a benchmark: undefined conversions.
- `OrderDispatcher`: not built, throws at once.
- `RingBuffer::full`, `size` and `Print`: not called on this class.
- Time measurement and random distributions in the benchmarks.
- One module with the calendar, the life cycle and the accounts together: its states
  are beyond TLC, and each meets the others in a queue or a turn only.
