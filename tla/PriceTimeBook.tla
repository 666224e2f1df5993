---------------------------- MODULE PriceTimeBook ----------------------------
(***************************************************************************)
(* What the matching engine promises: a set of resting orders and at most  *)
(* one taker, which trades with the resting order that is first in price   *)
(* and then in time priority. No pool, lists, bitmaps, map or ring buffer. *)
(* Ids grow with time. Price priority is that of the levels: prices beyond *)
(* the grid count as its edge.                                             *)
(***************************************************************************)
EXTENDS Prices

CONSTANTS Clients, LimitPrices, Quantities, NoTaker

VARIABLES
  book,    \* the resting orders
  taker,   \* the order that is being matched
  lastId,  \* the id given last
  reports  \* what the clients are told in this step

vars == <<book, taker, lastId, reports>>

Order(i, type, c, sd, p, q) ==
  [id |-> i, type |-> type, client |-> c, side |-> sd, price |-> p, qty |-> q]

Report(o, p, q, other, type) ==
  [orderId |-> o.id, orderType |-> o.type, clientRef |-> o.client, side |-> o.side,
   price |-> p, quantity |-> q, other |-> [id |-> other.id, price |-> other.price],
   type |-> type]

\* o is served before r: better level, or the same level and older.
Before(o, r) ==
  \/ Better(o.side, PriceToIndex(o.price), PriceToIndex(r.price))
  \/ PriceToIndex(o.price) = PriceToIndex(r.price) /\ o.id < r.id

Offers == {o \in book : o.side = Opposite(taker.side)}
First(m) == m \in Offers /\ \A o \in Offers \ {m} : Before(m, o)

Tradable(m) ==
  \/ taker.type = "MARKET"
  \/ ~OutOfReach(taker.side, PriceToIndex(m.price), taker.price)

Init ==
  /\ book = {}
  /\ taker = NoTaker
  /\ lastId = 0
  /\ reports = {}

Arrive(type, c, sd, p, q) ==
  /\ taker = NoTaker
  /\ taker' = Order(lastId + 1, type, c, sd, p, q)
  /\ lastId' = lastId + 1
  /\ reports' = {}
  /\ UNCHANGED book

\* An id is used up by a request that leaves the book as it is.
Skip ==
  /\ taker = NoTaker
  /\ lastId' = lastId + 1
  /\ reports' = {}
  /\ UNCHANGED <<book, taker>>

Left(o, q) == [o EXCEPT !.qty = @ - q]
Done(o, q) == IF o.qty = q THEN "FULL" ELSE "PARTIAL"

Trade(m) ==
  /\ taker # NoTaker /\ taker.qty > 0
  /\ First(m) /\ Tradable(m)
  /\ LET q == IF m.qty < taker.qty THEN m.qty ELSE taker.qty
     IN /\ taker' = Left(taker, q)
        /\ book' = (book \ {m}) \union (IF m.qty = q THEN {} ELSE {Left(m, q)})
        /\ reports' = {Report(taker, m.price, q, m, Done(taker, q)),
                       Report(m, m.price, q, taker, Done(m, q))}
  /\ UNCHANGED lastId

\* A limit order rests only when it cannot trade with the first offer.
Rest ==
  /\ taker # NoTaker /\ taker.type = "LIMIT" /\ taker.qty > 0
  /\ \A m \in Offers : First(m) => ~Tradable(m)
  /\ book' = book \union {taker}
  /\ taker' = NoTaker
  /\ reports' = {}
  /\ UNCHANGED lastId

\* A market order that finds no offer is cancelled for the rest.
Expire ==
  /\ taker # NoTaker /\ taker.type = "MARKET" /\ taker.qty > 0
  /\ Offers = {}
  /\ taker' = NoTaker
  /\ reports' = {Report(taker, taker.price, taker.qty, taker, "CANCEL")}
  /\ UNCHANGED <<book, lastId>>

Finish ==
  /\ taker # NoTaker /\ taker.qty = 0
  /\ taker' = NoTaker
  /\ reports' = {}
  /\ UNCHANGED <<book, lastId>>

Cancel(m) ==
  /\ taker = NoTaker
  /\ m \in book
  /\ book' = book \ {m}
  /\ reports' = {Report(m, m.price, m.qty, m, "CANCEL")}
  /\ UNCHANGED <<taker, lastId>>

\* The clients have read the reports.
Delivered ==
  /\ reports' = {}
  /\ UNCHANGED <<book, taker, lastId>>

Next ==
  \/ \E c \in Clients, sd \in Sides, q \in Quantities :
       \/ \E p \in LimitPrices : Arrive("LIMIT", c, sd, p, q)
       \/ \E p \in LimitPrices \union {MarketPrice(sd)} : Arrive("MARKET", c, sd, p, q)
  \/ Skip
  \/ \E m \in book : Trade(m) \/ Cancel(m)
  \/ Rest \/ Expire \/ Finish \/ Delivered

Spec == Init /\ [][Next]_vars

=============================================================================
