------------------------------- MODULE Prices -------------------------------
(***************************************************************************)
(* The price grid of Orderbook.cpp. A price is a number of ticks above     *)
(* min_price_ (0.01 above 100 in the code), so price level l stands for    *)
(* price l. The code keeps prices in doubles: `price' is the double        *)
(* nearest the decimal price, as the agents' rounding produces it, while   *)
(* IndexToPrice computes min_price_ + l * tick_size_, which for some       *)
(* levels is the double above or below it.                                 *)
(***************************************************************************)
EXTENDS Integers

CONSTANTS
  MaxLevel,    \* the last price level, 2000 in the code
  RoundsUp,    \* levels with IndexToPrice(l) above the double nearest price l
  RoundsDown   \* levels with IndexToPrice(l) below it

ASSUME LevelAssumption == MaxLevel \in Nat
ASSUME RoundingAssumption == RoundsUp \intersect RoundsDown = {}

Sides == {"Buy", "Sell"}
Opposite(sd) == IF sd = "Buy" THEN "Sell" ELSE "Buy"

Levels == 0..MaxLevel
NoLevel == -1        \* INVALID_PRICE_LEVEL_INDEX

\* The price a market order carries: 120 to buy, 100 to sell.
MarketPrice(sd) == IF sd = "Buy" THEN MaxLevel ELSE 0

\* PriceToIndex clamps a price to the range of the array.
PriceToIndex(p) == IF p < 0 THEN 0 ELSE IF p > MaxLevel THEN MaxLevel ELSE p

\* IndexToPrice(l) > p and IndexToPrice(l) < p, as the doubles compare.
IndexPriceAbove(l, p) == l > p \/ (l = p /\ l \in RoundsUp)
IndexPriceBelow(l, p) == l < p \/ (l = p /\ l \in RoundsDown)

\* Mutant: equality rests the order too.
OutOfReachAtLimit(sd, l, p) == IF sd = "Buy" THEN l >= p ELSE l <= p

\* Mutant: the seller tests in the direction of the buyer.
OutOfReachOneSided(sd, l, p) == IndexPriceAbove(l, p)

\* A limit order of side sd and price p does not trade with level l: the test
\* on which MatchLimitOrder gives up and rests the order.
OutOfReach(sd, l, p) ==
  IF sd = "Buy" THEN IndexPriceAbove(l, p) ELSE IndexPriceBelow(l, p)

\* Level l of side sd is offered before level m: higher bids, lower asks.
Better(sd, l, m) == IF sd = "Buy" THEN l > m ELSE l < m

=============================================================================
