------------------------------ MODULE OrderBook ------------------------------
(***************************************************************************)
(* The order book of the C++ engine (src/src/OrderBook.{h,cpp}): two maps  *)
(* from price to resting quantity.  addLimitOrder adds to a level and never*)
(* matches; addMarketOrder walks the other side from its best level.  One  *)
(* iteration of that walk is one step, and its locals are variables, so    *)
(* that what holds between iterations can be stated and proved.            *)
(* Order ids (nextId_, aggressor_id, passive_id) are never read: left out. *)
(***************************************************************************)
EXTENDS Order, Sequences, FiniteSetsExt

CONSTANT MaxLevelQty   \* bound on the quantity of one level in OBNext

ASSUME MaxLevelQtyAssumption == MaxLevelQty \in Nat

VARIABLES
    bids, asks,   \* bids_, asks_: functions from the prices present to quantities
    phase,        \* addMarketOrder: "idle", in the "loop", or about to "return"
    aggSide,      \* its argument side
    aggQty,       \* its argument qty
    remaining,    \* its local remaining
    trades,       \* its local trades
    before        \* history: the side it matches against, as it was at the call

bookVars  == <<bids, asks>>
matchVars == <<phase, aggSide, aggQty, remaining, trades, before>>
obVars    == <<bookVars, matchVars>>

NoLevels == [p \in {} |-> 0]

\* book[price] += qty on a map that creates absent entries with 0
AddTo(levels, price, qty) ==
    [p \in DOMAIN levels \cup {price} |->
        IF p # price THEN levels[p]
        ELSE IF p \in DOMAIN levels THEN levels[p] + qty ELSE qty]

Erase(levels, price) == [p \in DOMAIN levels \ {price} |-> levels[p]]

\* Fault: an exhausted level stays in the map.
KeepEmpty(levels, price, qty) == [levels EXCEPT ![price] = @ - qty]

\* Fault: a level is erased even if the order took only part of it.
EraseAlways(levels, price, qty) == Erase(levels, price)

\* it->second -= qty, erasing the level when nothing is left
TakeFrom(levels, price, qty) ==
    IF levels[price] =< qty THEN Erase(levels, price)
    ELSE [levels EXCEPT ![price] = @ - qty]

\* The side an aggressor matches against, and when a price of it is better.
Contra(side) == IF side = "BUY" THEN asks ELSE bids
Better(side, p, q) == IF side = "BUY" THEN p < q ELSE p > q

\* Fault: the walk starts from the worst level.
IsWorst(side, p) == \A q \in DOMAIN Contra(side) : ~Better(side, p, q)

\* book.begin(): asks_ is sorted ascending, bids_ descending.
IsBest(side, p) == \A q \in DOMAIN Contra(side) : ~Better(side, q, p)

BestBid == IF DOMAIN bids = {} THEN 0 ELSE Max(DOMAIN bids)
BestAsk == IF DOMAIN asks = {} THEN 0 ELSE Min(DOMAIN asks)
Spread  == BestAsk - BestBid

-----------------------------------------------------------------------------
OBInit ==
    /\ bids = NoLevels /\ asks = NoLevels
    /\ phase = "idle" /\ aggSide = "BUY" /\ aggQty = 0
    /\ remaining = 0 /\ trades = <<>> /\ before = NoLevels

\* OrderBook::addLimitOrder
AddLimitOrder(side, price, qty) ==
    /\ bids' = IF side = "BUY"  THEN AddTo(bids, price, qty) ELSE bids
    /\ asks' = IF side = "SELL" THEN AddTo(asks, price, qty) ELSE asks

\* OrderBook::addMarketOrder, up to its loop
AddMarketOrder(side, qty) ==
    /\ phase' = "loop" /\ aggSide' = side /\ aggQty' = qty
    /\ remaining' = qty /\ trades' = <<>>
    /\ before' = Contra(side)
    /\ UNCHANGED bookVars

\* Fault: the rest of the order is forgotten after a fill.
DropRest(p, fill) == remaining' = 0 /\ trades' = Append(trades, [price |-> p, qty |-> fill])

ChargeFill(p, fill) ==
    /\ remaining' = remaining - fill
    /\ trades' = Append(trades, [price |-> p, qty |-> fill])

\* Fault: the loop is left after the first level, exhausted or not.
StopAtFirst(p, fill) == phase' = "return"

\* erase and go on, or break
NextOrBreak(p, fill) ==
    phase' = IF Contra(aggSide)[p] = fill THEN "loop" ELSE "return"

\* One iteration of the loop of addMarketOrder
MatchLevel ==
    /\ phase = "loop" /\ remaining > 0
    /\ \E p \in DOMAIN Contra(aggSide) :
         /\ IsBest(aggSide, p)
         /\ LET level == Contra(aggSide)[p]
                fill  == IF remaining < level THEN remaining ELSE level
                left  == TakeFrom(Contra(aggSide), p, fill)
            IN  /\ asks' = IF aggSide = "BUY"  THEN left ELSE asks
                /\ bids' = IF aggSide = "SELL" THEN left ELSE bids
                /\ ChargeFill(p, fill)
                /\ NextOrBreak(p, fill)
    /\ UNCHANGED <<aggSide, aggQty, before>>

\* The loop condition is false
MatchEnd ==
    /\ phase = "loop" /\ (DOMAIN Contra(aggSide) = {} \/ remaining =< 0)
    /\ phase' = "return"
    /\ UNCHANGED <<bookVars, aggSide, aggQty, remaining, trades, before>>

\* return trades: the locals go out of scope
MatchReturn ==
    /\ phase = "return"
    /\ phase' = "idle" /\ aggQty' = 0 /\ remaining' = 0
    /\ trades' = <<>> /\ before' = NoLevels
    /\ UNCHANGED <<bookVars, aggSide>>

\* OrderBook::removeQty
RemoveQty(side, price, qty) ==
    /\ bids' = IF side = "BUY" /\ price \in DOMAIN bids
               THEN TakeFrom(bids, price, qty) ELSE bids
    /\ asks' = IF side = "SELL" /\ price \in DOMAIN asks
               THEN TakeFrom(asks, price, qty) ELSE asks

\* OrderBook::clear
ClearBook == bids' = NoLevels /\ asks' = NoLevels

-----------------------------------------------------------------------------
\* The book on its own, called in any order
WithinBound(levels) == \A p \in DOMAIN levels : levels[p] =< MaxLevelQty

Call ==
    /\ phase = "idle"
    /\ \/ \E side \in Sides, price \in Prices, qty \in Qtys :
            /\ AddLimitOrder(side, price, qty)
            /\ WithinBound(bids') /\ WithinBound(asks')
            /\ UNCHANGED matchVars
       \/ \E side \in Sides, qty \in Qtys : AddMarketOrder(side, qty)
       \/ \E side \in Sides, price \in Prices, qty \in Qtys :
            RemoveQty(side, price, qty) /\ UNCHANGED matchVars
       \/ ClearBook /\ UNCHANGED matchVars

OBNext == Call \/ MatchLevel \/ MatchEnd \/ MatchReturn

OBSpec == OBInit /\ [][OBNext]_obVars

-----------------------------------------------------------------------------
Positive == Nat \ {0}

(* Type invariant.  A level that is present is never empty: addMarketOrder  *)
(* and removeQty erase what they exhaust, so bestBid and bestAsk never      *)
(* quote a price at which nothing rests.                                    *)
OBTypeOK ==
    /\ DOMAIN bids \subseteq Positive /\ bids \in [DOMAIN bids -> Positive]
    /\ DOMAIN asks \subseteq Positive /\ asks \in [DOMAIN asks -> Positive]
    /\ DOMAIN before \subseteq Positive /\ before \in [DOMAIN before -> Positive]
    /\ phase \in {"idle", "loop", "return"}
    /\ aggSide \in Sides /\ aggQty \in Nat /\ remaining \in Nat
    /\ trades \in Seq([price : Positive, qty : Positive])

LeftAt(p) == IF p \in DOMAIN Contra(aggSide) THEN Contra(aggSide)[p] ELSE 0

(* Nothing is created or lost at any level while addMarketOrder walks the   *)
(* book: what a trade took at a price plus what still rests there is what   *)
(* rested there at the call, and a level without a trade is untouched.      *)
LevelsConserved ==
    phase # "idle" =>
      /\ DOMAIN Contra(aggSide) \subseteq DOMAIN before
      /\ \A i \in DOMAIN trades : trades[i].price \in DOMAIN before
      /\ \A p \in DOMAIN before :
           \/ /\ LeftAt(p) = before[p]
              /\ \A i \in DOMAIN trades : trades[i].price # p
           \/ \E i \in DOMAIN trades :
                /\ trades[i].price = p
                /\ trades[i].qty + LeftAt(p) = before[p]
                /\ \A j \in DOMAIN trades : trades[j].price = p => j = i

(* Price priority, no trade-through: before a level trades, every better    *)
(* level of the book the order met has been taken whole.                    *)
PricePriority ==
    \A i \in DOMAIN trades, p \in DOMAIN before :
        Better(aggSide, p, trades[i].price) =>
            \E j \in DOMAIN trades : j < i /\ trades[j] = [price |-> p, qty |-> before[p]]

(* A market order that returns with quantity left has emptied the side: the *)
(* early exit of the loop never leaves liquidity it could have taken.       *)
SweepComplete ==
    phase = "return" /\ remaining > 0 => DOMAIN Contra(aggSide) = {}

SumOver(f, S) == MapThenSumSet(LAMBDA x : f[x], S)

\* Reference: a level is owed what the order has left after all better levels.
Ahead(p) == SumOver(before, {q \in DOMAIN before : Better(aggSide, q, p)})
Owed     == [p \in DOMAIN before |-> Max({0, Min({before[p], aggQty - Ahead(p)})})]

(* The walk computes what price priority prescribes: the trades returned    *)
(* are exactly the positive entries of the closed-form allocation above.    *)
FillsMatchReference ==
    phase = "return" =>
      /\ {trades[i] : i \in DOMAIN trades}
           = {[price |-> p, qty |-> Owed[p]] : p \in {q \in DOMAIN before : Owed[q] > 0}}
      /\ remaining = aggQty - SumOver(Owed, DOMAIN before)
=============================================================================
