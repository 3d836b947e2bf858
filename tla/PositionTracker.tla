--------------------------- MODULE PositionTracker ---------------------------
(***************************************************************************)
(* Per-trader profit and loss accounting of the C++ engine                 *)
(* (src/src/PositionTracker.{h,cpp}).                                      *)
(*                                                                         *)
(* The code keeps doubles; the model keeps them exactly.  Prices and       *)
(* quantities are integers (price ticks, lots) and a position stores its   *)
(* average cost and its realised P&L as numerators over one common         *)
(* denominator: avg_cost = cost/den, realised_pnl = pnl/den.               *)
(***************************************************************************)
EXTENDS Order

CONSTANTS Traders,   \* trader ids that receive fills
          MaxFills   \* bound on the fills recorded for one trader

ASSUME MaxFillsAssumption == MaxFills \in Nat

VARIABLES
    positions,  \* positions_: the traders with an entry, and their Position
    ledger      \* history: what each trader paid and holds, summed fill by fill

ptVars == <<positions, ledger>>

Position == [net : Int, cost : Int, pnl : Int, den : Nat \ {0}, fills : Nat]

\* A value-initialised Position, which positions_[trader_id] creates on first use.
Flat == [net |-> 0, cost |-> 0, pnl |-> 0, den |-> 1, fills |-> 0]

PositionOf(t) == IF t \in DOMAIN positions THEN positions[t] ELSE Flat

Sign(side) == IF side = "BUY" THEN 1 ELSE -1

-----------------------------------------------------------------------------
(* The three things a fill does to a position.  BUY and SELL are mirror     *)
(* images in the code; s is the sign of the fill.                           *)

\* Fault: the held quantity keeps its sign, which divides by zero for shorts.
SignedHeld(p, s, price, qty) ==
    [net |-> p.net + s * qty, cost |-> p.cost * p.net + price * qty * p.den,
     pnl |-> p.pnl * (p.net + qty), den |-> p.den * (p.net + qty), fills |-> p.fills + 1]

\* Opening from flat or adding in the same direction: volume-weighted cost.
Extend(p, s, price, qty) ==
    LET held == s * p.net
    IN  [net   |-> p.net + s * qty,
         cost  |-> p.cost * held + price * qty * p.den,
         pnl   |-> p.pnl * (held + qty),
         den   |-> p.den * (held + qty),
         fills |-> p.fills + 1]

\* A fill smaller than the opposite position: realise qty, keep the cost.
Reduce(p, s, price, qty) ==
    [p EXCEPT !.net   = @ + s * qty,
              !.pnl   = @ + s * (p.cost - price * p.den) * qty,
              !.fills = @ + 1]

\* Fault: the flipped remainder keeps the cost of the closed position.
StaleCostClose(p, s, price, qty) ==
    [p EXCEPT !.net = @ + s * qty, !.fills = @ + 1,
              !.pnl = @ + s * (p.cost - price * p.den) * (0 - s * p.net)]

\* A fill at least as large as the opposite position: realise all of it, and
\* open the remainder, if any, at the fill price.
CloseOrFlip(p, s, price, qty) ==
    LET open == 0 - s * p.net
        rest == qty - open
    IN  [p EXCEPT !.net   = s * rest,
                  !.cost  = IF rest > 0 THEN price * p.den ELSE @,
                  !.pnl   = @ + s * (p.cost - price * p.den) * open,
                  !.fills = @ + 1]

AfterFill(p, s, price, qty) ==
    IF s * p.net >= 0 THEN Extend(p, s, price, qty)
    ELSE IF qty >= 0 - s * p.net THEN CloseOrFlip(p, s, price, qty)
    ELSE Reduce(p, s, price, qty)

-----------------------------------------------------------------------------
PTInit ==
    /\ positions = [t \in {} |-> Flat]
    /\ ledger = [t \in Traders |-> [cash |-> 0, shares |-> 0]]

\* PositionTracker::recordFill
RecordFill(t, side, price, qty) ==
    /\ positions' = [u \in DOMAIN positions \cup {t} |->
                        IF u = t THEN AfterFill(PositionOf(t), Sign(side), price, qty)
                        ELSE positions[u]]
    /\ ledger' = [ledger EXCEPT ![t] = [cash   |-> @.cash - Sign(side) * price * qty,
                                        shares |-> @.shares + Sign(side) * qty]]

PTNext ==
    \E t \in Traders, side \in Sides, price \in Prices, qty \in Qtys :
        /\ PositionOf(t).fills < MaxFills
        /\ RecordFill(t, side, price, qty)

PTSpec == PTInit /\ [][PTNext]_ptVars

-----------------------------------------------------------------------------
\* Position::unrealisedPnL, in units of 1/den
UnrealisedPnL(p, price) == (price * p.den - p.cost) * p.net

(* Type invariant of positions_ (PositionTracker.h). *)
PTTypeOK ==
    /\ DOMAIN positions \subseteq Traders
    /\ positions \in [DOMAIN positions -> Position]
    /\ ledger \in [Traders -> [cash : Int, shares : Int]]

(* recordFill never creates or loses lots: through every sequence of adds,  *)
(* partial closes, closes and flips, net_qty is the signed sum of the fills *)
(* (EquityExact implies it wherever two mark prices differ).                *)
NetMatchesFills ==
    \A t \in Traders : PositionOf(t).net = ledger[t].shares

(* The accounting identity behind realised_pnl, avg_cost and unrealisedPnL: *)
(* at every mark price, realised plus unrealised P&L is exactly the cash    *)
(* the fills moved plus the market value of what is held.  Closing and      *)
(* flipping may move value between the two parts but never make any.        *)
EquityExact ==
    \A t \in Traders, mark \in Prices :
        LET p == PositionOf(t)
        IN  p.pnl + UnrealisedPnL(p, mark)
              = p.den * (ledger[t].cash + mark * ledger[t].shares)

(* avg_cost is a volume-weighted average: while a position is open, on      *)
(* either side and after any flip, it lies between prices fills can have.   *)
AvgCostInRange ==
    \A t \in Traders :
        LET p == PositionOf(t)
        IN  p.net # 0 => \E lo, hi \in Prices : /\ lo * p.den =< p.cost
                                                /\ p.cost =< hi * p.den
=============================================================================
