------------------------------ MODULE MCEngine ------------------------------
(* Instances of Engine for TLC: a handful of stdin lines that reach every   *)
(* branch of the parser and of drainOrderQueue.                             *)
EXTENDS Engine

Line(side, type, p, q) == [trader_id |-> "bot", order_id |-> "o", side |-> side,
                           type |-> type, price |-> p, qty |-> q]

MCLines == { Line("BUY",  "MARKET", NotNumeric, 3),   \* sweeps, or is short
             Line("SELL", "MARKET", NotNumeric, 1),
             Line("BUY",  "LIMIT",  6, 1),            \* at or above the makers' ask
             Line("SELL", "",       7, 1),            \* LIMIT by default
             Line("SELL", "LIMIT",  NotNumeric, 1),   \* invalid_price
             Line("BUY",  "MARKET", 0, 0),            \* invalid_qty
             Line("HOLD", "MARKET", 5, 1) }           \* malformed

\* For the run about scheduling: two orders that change neither book nor positions.
MCFloodLines == { Line("SELL", "LIMIT", NotNumeric, 1), Line("BUY", "LIMIT", NotNumeric, 1) }
=============================================================================
