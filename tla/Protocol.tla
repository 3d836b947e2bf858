------------------------------- MODULE Protocol -------------------------------
(***************************************************************************)
(* The parser of the engine's stdin (src/src/Protocol.h).  A line is       *)
(* modelled by what the two extractors find in it: a string field is its   *)
(* value, "" when extractString finds none; a number field is an integer,  *)
(* or NotNumeric when extractNumber returns false.  stod also reads nan    *)
(* and inf, which JSON cannot express: the server, which marshals every    *)
(* order it writes to the engine, never sends them, and they are left out. *)
(***************************************************************************)
EXTENDS Integers

CONSTANTS NotNumeric,   \* a number field that is absent or not numeric
          NoOrder       \* std::nullopt

ParseIncomingOrder(line) ==
    IF \/ line.trader_id = "" \/ line.order_id = ""
       \/ line.side \notin {"BUY", "SELL"} \/ line.qty = NotNumeric
    THEN NoOrder
    ELSE [trader |-> line.trader_id,
          side   |-> line.side,
          type   |-> IF line.type = "MARKET" THEN "MARKET" ELSE "LIMIT",
          price  |-> IF line.price = NotNumeric THEN 0 ELSE line.price,
          qty    |-> line.qty]
=============================================================================
