-------------------------------- MODULE Order --------------------------------
(***************************************************************************)
(* The vocabulary shared by the parts of the C++ engine (src/src/Order.h): *)
(* sides, prices and quantities.  The code's doubles are modelled as       *)
(* integers: price ticks and lots.                                         *)
(***************************************************************************)
EXTENDS Integers

CONSTANTS Prices,   \* prices that orders and fills are given in a run
          Qtys      \* quantities that orders and fills are given in a run

ASSUME OrderAssumption == /\ Prices \subseteq Nat \ {0}
                          /\ Qtys \subseteq Nat \ {0}

Sides == {"BUY", "SELL"}
=============================================================================
