------------------------------ MODULE LossyFifo ------------------------------
(***************************************************************************)
(* What every consumer of the engine's output is promised: events, which   *)
(* are numbered as the engine prints them, arrive in order and at most     *)
(* once; any of them may be missing.                                       *)
(***************************************************************************)
EXTENDS Naturals

VARIABLES sent,   \* number of the last event printed
          got     \* number of the last event the consumer has received

LFInit == sent = 0 /\ got = 0

Send == sent' = sent + 1 /\ UNCHANGED got

Deliver == got' \in (got + 1)..sent /\ UNCHANGED sent

LFSpec == LFInit /\ [][Send \/ Deliver]_<<sent, got>>
=============================================================================
