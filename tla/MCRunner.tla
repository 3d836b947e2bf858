------------------------------ MODULE MCRunner ------------------------------
(* Configurations for Runner: the flags' defaults, another population, and  *)
(* one that validate refuses.                                               *)
EXTENDS Runner

Defaults == [makers |-> 10, takers |-> 20, whales |-> 2, tick_ms |-> 500]

MCRequests == {Defaults, [Defaults EXCEPT !.whales = 20], [Defaults EXCEPT !.makers = 51]}
=============================================================================
