------------------------------ MODULE MCAgent ------------------------------
(* Small instances of Agent for TLC.                                       *)
EXTENDS Agent, TLC

CONSTANTS registry, proxy, main, t1, t2, a1, a2, i1, i2

=============================================================================
