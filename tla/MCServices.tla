----------------------------- MODULE MCServices -----------------------------
(* Small instances of Services for TLC.                                    *)
EXTENDS Services, TLC

CONSTANTS registry, proxy, main, t1, t2

=============================================================================
