----------------------------- MODULE MCCutover -----------------------------
(* Small instances of Cutover for TLC.                                     *)
EXTENDS Cutover

CONSTANTS main, h1, h2, x, y, e
=============================================================================
