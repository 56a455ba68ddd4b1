---------------------------- MODULE MCRetention ----------------------------
(* Small instances of Retention for TLC.                                   *)
EXTENDS Retention

CONSTANTS v1, v2, x, y, task, request
=============================================================================
