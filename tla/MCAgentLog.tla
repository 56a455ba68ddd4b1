---------------------------- MODULE MCAgentLog ----------------------------
(* A small instance of AgentLog for TLC.                                   *)
EXTENDS AgentLog

CONSTANTS t1, t2
=============================================================================
