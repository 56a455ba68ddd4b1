---------------------------- MODULE MCProxyApply ----------------------------
(* Small instances of ProxyApply for TLC.                                  *)
EXTENDS ProxyApply

CONSTANTS main, h1, h2, x, y, e
=============================================================================
