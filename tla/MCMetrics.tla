----------------------------- MODULE MCMetrics -----------------------------
(* Small instances of Metrics for TLC.                                     *)
EXTENDS Metrics, TLC

CONSTANTS web, job, c1, c2, c3

\* An upgrade has two containers of one deployment run side by side.
OwnerOf == (c1 :> web) @@ (c2 :> web) @@ (c3 :> job)

\* Stands for i64::MAX.
Most == 700000

\* Around the boundaries of a sample, a point, the default range, the retention and
\* the integers.
Seconds == {0, 16, 3600, 604801, Most, Most - 14, Most - 13, -Most - 1, 604799 - Most, 604798 - Most}
=============================================================================
