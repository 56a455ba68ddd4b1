--------------------------- MODULE MCDeployments ---------------------------
(* Small instances of Deployments for TLC.                                 *)
EXTENDS Deployments

CONSTANTS d1, d2, r1, r2, p1, e1

\* Distinct container names for distinct names and tags.
Pairs == Name \X Release
PairName == [n \in Name |-> [r \in Release |-> <<n, r>>]]

\* The sound containers of an instance: those of the first release, or those of
\* the second name, so that the deployment listed first fails every time.
FirstRelease == Name \X {r1}
SecondName == {<<2, r1>>}
=============================================================================
