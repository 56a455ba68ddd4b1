----------------------------- MODULE MCPackages -----------------------------
(* Small instances of Packages for TLC.                                    *)
EXTENDS Packages, TLC

CONSTANTS htop, git, task, resync

=============================================================================
