---------------------------- MODULE MCParameters ----------------------------
(* Small instances of Parameters for TLC.                                  *)
EXTENDS Parameters, TLC

CONSTANTS token, dsn, x, y, m1, m2, w1, w2, w3

\* Keys, values, writers and master keys are alike.
Alike == Permutations(Value) \union Permutations(Writer) \union Permutations(MasterKey)
             \union Permutations(Key)
=============================================================================
