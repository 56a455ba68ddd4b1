------------------------------ MODULE Register ------------------------------
(***************************************************************************)
(* What the parameter store promises its writers: a register per key with  *)
(* a version, written atomically.  A write whose key others have written   *)
(* since it looked is refused, and nothing else is.  A deletion forgets    *)
(* the version, and with it what an earlier writer has seen.               *)
(***************************************************************************)
EXTENDS Naturals

CONSTANTS Key, Value, Writer, None

VARIABLES
    cell,   \* per key: its version and value
    op,     \* per writer: the write it has asked for and how it went
    since   \* per writer: what became of its key since it looked

vars == <<cell, op, since>>

Cell == [version : Nat \ {0}, value : Value]
Op == [state : {"pending", "stored", "refused"}, key : Key, value : Value]

TypeOK ==
    /\ cell \in [Key -> Cell \union {None}]
    /\ op \in [Writer -> Op \union {None}]
    /\ since \in [Writer -> {"same", "written", "deleted"}]

Init ==
    /\ cell = [k \in Key |-> None]
    /\ op = [w \in Writer |-> None]
    /\ since = [w \in Writer |-> "same"]

Pending(w) == op[w] # None /\ op[w].state = "pending"

Ask(w, k, v) ==
    /\ ~Pending(w)
    /\ op' = [op EXCEPT ![w] = [state |-> "pending", key |-> k, value |-> v]]
    /\ since' = [since EXCEPT ![w] = "same"]
    /\ UNCHANGED cell

\* The version is the next one; after a deletion it may be any.
Store(w) ==
    /\ Pending(w) /\ since[w] # "written"
    /\ LET k == op[w].key
           stored == cell'[k]
       IN  /\ stored \in Cell /\ stored.value = op[w].value
           /\ cell[k] # None => stored.version = cell[k].version + 1
           /\ cell[k] = None /\ since[w] = "same" => stored.version = 1
           /\ cell' = [cell EXCEPT ![k] = stored]
           /\ since' = [u \in Writer |->
                           IF u # w /\ Pending(u) /\ op[u].key = k /\ since[u] = "same"
                           THEN "written" ELSE since[u]]
    /\ op' = [op EXCEPT ![w].state = "stored"]

Refuse(w) ==
    /\ Pending(w) /\ since[w] # "same"
    /\ op' = [op EXCEPT ![w].state = "refused"]
    /\ UNCHANGED <<cell, since>>

Delete(k) ==
    /\ cell' = [cell EXCEPT ![k] = None]
    /\ since' = [u \in Writer |->
                    IF Pending(u) /\ op[u].key = k THEN "deleted" ELSE since[u]]
    /\ UNCHANGED op

\* Writes nobody waits for any more come to nothing.
GiveUp(W) ==
    /\ op' = [w \in Writer |-> IF w \in W THEN None ELSE op[w]]
    /\ UNCHANGED <<cell, since>>

Next ==
    \/ \E w \in Writer : \/ \E k \in Key, v \in Value : Ask(w, k, v)
                         \/ Store(w) \/ Refuse(w)
    \/ \E k \in Key : Delete(k)
    \/ \E W \in SUBSET Writer : GiveUp(W)

Spec == Init /\ [][Next]_vars

=============================================================================
