----------------------------- MODULE Lifecycle -----------------------------
(***************************************************************************)
(* What the deployment subsystem promises of every deployment, for whoever *)
(* sees its row, its releases and whether it has containers, and nothing   *)
(* of snapshots, sweeps and awaits: when a container may first appear,     *)
(* what must be gone before the row says so, and that no release is named  *)
(* that has been deleted.                                                  *)
(***************************************************************************)
CONSTANTS Id, Release, None

VARIABLES
    phase,       \* per deployment: what its row says
    asked,       \* per deployment: the release that is queued
    active,      \* per deployment: the release it is served from
    registered,  \* per deployment: its releases
    occupied     \* the deployments that have containers

vars == <<phase, asked, active, registered, occupied>>

Phase == {"absent", "pending", "deploying", "running", "failed", "stopped", "deleted"}

Exists(d) == phase[d] \notin {"absent", "deleted"}

Init ==
    /\ phase = [d \in Id |-> "absent"]
    /\ asked = [d \in Id |-> None] /\ active = [d \in Id |-> None]
    /\ registered = [d \in Id |-> {}]
    /\ occupied = {}

-----------------------------------------------------------------------------
(* What users and retention do                                             *)

Create(d) ==
    /\ phase[d] = "absent"
    /\ phase' = [phase EXCEPT ![d] = "pending"]
    /\ UNCHANGED <<asked, active, registered, occupied>>

\* Its containers stay.
Delete(d) ==
    /\ Exists(d)
    /\ phase' = [phase EXCEPT ![d] = "deleted"]
    /\ asked' = [asked EXCEPT ![d] = None] /\ active' = [active EXCEPT ![d] = None]
    /\ registered' = [registered EXCEPT ![d] = {}]
    /\ UNCHANGED occupied

Register(d, r) ==
    /\ Exists(d)
    /\ registered' = [registered EXCEPT ![d] = @ \union {r}]
    /\ UNCHANGED <<phase, asked, active, occupied>>

Ask(d, r) ==
    /\ Exists(d) /\ r \in registered[d]
    /\ asked' = [asked EXCEPT ![d] = r]
    /\ UNCHANGED <<phase, active, registered, occupied>>

Prune(d, r) ==
    /\ r \notin {asked[d], active[d]}
    /\ registered' = [registered EXCEPT ![d] = @ \ {r}]
    /\ UNCHANGED <<phase, asked, active, occupied>>

-----------------------------------------------------------------------------
(* What becomes of what they asked for                                     *)

Says(d, p) ==
    /\ Exists(d)
    /\ phase' = [phase EXCEPT ![d] = p]
    /\ UNCHANGED <<asked, active, registered, occupied>>

\* Nothing has been deployed, or nothing is left of it.
Vacant(d) == d \notin occupied /\ active[d] = None

Wait(d) == Vacant(d) /\ Says(d, "pending")
Begin(d) == asked[d] # None /\ Says(d, "deploying")

\* A deployment's first container appears while its row tells of it, or when it
\* was deleted in the middle.
Launch(d) ==
    /\ phase[d] \in {"deploying", "deleted"}
    /\ occupied' = occupied \union {d}
    /\ UNCHANGED <<phase, asked, active, registered>>

Activate(d, r) ==
    /\ phase[d] = "deploying" /\ r \in registered[d]
    /\ active' = [active EXCEPT ![d] = r]
    /\ UNCHANGED <<phase, asked, registered, occupied>>

Settle(d) == active[d] # None /\ Says(d, "running")
Fail(d) == Says(d, "failed")

\* Its last container is gone.
Clear(d) ==
    /\ occupied' = occupied \ {d}
    /\ UNCHANGED <<phase, asked, active, registered>>

\* The active release is forgotten once nothing is left, "stopped" is said last.
Forget(d) ==
    /\ Exists(d) /\ d \notin occupied
    /\ active' = [active EXCEPT ![d] = None]
    /\ UNCHANGED <<phase, asked, registered, occupied>>

Stop(d) == Vacant(d) /\ Says(d, "stopped")

Next ==
    \E d \in Id :
        \/ Create(d) \/ Delete(d)
        \/ \E r \in Release : Register(d, r) \/ Ask(d, r) \/ Prune(d, r) \/ Activate(d, r)
        \/ Wait(d) \/ Begin(d) \/ Launch(d) \/ Settle(d) \/ Fail(d)
        \/ Clear(d) \/ Forget(d) \/ Stop(d)

Spec == Init /\ [][Next]_vars

-----------------------------------------------------------------------------

\* What follows: a deployment that is pending or stopped has no container and
\* no active release; one that runs and has containers has an active release;
\* what is queued and what is active is registered.
Promise ==
    \A d \in Id :
        /\ phase[d] \in {"absent", "pending", "stopped"} => Vacant(d)
        /\ phase[d] = "running" /\ d \in occupied => active[d] # None
        /\ {asked[d], active[d]} \subseteq registered[d] \union {None}
=============================================================================
