----------------------------- MODULE Retention -----------------------------
(***************************************************************************)
(* Retention of one deployment's releases: prune_deployment, run by the    *)
(* six-hour task and by the API request alike, next to the handlers that   *)
(* register and queue releases and to the deploy that activates them.  The *)
(* rows are in the database, the images in the local registry, and no lock *)
(* or transaction spans the two.                                           *)
(*                                                                         *)
(* A step is the code between two awaits.  A digest is always recorded     *)
(* (register_release passes Some), so the branch that asks the registry    *)
(* for it is not modelled; nor is collect_garbage, which removes only what *)
(* no tag names.  The deployment exists throughout and its                 *)
(* retained_releases does not change.                                      *)
(***************************************************************************)
EXTENDS Naturals, FiniteSets

CONSTANTS
    Uuid,       \* ids of release rows, drawn in any order
    Tag,
    Digest,
    Pruner,     \* the runs of retention that may overlap: the task, a request
    Task,       \* the run of the ticker
    Keep,       \* retained_releases
    None,
    Faults,     \* the kinds of fault that may happen
    MaxSeconds, \* bound: seconds told apart
    MaxEdits,   \* bound: API calls and pushes
    MaxFaults   \* bound: faults

ASSUME UuidOrder == Uuid \subseteq Nat
ASSUME KeepChecked == Keep \in Nat \ {0}
ASSUME TaskPrunes == Task \in Pruner
ASSUME NoneIsFresh == None \notin Uuid \union Digest
ASSUME FaultsKnown == Faults \subseteq {"registry", "crash"}
ASSUME Bounds == MaxSeconds \in Nat /\ MaxEdits \in Nat /\ MaxFaults \in Nat

VARIABLES
    rows,       \* deployment_releases
    desired,    \* desired_release_id
    active,     \* active_release_id
    registry,   \* the digest each tag of the repository resolves to
    calls,      \* API calls between two of their awaits
    deploying,  \* the release a deploy works on
    pc,         \* per pruner: the await it is at
    all,        \* per pruner: the rows prunable_releases read
    pins,       \* per pruner: the desired and active ids it read after them
    stale,      \* per pruner: the releases still to be pruned
    kept,       \* per pruner: kept_digests
    edits,
    faults

prunes == <<pc, all, pins, stale, kept>>
vars == <<rows, desired, active, registry, calls, deploying, prunes, edits, faults>>

Release == [id : Uuid, tag : Tag, digest : Digest, at : 0 .. MaxSeconds]
Call == [step : {"insert", "desire"}, id : Uuid, tag : Tag, digest : Digest, deploy : BOOLEAN]

TypeOK ==
    /\ rows \subseteq Release
    /\ \A r, s \in rows : r.id = s.id \/ r.tag = s.tag => r = s
    /\ {desired, active} \ {None} \subseteq {r.id : r \in rows}
    /\ registry \in [Tag -> Digest \union {None}]
    /\ calls \subseteq Call
    /\ deploying \in Uuid \union {None}
    /\ pc \in [Pruner -> {"idle", "pins", "kept", "next", "row"}]
    /\ all \in [Pruner -> SUBSET Release]
    /\ pins \in [Pruner -> SUBSET (Uuid \union {None})]
    /\ stale \in [Pruner -> SUBSET Release]
    /\ kept \in [Pruner -> SUBSET Digest]
    /\ \A p \in Pruner : pc[p] = "row" => stale[p] # {}
    /\ edits \in 0 .. MaxEdits
    /\ faults \in 0 .. MaxFaults

Init ==
    /\ rows = {}
    /\ desired = None /\ active = None
    /\ registry \in [Tag -> Digest]  \* the images were pushed long before
    /\ calls = {}
    /\ deploying = None
    /\ pc = [p \in Pruner |-> "idle"]
    /\ all = [p \in Pruner |-> {}]
    /\ pins = [p \in Pruner |-> {}]
    /\ stale = [p \in Pruner |-> {}]
    /\ kept = [p \in Pruner |-> {}]
    /\ edits = MaxEdits
    /\ faults = MaxFaults

-----------------------------------------------------------------------------

\* order by created_at desc, id desc: within a second the uuid decides.
Before(r, s) == r.at > s.at \/ (r.at = s.at /\ r.id > s.id)

\* The rows listed before r.
Ahead(rs, r) == {s \in rs : Before(s, r)}

\* Mutant: one release too many is skipped.
Beyond_KeepsOneMore(rs) == {r \in rs : Cardinality(Ahead(rs, r)) > Keep}
\* all.skip(keep)
Beyond(rs) == {r \in rs : Cardinality(Ahead(rs, r)) >= Keep}

Edit == edits > 0 /\ edits' = edits - 1
Fault(kind) == kind \in Faults /\ faults > 0 /\ faults' = faults - 1

Ids == {r.id : r \in rows}

-----------------------------------------------------------------------------
(* The handlers, the deploy and the environment                            *)

\* The user pushes an image under a tag of its own: tags are not moved.
push(t, d) ==
    /\ Edit
    /\ registry[t] = None
    /\ registry' = [registry EXCEPT ![t] = d]
    /\ UNCHANGED <<rows, desired, active, calls, deploying, prunes, faults>>

\* register_release asks the registry for the digest and draws a uuid ...
register_release(i, t, deploy) ==
    /\ Edit
    /\ registry[t] # None
    /\ i \notin Ids \union {deploying} /\ \A call \in calls : call.id # i
    /\ \A p \in Pruner : \A r \in all[p] : r.id # i
    /\ calls' = calls \union
          {[step |-> "insert", id |-> i, tag |-> t, digest |-> registry[t], deploy |-> deploy]}
    /\ UNCHANGED <<rows, desired, active, registry, deploying, prunes, faults>>

\* ... inserts the row, unless the tag is taken; the clock does not run back ...
create_release(call, now) ==
    /\ call \in calls /\ call.step = "insert"
    /\ \A r \in rows : r.at <= now
    /\ LET taken == \E r \in rows : r.tag = call.tag
       IN  /\ calls' = (calls \ {call}) \union
                 IF ~taken /\ call.deploy THEN {[call EXCEPT !.step = "desire"]} ELSE {}
           /\ rows' = rows \union
                 IF taken THEN {}
                 ELSE {[id |-> call.id, tag |-> call.tag, digest |-> call.digest, at |-> now]}
    /\ UNCHANGED <<desired, active, registry, deploying, prunes, edits, faults>>

rollback_deployment(r) ==
    /\ Edit
    /\ r \in rows
    /\ calls' = calls \union
          {[step |-> "desire", id |-> r.id, tag |-> r.tag, digest |-> r.digest, deploy |-> TRUE]}
    /\ UNCHANGED <<rows, desired, active, registry, deploying, prunes, faults>>

\* ... and queues it; the foreign key refuses a row that is gone.
set_desired_release(call) ==
    /\ call \in calls /\ call.step = "desire"
    /\ calls' = calls \ {call}
    /\ desired' = IF call.id \in Ids THEN call.id ELSE desired
    /\ UNCHANGED <<rows, active, registry, deploying, prunes, edits, faults>>

\* The reconciler starts on the desired release and, when that is up, makes it
\* the active one; or it fails.
StartDeploy ==
    /\ deploying = None /\ desired # active
    /\ deploying' = desired
    /\ UNCHANGED <<rows, desired, active, registry, calls, prunes, edits, faults>>

EndDeploy ==
    /\ deploying # None
    /\ deploying' = None
    /\ \/ UNCHANGED active
       \/ deploying \in Ids /\ active' = deploying
    /\ UNCHANGED <<rows, desired, registry, calls, prunes, edits, faults>>

\* The agent dies; the database and the registry stay.
Crash ==
    /\ Fault("crash")
    /\ calls' = {} /\ deploying' = None
    /\ pc' = [p \in Pruner |-> "idle"]
    /\ all' = [p \in Pruner |-> {}] /\ pins' = [p \in Pruner |-> {}]
    /\ stale' = [p \in Pruner |-> {}] /\ kept' = [p \in Pruner |-> {}]
    /\ UNCHANGED <<rows, desired, active, registry, edits>>

-----------------------------------------------------------------------------
(* prune_deployment, by pruner p                                           *)

\* The run is over, having pruned everything or having met an error.
Rest(p) ==
    /\ pc' = [pc EXCEPT ![p] = "idle"]
    /\ all' = [all EXCEPT ![p] = {}] /\ pins' = [pins EXCEPT ![p] = {}]
    /\ stale' = [stale EXCEPT ![p] = {}] /\ kept' = [kept EXCEPT ![p] = {}]

\* prunable_releases: releases() ...  The ticker begins a run of its own accord.
ReadReleases(p) ==
    /\ pc[p] = "idle"
    /\ IF p = Task THEN UNCHANGED edits ELSE Edit
    /\ all' = [all EXCEPT ![p] = rows]
    /\ pc' = [pc EXCEPT ![p] = "pins"]
    /\ UNCHANGED <<rows, desired, active, registry, calls, deploying, pins, stale, kept,
                   faults>>

\* Mutant: the pinned releases are not spared.
ReadPins_SparesNone(p) ==
    /\ pc[p] = "pins"
    /\ pins' = [pins EXCEPT ![p] = {desired, active}]
    /\ stale' = [stale EXCEPT ![p] = Beyond(all[p])]
    /\ pc' = [pc EXCEPT ![p] = "kept"]
    /\ UNCHANGED <<rows, desired, active, registry, calls, deploying, all, kept,
                   edits, faults>>

\* ... then the pins, and what lies beyond the newest and is not pinned.
ReadPins(p) ==
    /\ pc[p] = "pins"
    /\ pins' = [pins EXCEPT ![p] = {desired, active}]
    /\ stale' = [stale EXCEPT ![p] = {r \in Beyond(all[p]) : r.id \notin {desired, active}}]
    /\ pc' = [pc EXCEPT ![p] = "kept"]
    /\ UNCHANGED <<rows, desired, active, registry, calls, deploying, all, kept,
                   edits, faults>>

ReadKept(p) ==
    /\ pc[p] = "kept"
    /\ kept' = [kept EXCEPT ![p] = {r.digest : r \in {s \in rows : \A x \in stale[p] : x.id # s.id}}]
    /\ pc' = [pc EXCEPT ![p] = "next"]
    /\ UNCHANGED <<rows, desired, active, registry, calls, deploying, all, pins, stale,
                   edits, faults>>

\* The loop takes the stale releases in the order they were listed.
First(p, r) == r \in stale[p] /\ \A s \in stale[p] : ~Before(s, r)

PruneDone(p) ==
    /\ pc[p] = "next" /\ stale[p] = {}
    /\ Rest(p)
    /\ UNCHANGED <<rows, desired, active, registry, calls, deploying, edits, faults>>

\* delete_manifest, for an image no retained release shares: every tag of that
\* digest is gone with it; 404 is a success; any other answer ends the run.
delete_manifest(p) ==
    /\ pc[p] = "next"
    /\ \E r \in stale[p] :
        /\ First(p, r) /\ r.digest \notin kept[p]
        /\ registry' = [t \in Tag |-> IF registry[t] = r.digest THEN None ELSE registry[t]]
    /\ pc' = [pc EXCEPT ![p] = "row"]
    /\ UNCHANGED <<rows, desired, active, calls, deploying, all, pins, stale, kept,
                   edits, faults>>

RegistryFails(p) ==
    /\ pc[p] = "next"
    /\ \E r \in stale[p] : First(p, r) /\ r.digest \notin kept[p]
    /\ Fault("registry")
    /\ Rest(p)
    /\ UNCHANGED <<rows, desired, active, registry, calls, deploying, edits>>

\* Mutant: the schema does not restrict the deletion.
delete_release_Unrestricted(p) ==
    /\ \E r \in stale[p] :
        /\ First(p, r)
        /\ pc[p] = "row" \/ (pc[p] = "next" /\ r.digest \in kept[p])
        /\ rows' = {s \in rows : s.id # r.id}
        /\ stale' = [stale EXCEPT ![p] = @ \ {r}]
    /\ pc' = [pc EXCEPT ![p] = "next"]
    /\ UNCHANGED <<desired, active, registry, calls, deploying, all, pins, kept, edits, faults>>

\* delete_release; "on delete restrict" ends the run for a pinned release.
delete_release(p) ==
    /\ \E r \in stale[p] :
        /\ First(p, r)
        /\ pc[p] = "row" \/ (pc[p] = "next" /\ r.digest \in kept[p])
        /\ IF r.id \in {desired, active}
           THEN Rest(p) /\ UNCHANGED rows
           ELSE /\ rows' = {s \in rows : s.id # r.id}
                /\ stale' = [stale EXCEPT ![p] = @ \ {r}]
                /\ pc' = [pc EXCEPT ![p] = "next"]
                /\ UNCHANGED <<all, pins, kept>>
    /\ UNCHANGED <<desired, active, registry, calls, deploying, edits, faults>>

Prune(p) ==
    \/ ReadReleases(p) \/ ReadPins(p) \/ ReadKept(p)
    \/ delete_manifest(p) \/ RegistryFails(p) \/ delete_release(p) \/ PruneDone(p)

Next ==
    \/ \E p \in Pruner : Prune(p)
    \/ \E t \in Tag : \/ \E d \in Digest : push(t, d)
                      \/ \E i \in Uuid, deploy \in BOOLEAN : register_release(i, t, deploy)
    \/ \E r \in rows : rollback_deployment(r)
    \/ \E call \in calls : \/ \E now \in 0 .. MaxSeconds : create_release(call, now)
                           \/ set_desired_release(call)
    \/ StartDeploy \/ EndDeploy \/ Crash

Spec == Init /\ [][Next]_vars

\* The task's ticker fires again and again and its calls return.
LiveSpec == Spec /\ \A p \in Pruner : WF_vars(Prune(p))

-----------------------------------------------------------------------------
(* Properties                                                              *)

\* The releases that retention owes the user.
Retained == {r \in rows : Cardinality(Ahead(rows, r)) < Keep \/ r.id \in {desired, active}}

\* A step loses the image of a row that had it.
Loses(r) == registry[r.tag] = r.digest /\ registry'[r.tag] # r.digest

\* As long as the rows and the pins are those a run has read, it deletes the
\* image of no retained release, whichever digests the releases share and
\* whatever an overlapping run deletes meanwhile.
PruneSparesRetained ==
    [][\A p \in Pruner : delete_manifest(p) /\ pins[p] = {desired, active} /\ rows \subseteq all[p]
                         => \A r \in Retained : ~Loses(r)]_vars

\* Runs that fail half way, on the registry, on the foreign key or by a crash,
\* are made up for: in the end only retained releases have a row.
PrunesAll == <>[](rows = Retained)

\* The release that is queued has its image.  The tests of prunable_releases
\* say so ("v2 is queued and must survive"); it holds for the row alone.
QueuedSurvives == \A r \in rows : r.id = desired => registry[r.tag] # None
=============================================================================
