-------------------------- MODULE RetentionProofs --------------------------
(***************************************************************************)
(* Theorems about Retention, for any number of runs, releases and API      *)
(* calls: its types, and that a run whose reads still hold deletes no      *)
(* image of a retained release.                                            *)
(*                                                                         *)
(* The argument: an id is never given twice while a run may remember it    *)
(* (Fresh, Same), so that a row a run has read and that is still there has *)
(* been there all the time, and its digest is kept unless it is stale      *)
(* itself (Kept).  And no stale release becomes one of the newest by what  *)
(* overlapping runs delete, because whatever is deleted has Keep rows      *)
(* ahead of it, which are ahead of everything after it too (Newer).        *)
(***************************************************************************)
EXTENDS Retention, FiniteSetTheorems, TLAPS

-----------------------------------------------------------------------------
(* The order of releases                                                   *)

LEMMA ReleaseFields ==
    ASSUME NEW r \in Release
    PROVE  r.id \in Nat /\ r.id \in Uuid /\ r.at \in Nat /\ r.tag \in Tag /\ r.digest \in Digest
<1>1. r.id \in Uuid /\ r.at \in 0 .. MaxSeconds /\ r.tag \in Tag /\ r.digest \in Digest
  BY DEF Release
<1>2. r.id \in Nat
  BY <1>1, UuidOrder
<1>3. r.at \in Nat
  BY <1>1
<1> QED BY <1>1, <1>2, <1>3

LEMMA BeforeIsOrder ==
    ASSUME NEW r \in Release, NEW s \in Release, NEW t \in Release
    PROVE  /\ ~Before(r, r)
           /\ Before(r, s) /\ Before(s, t) => Before(r, t)
BY ReleaseFields DEF Before

\* Taking away a release that has Keep rows ahead of it leaves Keep rows ahead
\* of every release that had them.
LEMMA AheadSurvives ==
    ASSUME NEW S \in SUBSET Release, IsFiniteSet(S), NEW x \in Release, NEW y \in Release,
           Cardinality(Ahead(S, x)) >= Keep, Cardinality(Ahead(S, y)) >= Keep
    PROVE  Cardinality(Ahead(S \ {y}, x)) >= Keep
<1>1. CASE Before(y, x)
  <2>1. Ahead(S, y) \subseteq Ahead(S \ {y}, x)
    BY <1>1, BeforeIsOrder DEF Ahead
  <2>2. IsFiniteSet(Ahead(S \ {y}, x)) /\ IsFiniteSet(Ahead(S, y))
    BY FS_Subset DEF Ahead
  <2>3. Cardinality(Ahead(S, y)) <= Cardinality(Ahead(S \ {y}, x))
    BY <2>1, <2>2, FS_Subset
  <2>4. Cardinality(Ahead(S, y)) \in Nat /\ Cardinality(Ahead(S \ {y}, x)) \in Nat
    BY <2>2, FS_CardinalityType
  <2> QED BY <2>3, <2>4, KeepChecked
<1>2. CASE ~Before(y, x)
  <2>1. Ahead(S \ {y}, x) = Ahead(S, x)
    BY <1>2 DEF Ahead
  <2> QED BY <2>1
<1> QED BY <1>1, <1>2

\* A new row takes nothing from what is ahead of the others.
LEMMA AheadGrows ==
    ASSUME NEW S, IsFiniteSet(S), NEW n, NEW x, Cardinality(Ahead(S, x)) >= Keep
    PROVE  Cardinality(Ahead(S \union {n}, x)) >= Keep
<1>1. IsFiniteSet(S \union {n})
  BY FS_AddElement
<1>2. IsFiniteSet(Ahead(S, x)) /\ IsFiniteSet(Ahead(S \union {n}, x))
  BY <1>1, FS_Subset DEF Ahead
<1>3. Ahead(S, x) \subseteq Ahead(S \union {n}, x)
  BY DEF Ahead
<1>4. Cardinality(Ahead(S, x)) <= Cardinality(Ahead(S \union {n}, x))
  BY <1>2, <1>3, FS_Subset
<1> QED BY <1>2, <1>4, FS_CardinalityType, KeepChecked

-----------------------------------------------------------------------------
(* The inductive invariant                                                 *)

\* The row an upload is about to insert has an id of its own.
Fresh ==
    \A c \in calls : c.step = "insert" =>
        /\ c.id \notin Ids
        /\ \A d \in calls : d.step = "insert" /\ d.id = c.id => d = c
        /\ \A p \in Pruner : \A r \in all[p] : r.id # c.id

\* The rows a run has read are told apart by their ids, then and now.
Same(p) ==
    /\ \A r, s \in all[p] : r.id = s.id => r = s
    /\ \A r \in all[p], s \in rows : r.id = s.id => r = s

Stale(p) ==
    /\ pc[p] \in {"idle", "pins"} => stale[p] = {}
    /\ \A r \in stale[p] : r \in Beyond(all[p]) /\ r.id \notin pins[p]

\* What the run has read and is still there is stale, or keeps its digest.
Kept(p) ==
    pc[p] \in {"next", "row"} =>
        \A r \in all[p] \intersect rows : r \in stale[p] \/ r.digest \in kept[p]

\* What was beyond the newest when the run read it still is.
Newer(p) == \A r \in Beyond(all[p]) : Cardinality(Ahead(rows, r)) >= Keep

RunOK(p) == Same(p) /\ Stale(p) /\ Kept(p) /\ Newer(p)

RetentionInv == IsFiniteSet(rows) /\ Fresh /\ \A p \in Pruner : RunOK(p)

LEMMA TypeInit == Init => TypeOK
BY Bounds DEF Init, TypeOK

LEMMA InvInit == Init => RetentionInv
BY FS_EmptySet DEF Init, RetentionInv, Fresh, RunOK, Same, Stale, Kept, Newer, Beyond, Ids

-----------------------------------------------------------------------------
(* Types of the steps                                                      *)

LEMMA Counters ==
    ASSUME TypeOK, NEW kind
    PROVE  /\ Edit => edits' \in 0 .. MaxEdits
           /\ Fault(kind) => faults' \in 0 .. MaxFaults
BY Bounds DEF TypeOK, Edit, Fault

\* The parts of the type that pruning leaves alone, and those it does not.
RowsOK ==
    /\ rows \subseteq Release
    /\ \A r, s \in rows : r.id = s.id \/ r.tag = s.tag => r = s
    /\ {desired, active} \ {None} \subseteq Ids
RunsOK ==
    /\ pc \in [Pruner -> {"idle", "pins", "kept", "next", "row"}]
    /\ all \in [Pruner -> SUBSET Release]
    /\ pins \in [Pruner -> SUBSET (Uuid \union {None})]
    /\ stale \in [Pruner -> SUBSET Release]
    /\ kept \in [Pruner -> SUBSET Digest]
    /\ \A p \in Pruner : pc[p] = "row" => stale[p] # {}
RestOK ==
    /\ registry \in [Tag -> Digest \union {None}]
    /\ calls \subseteq Call
    /\ deploying \in Uuid \union {None}
    /\ edits \in 0 .. MaxEdits
    /\ faults \in 0 .. MaxFaults

LEMMA TypeParts == TypeOK <=> RowsOK /\ RunsOK /\ RestOK
BY DEF TypeOK, RowsOK, RunsOK, RestOK, Ids
LEMMA TypePartsNext == RowsOK' /\ RunsOK' /\ RestOK' => TypeOK'
BY DEF TypeOK, RowsOK, RunsOK, RestOK, Ids

LEMMA PinTypes ==
    ASSUME TypeOK PROVE {desired, active} \subseteq Uuid \union {None} /\ Ids \subseteq Uuid
BY DEF TypeOK, Ids, Release

\* The steps of handlers and deploys.
Other ==
    \/ \E t \in Tag : \/ \E d \in Digest : push(t, d)
                      \/ \E i \in Uuid, deploy \in BOOLEAN : register_release(i, t, deploy)
    \/ \E r \in rows : rollback_deployment(r)
    \/ \E call \in calls : set_desired_release(call)
    \/ StartDeploy \/ EndDeploy

LEMMA OtherTypes == ASSUME TypeOK, Other PROVE TypeOK'
<1>0. RowsOK /\ RunsOK /\ RestOK
  BY TypeParts
<1>1. ASSUME NEW t \in Tag, NEW d \in Digest, push(t, d) PROVE TypeOK'
  BY <1>1, Counters DEF push, prunes, TypeOK
<1>2. ASSUME NEW t \in Tag, NEW i \in Uuid, NEW deploy \in BOOLEAN, register_release(i, t, deploy)
      PROVE  TypeOK'
  <2>1. [step |-> "insert", id |-> i, tag |-> t, digest |-> registry[t], deploy |-> deploy] \in Call
    BY <1>0, <1>2 DEF register_release, RestOK, Call
  <2>2. calls' \subseteq Call
    BY <1>0, <1>2, <2>1 DEF register_release, RestOK
  <2> QED BY <1>2, <2>2, Counters DEF register_release, prunes, TypeOK
<1>3. ASSUME NEW r \in rows, rollback_deployment(r) PROVE TypeOK'
  <2>1. [step |-> "desire", id |-> r.id, tag |-> r.tag, digest |-> r.digest, deploy |-> TRUE] \in Call
    BY <1>0, ReleaseFields DEF RowsOK, Call
  <2>2. calls' \subseteq Call
    BY <1>0, <1>3, <2>1 DEF rollback_deployment, RestOK
  <2> QED BY <1>3, <2>2, Counters DEF rollback_deployment, prunes, TypeOK
<1>4. ASSUME NEW c \in calls, set_desired_release(c) PROVE TypeOK'
  <2>1. {desired', active'} \ {None} \subseteq Ids
    BY <1>0, <1>4 DEF set_desired_release, RowsOK
  <2> QED BY <1>4, <2>1 DEF set_desired_release, prunes, TypeOK, Ids
<1>5. CASE StartDeploy
  BY <1>5, PinTypes DEF StartDeploy, prunes, TypeOK
<1>6. CASE EndDeploy
  <2>1. {desired', active'} \ {None} \subseteq Ids
    BY <1>0, <1>6 DEF EndDeploy, RowsOK
  <2> QED BY <1>6, <2>1 DEF EndDeploy, prunes, TypeOK, Ids
<1> QED BY <1>1, <1>2, <1>3, <1>4, <1>5, <1>6 DEF Other

LEMMA InsertTypes ==
    ASSUME TypeOK, Fresh, NEW c \in calls, NEW now \in 0 .. MaxSeconds, create_release(c, now)
    PROVE  TypeOK'
<1>0. RowsOK /\ RunsOK /\ RestOK
  BY TypeParts
<1>1. c \in Call /\ c.step = "insert" /\ c.id \in Uuid /\ c.tag \in Tag /\ c.digest \in Digest
  BY <1>0 DEF create_release, RestOK, Call
<1>2. c.id \notin Ids
  BY <1>1 DEF Fresh
<1> DEFINE n == [id |-> c.id, tag |-> c.tag, digest |-> c.digest, at |-> now]
<1>3. n \in Release /\ n.id = c.id /\ n.tag = c.tag
  BY <1>0, <1>1 DEF RestOK, Release
<1> HIDE DEF n
<1>4. \/ rows' = rows
      \/ rows' = rows \union {n} /\ \A r \in rows : r.tag # c.tag
  BY DEF create_release, n
<1>5. RowsOK'
  <2>1. rows' \subseteq Release /\ UNCHANGED <<desired, active>> /\ rows \subseteq rows'
    BY <1>0, <1>3, <1>4 DEF RowsOK, create_release
  <2>2. \A r, s \in rows' : r.id = s.id \/ r.tag = s.tag => r = s
    <3>1. \A r \in rows : r.id # n.id
      BY <1>2, <1>3 DEF Ids
    <3> QED BY <1>0, <1>3, <1>4, <3>1 DEF RowsOK
  <2> QED BY <1>0, <2>1, <2>2 DEF RowsOK, Ids
<1>6. calls' \subseteq Call
  <2>1. [c EXCEPT !.step = "desire"] \in Call
    BY <1>1 DEF Call
  <2> QED BY <1>0, <2>1 DEF RestOK, create_release
<1>7. RunsOK' /\ RestOK'
  BY <1>0, <1>6 DEF create_release, prunes, RunsOK, RestOK
<1> QED BY <1>5, <1>7, TypePartsNext

LEMMA RestTypes == ASSUME RunsOK, NEW p \in Pruner, Rest(p) PROVE RunsOK'
BY DEF RunsOK, Rest

LEMMA PruneTypes == ASSUME TypeOK, NEW p \in Pruner, Prune(p) PROVE TypeOK'
<1>0. RowsOK /\ RunsOK /\ RestOK
  BY TypeParts
<1>1. CASE ReadReleases(p)
  <2>1. edits' \in 0 .. MaxEdits
    BY <1>0, <1>1, Counters DEF ReadReleases, RestOK
  <2> QED BY <1>1, <2>1 DEF ReadReleases, TypeOK
<1>2. CASE ReadPins(p)
  <2>1. {desired, active} \subseteq Uuid \union {None} /\ Beyond(all[p]) \subseteq Release
    BY <1>0, PinTypes DEF RunsOK, Beyond
  <2>2. RunsOK'
    BY <1>0, <1>2, <2>1 DEF ReadPins, RunsOK
  <2> QED BY <1>0, <1>2, <2>2, TypePartsNext DEF ReadPins, RowsOK, RestOK, Ids
<1>3. CASE ReadKept(p)
  <2>1. {r.digest : r \in {s \in rows : \A x \in stale[p] : x.id # s.id}} \subseteq Digest
    BY <1>0, ReleaseFields DEF RowsOK
  <2>2. RunsOK'
    BY <1>0, <1>3, <2>1 DEF ReadKept, RunsOK
  <2> QED BY <1>0, <1>3, <2>2, TypePartsNext DEF ReadKept, RowsOK, RestOK, Ids
<1>4. CASE PruneDone(p)
  BY <1>0, <1>4, RestTypes, TypePartsNext DEF PruneDone, RowsOK, RestOK, Ids
<1>5. CASE delete_manifest(p)
  <2>1. RunsOK'
    BY <1>0, <1>5 DEF delete_manifest, RunsOK
  <2>2. registry' \in [Tag -> Digest \union {None}]
    BY <1>0, <1>5 DEF delete_manifest, RestOK
  <2> QED BY <1>0, <1>5, <2>1, <2>2, TypePartsNext DEF delete_manifest, RowsOK, RestOK, Ids
<1>6. CASE RegistryFails(p)
  <2>1. faults' \in 0 .. MaxFaults
    BY <1>6, Counters DEF RegistryFails
  <2> QED BY <1>0, <1>6, <2>1, RestTypes, TypePartsNext DEF RegistryFails, RowsOK, RestOK, Ids
<1>7. CASE delete_release(p)
  <2>1. CASE Rest(p) /\ UNCHANGED rows
    BY <1>0, <1>7, <2>1, RestTypes, TypePartsNext DEF delete_release, RowsOK, RestOK, Ids
  <2>2. ASSUME NEW r \in stale[p], r.id \notin {desired, active},
               rows' = {s \in rows : s.id # r.id}, stale' = [stale EXCEPT ![p] = @ \ {r}],
               pc' = [pc EXCEPT ![p] = "next"], UNCHANGED <<all, pins, kept>>
        PROVE  TypeOK'
    <3>1. RowsOK'
      BY <1>0, <1>7, <2>2 DEF delete_release, RowsOK, Ids
    <3>2. RunsOK'
      BY <1>0, <2>2 DEF RunsOK
    <3> QED BY <1>0, <1>7, <3>1, <3>2, TypePartsNext DEF delete_release, RestOK
  <2> QED BY <1>7, <2>1, <2>2 DEF delete_release
<1> QED BY <1>1, <1>2, <1>3, <1>4, <1>5, <1>6, <1>7 DEF Prune

LEMMA CrashTypes == ASSUME TypeOK, Crash PROVE TypeOK'
<1>1. faults' \in 0 .. MaxFaults
  BY Counters DEF Crash
<1> QED BY <1>1 DEF Crash, TypeOK

LEMMA Steps == [Next]_vars =>
    \/ Other \/ Crash \/ UNCHANGED vars
    \/ \E p \in Pruner : Prune(p)
    \/ \E c \in calls, now \in 0 .. MaxSeconds : create_release(c, now)
BY DEF Next, Other

LEMMA TypeNext == ASSUME TypeOK, Fresh, [Next]_vars PROVE TypeOK'
<1>1. CASE UNCHANGED vars
  BY <1>1 DEF vars, prunes, TypeOK
<1> QED BY <1>1, Steps, OtherTypes, CrashTypes, PruneTypes, InsertTypes

-----------------------------------------------------------------------------
(* The invariant is inductive                                              *)

\* Only the rows and what the runs have read matter to RunOK.
LEMMA RunsUndisturbed ==
    ASSUME RetentionInv, UNCHANGED <<rows, prunes>>
    PROVE  IsFiniteSet(rows)' /\ \A p \in Pruner : RunOK(p)'
BY DEF RetentionInv, RunOK, Same, Stale, Kept, Newer, Beyond, prunes

\* A step that adds no insertion, no row and no reading keeps ids fresh.
LEMMA FreshKept ==
    ASSUME Fresh, rows' \subseteq rows,
           \A c \in calls' : c.step = "insert" => c \in calls,
           \A p \in Pruner : all'[p] \subseteq all[p] \union rows
    PROVE  Fresh'
BY DEF Fresh, Ids

LEMMA OtherInv == ASSUME RetentionInv, Other PROVE RetentionInv'
<1>1. UNCHANGED <<rows, prunes>>
  BY DEF Other, push, register_release, rollback_deployment, set_desired_release,
         StartDeploy, EndDeploy
<1>2. IsFiniteSet(rows)' /\ \A p \in Pruner : RunOK(p)'
  BY <1>1, RunsUndisturbed
<1>3. Fresh'
  <2>1. CASE \A c \in calls' : c.step = "insert" => c \in calls
    <3>1. UNCHANGED all
      BY <1>1 DEF prunes
    <3> QED BY <1>1, <2>1, <3>1, FreshKept DEF RetentionInv
  <2>2. ASSUME NEW i \in Uuid, NEW t \in Tag, NEW deploy \in BOOLEAN, register_release(i, t, deploy)
        PROVE  Fresh'
    <3> DEFINE n == [step |-> "insert", id |-> i, tag |-> t,
                     digest |-> registry[t], deploy |-> deploy]
    <3>1. n.id = i /\ calls' = calls \union {n}
      BY <2>2 DEF register_release
    <3>2. /\ i \notin Ids /\ \A c \in calls : c.id # i
          /\ \A p \in Pruner : \A r \in all[p] : r.id # i
      BY <2>2 DEF register_release
    <3>3. UNCHANGED <<rows, all>>
      BY <1>1 DEF prunes
    <3> HIDE DEF n
    <3> QED BY <3>1, <3>2, <3>3 DEF Fresh, RetentionInv, Ids
  <2>3. ASSUME NEW r \in rows, rollback_deployment(r)
        PROVE  \A c \in calls' : c.step = "insert" => c \in calls
    BY <2>3 DEF rollback_deployment
  <2>4. ASSUME NEW c \in calls, set_desired_release(c)
        PROVE  calls' \subseteq calls
    BY <2>4 DEF set_desired_release
  <2>5. (\E t \in Tag, d \in Digest : push(t, d)) \/ StartDeploy \/ EndDeploy
        => UNCHANGED calls
    BY DEF push, StartDeploy, EndDeploy
  <2> QED BY <2>1, <2>2, <2>3, <2>4, <2>5 DEF Other
<1> QED BY <1>2, <1>3 DEF RetentionInv

\* The row an upload inserts: it is unlike all that the runs have read.
LEMMA InsertInv ==
    ASSUME TypeOK, RetentionInv, NEW c \in calls, NEW now \in 0 .. MaxSeconds, create_release(c, now)
    PROVE  RetentionInv'
<1> DEFINE n == [id |-> c.id, tag |-> c.tag, digest |-> c.digest, at |-> now]
<1>1. n.id = c.id
  OBVIOUS
<1>2. /\ c.step = "insert" /\ UNCHANGED prunes
      /\ \/ rows' = rows
         \/ rows' = rows \union {n}
  BY DEF create_release
<1> HIDE DEF n
<1>3. UNCHANGED <<pc, all, pins, stale, kept>>
  BY <1>2 DEF prunes
<1>4. c.id \notin Ids /\ \A p \in Pruner : \A r \in all[p] : r.id # c.id
  BY <1>2 DEF RetentionInv, Fresh
<1>5. IsFiniteSet(rows')
  BY <1>2, FS_AddElement DEF RetentionInv
<1>6. Fresh'
  <2>1. \A d \in calls' : d.step = "insert" => d \in calls /\ d # c
    <3>1. c \in Call
      BY DEF TypeOK
    <3>2. [c EXCEPT !.step = "desire"].step = "desire"
      BY <3>1 DEF Call
    <3> QED BY <3>2 DEF create_release
  <2>2. \A d \in calls' : d.step = "insert" => d.id # c.id
    BY <1>2, <2>1 DEF RetentionInv, Fresh
  <2> QED BY <1>1, <1>2, <1>3, <2>1, <2>2 DEF RetentionInv, Fresh, Ids
<1>7. ASSUME NEW p \in Pruner PROVE RunOK(p)'
  <2>1. RunOK(p)
    BY DEF RetentionInv
  <2>2. Same(p)'
    BY <1>1, <1>2, <1>3, <1>4, <2>1 DEF RunOK, Same
  <2>3. Stale(p)'
    BY <1>3, <2>1 DEF RunOK, Stale, Beyond, Ahead, Before
  <2>4. Kept(p)'
    <3>1. n \notin all[p]
      BY <1>1, <1>4
    <3> QED BY <1>2, <1>3, <2>1, <3>1 DEF RunOK, Kept
  <2>5. Newer(p)'
    <3>1. ASSUME NEW r \in Beyond(all[p]) PROVE Cardinality(Ahead(rows', r)) >= Keep
      <4>1. Cardinality(Ahead(rows, r)) >= Keep
        BY <2>1 DEF RunOK, Newer
      <4> QED BY <1>2, <4>1, AheadGrows DEF RetentionInv
    <3> QED BY <1>3, <3>1 DEF Newer, Beyond, Ahead, Before
  <2> QED BY <2>2, <2>3, <2>4, <2>5 DEF RunOK
<1> QED BY <1>5, <1>6, <1>7 DEF RetentionInv

LEMMA CrashInv == ASSUME RetentionInv, Crash PROVE RetentionInv'
<1>1. /\ calls' = {} /\ UNCHANGED rows
      /\ \A p \in Pruner : pc'[p] = "idle" /\ all'[p] = {} /\ stale'[p] = {}
  BY DEF Crash
<1> QED BY <1>1 DEF RetentionInv, Fresh, RunOK, Same, Stale, Kept, Newer, Beyond, Ids

-----------------------------------------------------------------------------
(* The steps of a run                                                      *)

\* The other runs do not notice, as long as the rows stay.
LEMMA OtherRuns ==
    ASSUME NEW q \in Pruner, RunOK(q), UNCHANGED rows,
           pc'[q] = pc[q], all'[q] = all[q], pins'[q] = pins[q],
           stale'[q] = stale[q], kept'[q] = kept[q]
    PROVE  RunOK(q)'
BY DEF RunOK, Same, Stale, Kept, Newer, Beyond

\* A run that is over has read nothing.
LEMMA AtRest ==
    ASSUME RetentionInv, RunsOK, NEW p \in Pruner, Rest(p), UNCHANGED <<rows, calls>>
    PROVE  RetentionInv'
<1>1. pc'[p] = "idle" /\ all'[p] = {} /\ stale'[p] = {}
  BY DEF Rest, RunsOK
<1>2. \A q \in Pruner \ {p} : /\ pc'[q] = pc[q] /\ all'[q] = all[q] /\ pins'[q] = pins[q]
                              /\ stale'[q] = stale[q] /\ kept'[q] = kept[q]
  BY DEF Rest, RunsOK
<1>3. RunOK(p)'
  BY <1>1 DEF RunOK, Same, Stale, Kept, Newer, Beyond
<1>4. \A q \in Pruner \ {p} : RunOK(q)'
  BY <1>2, OtherRuns DEF RetentionInv
<1>5. Fresh'
  <2>1. \A q \in Pruner : all'[q] \subseteq all[q]
    BY <1>1, <1>2
  <2> QED BY <2>1, FreshKept DEF RetentionInv
<1> QED BY <1>3, <1>4, <1>5 DEF RetentionInv

LEMMA ReadInv ==
    ASSUME TypeOK, RetentionInv, NEW p \in Pruner, ReadReleases(p)
    PROVE  RetentionInv'
<1>0. RowsOK /\ RunsOK
  BY TypeParts
<1>1. /\ pc[p] = "idle" /\ pc'[p] = "pins" /\ all'[p] = rows /\ stale'[p] = stale[p]
      /\ UNCHANGED <<rows, calls>>
  BY <1>0 DEF ReadReleases, RunsOK
<1>2. \A q \in Pruner \ {p} : /\ pc'[q] = pc[q] /\ all'[q] = all[q] /\ pins'[q] = pins[q]
                              /\ stale'[q] = stale[q] /\ kept'[q] = kept[q]
  BY <1>0 DEF ReadReleases, RunsOK
<1>3. RunOK(p)'
  <2>1. Same(p)'
    BY <1>0, <1>1 DEF Same, RowsOK
  <2>2. Stale(p)'
    BY <1>1 DEF RetentionInv, RunOK, Stale
  <2>3. Kept(p)'
    BY <1>1 DEF Kept
  <2>4. Newer(p)'
    BY <1>1 DEF Newer, Beyond
  <2> QED BY <2>1, <2>2, <2>3, <2>4 DEF RunOK
<1>4. \A q \in Pruner \ {p} : RunOK(q)'
  BY <1>1, <1>2, OtherRuns DEF RetentionInv
<1>5. Fresh'
  <2>1. \A q \in Pruner : all'[q] \subseteq all[q] \union rows
    BY <1>1, <1>2
  <2> QED BY <1>1, <2>1, FreshKept DEF RetentionInv
<1> QED BY <1>1, <1>3, <1>4, <1>5 DEF RetentionInv

\* Steps of a run that change neither the rows nor what was read of them.
LEMMA StepsOfRun ==
    ASSUME RetentionInv, RunsOK, NEW p \in Pruner, UNCHANGED <<rows, calls, all>>, RunOK(p)',
           \A q \in Pruner \ {p} : /\ pc'[q] = pc[q] /\ pins'[q] = pins[q]
                                   /\ stale'[q] = stale[q] /\ kept'[q] = kept[q]
    PROVE  RetentionInv'
<1>1. \A q \in Pruner \ {p} : RunOK(q)'
  BY OtherRuns DEF RetentionInv
<1>2. Fresh'
  BY FreshKept DEF RetentionInv
<1> QED BY <1>1, <1>2 DEF RetentionInv

LEMMA PinsInv ==
    ASSUME TypeOK, RetentionInv, NEW p \in Pruner, ReadPins(p)
    PROVE  RetentionInv'
<1>0. RunsOK
  BY TypeParts
<1>1. /\ pc'[p] = "kept" /\ pins'[p] = {desired, active} /\ UNCHANGED <<rows, calls, all>>
      /\ stale'[p] = {r \in Beyond(all[p]) : r.id \notin {desired, active}}
  BY <1>0 DEF ReadPins, RunsOK
<1>2. \A q \in Pruner \ {p} : /\ pc'[q] = pc[q] /\ pins'[q] = pins[q]
                              /\ stale'[q] = stale[q] /\ kept'[q] = kept[q]
  BY <1>0 DEF ReadPins, RunsOK
<1>3. RunOK(p)'
  BY <1>1 DEF RetentionInv, RunOK, Same, Stale, Kept, Newer, Beyond
<1> QED BY <1>0, <1>1, <1>2, <1>3, StepsOfRun

LEMMA KeptInv ==
    ASSUME TypeOK, RetentionInv, NEW p \in Pruner, ReadKept(p)
    PROVE  RetentionInv'
<1>0. RunsOK
  BY TypeParts
<1>1. /\ pc'[p] = "next" /\ UNCHANGED <<rows, calls, all, pins, stale>>
      /\ kept'[p] = {r.digest : r \in {s \in rows : \A x \in stale[p] : x.id # s.id}}
  BY <1>0 DEF ReadKept, RunsOK
<1>2. \A q \in Pruner \ {p} : pc'[q] = pc[q] /\ kept'[q] = kept[q]
  BY <1>0 DEF ReadKept, RunsOK
<1>3. RunOK(p)
  BY DEF RetentionInv
<1>4. Kept(p)'
  <2>1. ASSUME NEW r \in all[p] \intersect rows, r \notin stale[p] PROVE r.digest \in kept'[p]
    <3>1. \A x \in stale[p] : x \in all[p]
      BY <1>3 DEF RunOK, Stale, Beyond
    <3>2. \A x \in stale[p] : x.id # r.id
      BY <1>3, <2>1, <3>1 DEF RunOK, Same
    <3> QED BY <1>1, <3>2
  <2> QED BY <1>1, <2>1 DEF Kept
<1>5. pc[p] = "kept"
  BY DEF ReadKept
<1>6. RunOK(p)'
  BY <1>1, <1>3, <1>4, <1>5 DEF RunOK, Same, Stale, Newer, Beyond
<1> QED BY <1>0, <1>1, <1>2, <1>6, StepsOfRun

LEMMA ManifestInv ==
    ASSUME TypeOK, RetentionInv, NEW p \in Pruner, delete_manifest(p)
    PROVE  RetentionInv'
<1>0. RunsOK
  BY TypeParts
<1>1. /\ pc[p] = "next" /\ pc'[p] = "row"
      /\ UNCHANGED <<rows, calls, all, pins, stale, kept>>
      /\ \A q \in Pruner \ {p} : pc'[q] = pc[q]
  BY <1>0 DEF delete_manifest, RunsOK
<1>2. RunOK(p)'
  BY <1>1 DEF RetentionInv, RunOK, Same, Stale, Kept, Newer, Beyond
<1> QED BY <1>0, <1>1, <1>2, StepsOfRun

\* The row of a stale release goes: whatever was beyond the newest still is.
LEMMA RowInv ==
    ASSUME TypeOK, RetentionInv, NEW p \in Pruner, delete_release(p)
    PROVE  RetentionInv'
<1>0. RowsOK /\ RunsOK
  BY TypeParts
<1>1. UNCHANGED calls
  BY DEF delete_release
<1>2. CASE Rest(p) /\ UNCHANGED rows
  BY <1>0, <1>1, <1>2, AtRest
<1>3. ASSUME NEW r \in stale[p], pc[p] \in {"next", "row"},
             rows' = {s \in rows : s.id # r.id}, stale' = [stale EXCEPT ![p] = @ \ {r}],
             pc' = [pc EXCEPT ![p] = "next"], UNCHANGED <<all, pins, kept>>
      PROVE  RetentionInv'
  <2>1. RunOK(p) /\ r \in Beyond(all[p]) /\ r \in all[p] /\ r \in Release
    BY <1>0, <1>3 DEF RetentionInv, RunOK, Stale, Beyond, RunsOK
  <2>2. rows' = rows \ {r}
    BY <1>3, <2>1 DEF RunOK, Same
  <2>3. IsFiniteSet(rows')
    BY <2>2, FS_Subset DEF RetentionInv
  <2>4. \A q \in Pruner \ {p} : pc'[q] = pc[q] /\ stale'[q] = stale[q]
    BY <1>0, <1>3 DEF RunsOK
  <2>5. pc'[p] = "next" /\ stale'[p] = stale[p] \ {r}
    BY <1>0, <1>3 DEF RunsOK
  <2>6. Fresh'
    BY <1>1, <1>3, <2>2, FreshKept DEF RetentionInv
  <2>7. ASSUME NEW q \in Pruner PROVE RunOK(q)'
    <3>1. RunOK(q)
      BY DEF RetentionInv
    <3>2. Same(q)'
      BY <1>3, <2>2, <3>1 DEF RunOK, Same
    <3>3. Stale(q)'
      BY <1>3, <2>4, <2>5, <3>1 DEF RunOK, Stale, Beyond
    <3>4. Kept(q)'
      <4>1. CASE q = p
        BY <1>3, <2>2, <2>5, <3>1, <4>1 DEF RunOK, Kept
      <4>2. CASE q # p
        BY <1>3, <2>2, <2>4, <3>1, <4>2 DEF RunOK, Kept
      <4> QED BY <4>1, <4>2
    <3>5. Newer(q)'
      <4>1. ASSUME NEW x \in Beyond(all[q]) PROVE Cardinality(Ahead(rows', x)) >= Keep
        <5>1. x \in Release /\ rows \in SUBSET Release
          BY <1>0 DEF Beyond, RunsOK, RowsOK
        <5>2. Cardinality(Ahead(rows, x)) >= Keep /\ Cardinality(Ahead(rows, r)) >= Keep
          BY <2>1, <3>1 DEF RunOK, Newer
        <5> QED BY <2>1, <2>2, <5>1, <5>2, AheadSurvives DEF RetentionInv
      <4> QED BY <1>3, <4>1 DEF Newer, Beyond
    <3> QED BY <3>2, <3>3, <3>4, <3>5 DEF RunOK
  <2> QED BY <2>3, <2>6, <2>7 DEF RetentionInv
<1> QED BY <1>2, <1>3 DEF delete_release

LEMMA PruneInv == ASSUME TypeOK, RetentionInv, NEW p \in Pruner, Prune(p) PROVE RetentionInv'
<1>0. RunsOK
  BY TypeParts
<1>1. CASE PruneDone(p) \/ RegistryFails(p)
  BY <1>0, <1>1, AtRest DEF PruneDone, RegistryFails
<1> QED BY <1>1, ReadInv, PinsInv, KeptInv, ManifestInv, RowInv DEF Prune

LEMMA InvNext == ASSUME TypeOK, RetentionInv, [Next]_vars PROVE RetentionInv'
<1>1. CASE UNCHANGED vars
  <2>1. UNCHANGED <<rows, prunes, calls>>
    BY <1>1 DEF vars
  <2>2. Fresh'
    BY <2>1 DEF RetentionInv, Fresh, Ids, prunes
  <2> QED BY <2>1, <2>2, RunsUndisturbed DEF RetentionInv
<1> QED BY <1>1, Steps, OtherInv, CrashInv, PruneInv, InsertInv

LEMMA Invariants == Spec => [](TypeOK /\ RetentionInv)
<1>1. TypeOK /\ RetentionInv /\ [Next]_vars => (TypeOK /\ RetentionInv)'
  BY TypeNext, InvNext DEF RetentionInv
<1> QED BY TypeInit, InvInit, <1>1, PTL DEF Spec

-----------------------------------------------------------------------------
(* The theorems                                                            *)

\* Releases are told apart by id and by tag, the desired and the active one are
\* there, and the runs are where prune_deployment can be.
THEOREM RetentionTypeCorrect == Spec => []TypeOK
BY Invariants, PTL

\* prune_deployment deletes the image of no retained release while the rows and
\* the pins are those it has read.
THEOREM PruneSpares == Spec => PruneSparesRetained
<1>1. ASSUME TypeOK, RetentionInv, NEW p \in Pruner, delete_manifest(p),
             pins[p] = {desired, active}, rows \subseteq all[p], NEW r \in Retained
      PROVE  ~Loses(r)
  <2>1. RunOK(p) /\ pc[p] = "next" /\ r \in rows /\ r \in all[p]
    BY <1>1 DEF RetentionInv, delete_manifest, Retained
  <2>2. r \notin stale[p]
    <3>1. SUFFICES ASSUME r \in stale[p] PROVE FALSE
      OBVIOUS
    <3>2. r \in Beyond(all[p]) /\ r.id \notin {desired, active}
      BY <1>1, <2>1, <3>1 DEF RunOK, Stale
    <3>3. Cardinality(Ahead(rows, r)) >= Keep
      BY <2>1, <3>2 DEF RunOK, Newer
    <3>4. Cardinality(Ahead(rows, r)) < Keep
      BY <3>2 DEF Retained
    <3>5. Cardinality(Ahead(rows, r)) \in Nat
      <4>1. IsFiniteSet(Ahead(rows, r))
        BY <1>1, FS_Subset DEF RetentionInv, Ahead
      <4> QED BY <4>1, FS_CardinalityType
    <3> QED BY <3>3, <3>4, <3>5, KeepChecked
  <2>3. r.digest \in kept[p]
    BY <2>1, <2>2 DEF RunOK, Kept
  <2>4. PICK s \in stale[p] :
            /\ s.digest \notin kept[p]
            /\ registry' = [t \in Tag |-> IF registry[t] = s.digest THEN None ELSE registry[t]]
    BY <1>1 DEF delete_manifest
  <2>5. r.tag \in Tag
    BY <1>1, <2>1, ReleaseFields DEF TypeOK
  <2> QED BY <2>3, <2>4, <2>5 DEF Loses
<1>2. TypeOK /\ RetentionInv =>
        [\A p \in Pruner : delete_manifest(p) /\ pins[p] = {desired, active} /\ rows \subseteq all[p]
                           => \A r \in Retained : ~Loses(r)]_vars
  BY <1>1
<1> QED BY <1>2, Invariants, PTL DEF PruneSparesRetained

=============================================================================
