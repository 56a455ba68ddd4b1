------------------------------ MODULE Cutover ------------------------------
(***************************************************************************)
(* The end of a deploy, composed with the way of the rows to Caddy         *)
(* (ProxyApply): a new container that has passed its check is written as   *)
(* the upstream of the deployment's proxy host, the rows are applied, and  *)
(* the release becomes the active one, upon which the old containers go.   *)
(* A deploy that failed on this way is begun again.                        *)
(*                                                                         *)
(* One deployment with a proxy host that exists and is enabled; the hosts' *)
(* part of the configuration is its upstream.  Handlers change the rest: a *)
(* request that writes another upstream over the deploy's is left out.  A  *)
(* release stands for its container.                                       *)
(***************************************************************************)
EXTENDS ProxyApply

ASSUME NoneIsNothing == None \notin Applier \union Part

VARIABLES
    desired,    \* desired_release_id
    active,     \* active_release_id
    step,       \* the await point_proxy_at and its caller are at
    target,     \* the container of the deploy
    using       \* who runs the deploy's apply

proxy == <<rows, revisions, live, pc, got, rev, behind, stale, overtaken>>
deploying == <<step, target, using>>
cvars == <<vars, desired, active, deploying>>

Release == Part \ {Empty}

\* The deploy's part of the types.
DeployTypeOK ==
    /\ desired \in Release \union {None} /\ active \in Release \union {None}
    /\ step \in {"idle", "fetch", "point", "apply", "activate"}
    /\ target \in Release \union {None} /\ (step = "idle" <=> target = None)
    /\ using \in Applier \union {None} /\ (step = "apply" <=> using # None)
    /\ using # None => ~At(using, "idle")

CutoverTypeOK == TypeOK /\ DeployTypeOK

CutoverInit ==
    /\ Init
    /\ desired = None /\ active = None
    /\ step = "idle" /\ target = None /\ using = None

Proceed(s) == step' = s /\ UNCHANGED <<target, using, desired>>
End == step' = "idle" /\ target' = None /\ using' = None /\ UNCHANGED desired

-----------------------------------------------------------------------------
(* A deploy, from its health check on                                      *)

set_desired_release(r) ==
    /\ At(Main, "idle")
    /\ Edit
    /\ desired' = r
    /\ UNCHANGED <<proxy, faults, active, deploying>>

\* The container of the release that is queued runs and is well, be it a new
\* release or the active one, whose container was found stopped.
Healthy ==
    /\ At(Main, "idle") /\ step = "idle"
    /\ desired # None
    /\ step' = "fetch" /\ target' = desired
    /\ UNCHANGED <<vars, desired, active, using>>

PointsAt(container) == rows.hosts = container

fetch ==
    /\ step = "fetch"
    /\ Proceed(IF PointsAt(target) THEN "activate" ELSE "point")
    /\ UNCHANGED <<vars, active>>

set_upstream_container(a) ==
    /\ step = "point" /\ Free(a)
    /\ rows' = [rows EXCEPT !.hosts = target] /\ Overtakes
    /\ Begin(a)
    /\ step' = "apply" /\ using' = a
    /\ UNCHANGED <<revisions, live, stale, overtaken, edits, faults, desired, active, target>>

\* What the deploy does when apply returns: with an error it has failed.
\* Mutant: Ok(false) is not taken for an answer.
Follow_MarksOnly(a) ==
    IF pc[a] = "mark" THEN step' = "activate" /\ using' = None /\ UNCHANGED target
    ELSE IF pc[a] = "fail" THEN step' = "idle" /\ target' = None /\ using' = None
    ELSE UNCHANGED deploying
Follow(a) ==
    IF pc'[a] # "idle" THEN UNCHANGED deploying
    ELSE IF pc[a] = "fail" THEN step' = "idle" /\ target' = None /\ using' = None
    ELSE step' = "activate" /\ using' = None /\ UNCHANGED target

Applies(a) ==
    /\ apply(a)
    /\ IF using = a THEN Follow(a) ELSE UNCHANGED deploying
    /\ UNCHANGED <<desired, active>>

\* The foreign key may refuse it, if the release was pruned meanwhile.
set_active_release ==
    /\ step = "activate"
    /\ End
    /\ active' \in {active, target}
    /\ UNCHANGED vars

Deploy ==
    \/ Healthy \/ fetch \/ set_active_release
    \/ \E a \in Applier : set_upstream_container(a)

-----------------------------------------------------------------------------

\* stop, or the deletion and creation of the deployment, end in this.
clear_active ==
    /\ step = "idle" /\ active # None
    /\ Edit
    /\ active' = None
    /\ UNCHANGED <<proxy, faults, desired, deploying>>

Handler(a) ==
    /\ \/ save(a) /\ rows'.hosts = rows.hosts
       \/ apply_proxy_config(a)
       \/ Dropped(a) /\ using # a
    /\ UNCHANGED <<desired, active, deploying>>

CutoverNext ==
    \/ \E a \in Applier : Handler(a) \/ Applies(a)
    \/ \E r \in Release : set_desired_release(r)
    \/ Deploy \/ clear_active
    \/ (put_parameter \/ CaddyRestarts) /\ UNCHANGED <<desired, active, deploying>>
    \/ Crash /\ End /\ UNCHANGED active

\* The agent's tasks are scheduled, and Caddy answers.
CutoverSpec ==
    CutoverInit /\ [][CutoverNext]_cvars /\ \A a \in Applier : WF_cvars(Applies(a))

-----------------------------------------------------------------------------
(* Properties                                                              *)

Suffered(kinds) == \E i \in DOMAIN faults : faults[i] \in kinds

\* A release becomes active, and with that the containers before it are swept,
\* only when Caddy routes to it, whatever was queued while it was deployed, whatever
\* handlers applied or were dropped meanwhile, and wherever a crash cut off the
\* deploys before it: a deploy that finds the upstream written applies nothing and
\* relies on the apply at startup.  It holds only as long as every load succeeds and
\* its answer arrives: a deploy after a refused load relies on an apply that never
\* took effect, one that goes back to the release before on a hash that Caddy has
\* left behind.  And only until a handler that has read the upstream before a deploy
\* wrote it loads it after that.
ActivatedIsRouted ==
    step = "activate" /\ ~Suffered({"refuse", "lost", "caddy"}) /\ ~stale
    => live # None /\ live.hosts = target

=============================================================================
