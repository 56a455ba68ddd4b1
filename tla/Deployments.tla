---------------------------- MODULE Deployments ----------------------------
(***************************************************************************)
(* The deployment subsystem of arges: the rows the API handlers write, the *)
(* one reconciler task that reads a snapshot of them and drives the docker *)
(* daemon one await at a time, and the daemon's containers.                *)
(*                                                                         *)
(* A step of this module is the code between two awaits, so an API call, a *)
(* container exit, retention or a restart of the agent may fall between    *)
(* any two calls the reconciler makes.                                     *)
(*                                                                         *)
(* Abstractions.  A deployment id is a uuid: it is created at most once.   *)
(* A release is its tag: once its row is gone the tag is not registered    *)
(* again for the same deployment.  Of a deployment's settings those that    *)
(* spec_matches tells apart are kept, the binds excepted; its container     *)
(* port is fixed, and given whenever it has host ports.  SQLite calls do    *)
(* not fail, except on the foreign keys and uniqueness the schema declares. *)
(***************************************************************************)
EXTENDS Naturals, FiniteSets

CONSTANTS
    Id,             \* uuids of deployments
    Name,           \* deployment names; list() orders rows by name
    Release,        \* release tags
    Env,            \* runtime env entries, NAME=value
    Port,           \* host ports
    Container,      \* container names
    ContainerName,  \* [Name -> [Release -> Container]], what format! yields
    Sound,          \* the containers whose image comes up and passes its check
    None,
    Deleted,        \* the row of an id whose deployment was deleted
    Faults,         \* the kinds of fault and rare call that may happen
    MaxEdits,       \* bound: API calls in a behaviour
    MaxFaults,      \* bound: faults in a behaviour
    MaxCalls        \* bound: API calls between two of their own awaits

FaultKinds == {"docker", "exit", "crash", "proxy", "env", "timeout", "prune", "rename"}

ASSUME NameOrder == Name \subseteq Nat /\ Name # {}
ASSUME NamesOfContainers == ContainerName \in [Name -> [Release -> Container]]
\* A name with another tag is another container; another name need not be, as
\* "a" with "b-c" and "a-b" with "c" are the same.
ASSUME TagsDiffer ==
    \A n \in Name, r, s \in Release : ContainerName[n][r] = ContainerName[n][s] => r = s
ASSUME SoundContainers == Sound \subseteq Container
ASSUME FaultsKnown == Faults \subseteq FaultKinds
ASSUME Bounds == MaxEdits \in Nat /\ MaxFaults \in Nat /\ MaxCalls \in Nat
ASSUME NoneIsNew == /\ None # Deleted
                    /\ None \notin Id \union Release \union Container

VARIABLES
    row,        \* deployments and port_allocations: id -> its row
    releases,   \* deployment_releases: id -> tag -> "none", "registered" or "gone"
    containers, \* what the docker daemon holds under each container name
    permit,     \* Notify: the permits, at most one, that no notified() has consumed
    calls,      \* API calls in flight that still have to write or to notify
    pc,         \* the await the reconciler task is at
    snap,       \* the rows list() returned, until the round is over
    left,       \* the ids of that list converge_all has not reached
    cur,        \* the deployment being converged
    purpose,    \* why the task sweeps: the caller of sweep()
    todo,       \* names list_by_label returned that sweep has not reached
    edits,      \* API calls left
    faults      \* faults left

task == <<pc, snap, left, cur, purpose, todo>>
vars == <<row, releases, containers, permit, calls, task, edits, faults>>

\* "stopping" is declared too, and set nowhere.
Status == {"pending", "deploying", "running", "failed", "stopped"}
Purpose == {"none", "stop", "settled", "make_room", "superseded"}
Await == {"list", "attach", "ports", "next", "wait", "pending", "inspect", "deploying",
          "ensure", "create", "start", "health", "proxy", "activate", "listing",
          "sweep", "clear_active", "mark_stopped", "mark_running",
          "mark_settled", "failed"}

Row == [name : Name, env : SUBSET Env, ports : SUBSET Port,
        desired_state : {"running", "stopped"}, status : Status,
        desired_release : Release \union {None},
        active_release : Release \union {None}]

ASSUME RowIsNew == None \notin Row /\ Deleted \notin Row

\* "exited" is a container docker will restart (unless-stopped); "stopped" is
\* one it will not: stopped but not removed, or created and never started.
ContainerStatus == [label : Id, env : SUBSET Env, ports : SUBSET Port,
                    state : {"running", "serving", "exited", "stopped"}]

ASSUME ContainerIsNew == None \notin ContainerStatus

Call == [step : {"set_desired", "notify"}, id : Id, release : Release \union {None}]

\* Where the task is between deployments, and where it is inside converge_one
\* with a desired release in hand.
Between == {"list", "attach", "ports", "next", "wait"}
Releasing == {"inspect", "deploying", "ensure", "create", "start", "health",
              "proxy", "activate", "mark_running", "mark_settled"}

DataOK ==
    /\ row \in [Id -> Row \union {None, Deleted}]
    /\ releases \in [Id -> [Release -> {"none", "registered", "gone"}]]
    /\ containers \in [Container -> ContainerStatus \union {None}]
    /\ permit \in {0, 1}
    /\ calls \subseteq Call
    /\ edits \in 0 .. MaxEdits
    /\ faults \in 0 .. MaxFaults

TaskOK ==
    /\ pc \in Await
    /\ snap \in [Id -> Row \union {None}]
    /\ left \subseteq Id
    /\ cur \in Id \union {None}
    /\ purpose \in Purpose
    /\ todo \subseteq Container
    /\ \A d \in left : snap[d] # None /\ d # cur
    /\ IF pc \in Between THEN cur = None ELSE cur # None /\ snap[cur] # None
    /\ pc \in {"listing", "sweep"} => purpose # "none"
    /\ pc \in Releasing \/ (pc \in {"listing", "sweep"} /\ purpose # "stop")
        => snap[cur].desired_release # None

TypeOK == DataOK /\ TaskOK

Init ==
    /\ row = [d \in Id |-> None]
    /\ releases = [d \in Id |-> [r \in Release |-> "none"]]
    /\ containers = [c \in Container |-> None]
    /\ permit = 0
    /\ calls = {}
    /\ pc = "list"
    /\ snap = [d \in Id |-> None]
    /\ left = {}
    /\ cur = None
    /\ purpose = "none"
    /\ todo = {}
    /\ edits = MaxEdits
    /\ faults = MaxFaults

-----------------------------------------------------------------------------
(* Reading the state                                                       *)

Exists(d) == row[d] # None /\ row[d] # Deleted
Present(c) == containers[c] # None
Up(c) == Present(c) /\ containers[c].state \in {"running", "serving"}
Serving(c) == Present(c) /\ containers[c].state = "serving"
\* Mutant: the selector without its value lists every deployment's containers.
Labelled_AnyDeployment(d) == {c \in Container : Present(c)}
\* Mutant: the listing without all(true) sees only what runs.
Labelled_RunningOnly(d) == {c \in Container : Up(c) /\ containers[c].label = d}
Labelled(d) == {c \in Container : Present(c) /\ containers[c].label = d}

\* A host port is held by the containers that run with it published.
Held(ps) == \E c \in Container : Up(c) /\ containers[c].ports \intersect ps # {}

\* The snapshot row being converged, its desired release and its container.
Want == snap[cur].desired_release
container_name == ContainerName[snap[cur].name][Want]

\* What sweep's caller passes as `keep`.
Keep == IF purpose \in {"settled", "superseded"} THEN {container_name} ELSE {}

spec_matches(c) ==
    /\ (containers[c].ports = {}) = (snap[cur].ports = {})
    /\ snap[cur].env \subseteq containers[c].env

-----------------------------------------------------------------------------
(* API handlers.  Each is one transaction or statement; the two that make  *)
(* more than one leave a Call in flight.                                   *)

\* `update deployments set ... where id = d`: no row, no change.
Write(d, new) == row' = IF Exists(d) THEN [row EXCEPT ![d] = new] ELSE row

\* The foreign keys of desired_release_id and active_release_id.
Refused(d, r) == Exists(d) /\ releases[d][r] # "registered"

\* The unique index on name and the primary key of port_allocations.
Conflicts(d, n, ps) ==
    \E e \in Id \ {d} : Exists(e) /\ (row[e].name = n \/ row[e].ports \intersect ps # {})

Edit == edits > 0 /\ edits' = edits - 1
Fault(kind) == kind \in Faults /\ faults > 0 /\ faults' = faults - 1

Open(call) == Cardinality(calls) < MaxCalls /\ calls' = calls \union {call}

create(d) ==
    /\ row[d] = None
    /\ Edit
    /\ \E n \in Name, v \in SUBSET Env, ps \in SUBSET Port :
        /\ ~Conflicts(d, n, ps)
        /\ row' = [row EXCEPT ![d] =
              [name |-> n, env |-> v, ports |-> ps, desired_state |-> "running",
               status |-> "pending", desired_release |-> None, active_release |-> None]]
    /\ UNCHANGED <<releases, containers, permit, calls, task, faults>>

\* The release rows, the active release and the containers stay as they are,
\* and nobody is notified.  Renaming counts as a fault, being rare.
update(d) ==
    /\ Exists(d)
    /\ Edit
    /\ \E n \in Name, v \in SUBSET Env, ps \in SUBSET Port :
        /\ IF n = row[d].name THEN UNCHANGED faults ELSE Fault("rename")
        /\ ~Conflicts(d, n, ps)
        /\ row' = [row EXCEPT ![d] = [@ EXCEPT !.name = n, !.env = v, !.ports = ps]]
    /\ UNCHANGED <<releases, containers, permit, calls, task>>

\* Its releases and ports go with the row; its containers stay, and nobody is
\* notified.
delete(d) ==
    /\ Exists(d)
    /\ Edit
    /\ row' = [row EXCEPT ![d] = Deleted]
    /\ releases' = [releases EXCEPT ![d] = [r \in Release |-> "gone"]]
    /\ UNCHANGED <<containers, permit, calls, task, faults>>

register_release(d, r, deploying) ==
    /\ Exists(d)
    /\ releases[d][r] = "none"
    /\ Edit
    /\ releases' = [releases EXCEPT ![d][r] = "registered"]
    /\ IF deploying
       THEN Open([step |-> "set_desired", id |-> d, release |-> r])
       ELSE UNCHANGED calls
    /\ UNCHANGED <<row, containers, permit, task, faults>>

rollback_deployment(d, r) ==
    /\ Exists(d)
    /\ releases[d][r] = "registered"
    /\ Edit
    /\ Open([step |-> "set_desired", id |-> d, release |-> r])
    /\ UNCHANGED <<row, releases, containers, permit, task, faults>>

set_state(d, desired) ==
    /\ Exists(d)
    /\ Edit
    /\ Write(d, [row[d] EXCEPT !.desired_state = desired])
    /\ Open([step |-> "notify", id |-> d, release |-> None])
    /\ UNCHANGED <<releases, containers, permit, task, faults>>

\* A release whose row is gone is refused: the call ends in an error and never
\* notifies.  A deployment deleted meanwhile matches no row, which is no error.
set_desired_release(call) ==
    /\ call \in calls
    /\ call.step = "set_desired"
    /\ IF Refused(call.id, call.release)
       THEN calls' = calls \ {call} /\ UNCHANGED row
       ELSE /\ calls' = (calls \ {call}) \union {[call EXCEPT !.step = "notify"]}
            /\ Write(call.id, [row[call.id] EXCEPT !.desired_release = call.release])
    /\ UNCHANGED <<releases, containers, permit, task, edits, faults>>

\* Mutant: notify_waiters, which stores no permit.
notify_one_WaitersOnly(call) ==
    /\ call \in calls
    /\ call.step = "notify"
    /\ permit' = IF pc = "wait" THEN 1 ELSE permit
    /\ calls' = calls \ {call}
    /\ UNCHANGED <<row, releases, containers, task, edits, faults>>

notify_one(call) ==
    /\ call \in calls
    /\ call.step = "notify"
    /\ permit' = 1
    /\ calls' = calls \ {call}
    /\ UNCHANGED <<row, releases, containers, task, edits, faults>>

-----------------------------------------------------------------------------
(* The environment: docker, retention, and the end of the agent process    *)

\* The process in the container ends; docker restarts it (unless-stopped)
\* as soon as its host ports are free.
Exit(c) ==
    /\ Up(c)
    /\ Fault("exit")
    /\ containers' = [containers EXCEPT ![c].state = "exited"]
    /\ UNCHANGED <<row, releases, permit, calls, task, edits>>

Restart(c) ==
    /\ Present(c) /\ containers[c].state = "exited"
    /\ ~Held(containers[c].ports)
    /\ containers' = [containers EXCEPT ![c].state = "running"]
    /\ UNCHANGED <<row, releases, permit, calls, task, edits, faults>>

\* A started container begins to pass its health check.
ComeUp(c) ==
    /\ Present(c) /\ containers[c].state = "running"
    /\ c \in Sound
    /\ containers' = [containers EXCEPT ![c].state = "serving"]
    /\ UNCHANGED <<row, releases, permit, calls, task, edits, faults>>

\* retention's delete_release; "on delete restrict" refuses a release that the
\* deployment names as desired or active.
delete_release(d, r) ==
    /\ "prune" \in Faults
    /\ releases[d][r] = "registered"
    /\ row[d].desired_release # r /\ row[d].active_release # r
    /\ releases' = [releases EXCEPT ![d][r] = "gone"]
    /\ UNCHANGED <<row, containers, permit, calls, task, edits, faults>>

\* The agent dies and is started again: the database and the containers are
\* what is left, and init converges before it waits.  To die inside a docker
\* call is a docker fault of that call and then this.
Crash ==
    /\ Fault("crash")
    /\ permit' = 0
    /\ calls' = {}
    /\ pc' = "list"
    /\ snap' = [d \in Id |-> None]
    /\ left' = {}
    /\ cur' = None
    /\ purpose' = "none"
    /\ todo' = {}
    /\ UNCHANGED <<row, releases, containers, edits>>

-----------------------------------------------------------------------------
(* The reconciler task: init, converge_all, converge_one, deploy and sweep  *)

\* How a step leaves the task: at another await of the same converge; in a
\* sweep; out of converge_one with an error; or done with the deployment.
Goto(p) == pc' = p /\ UNCHANGED <<snap, left, cur, purpose, todo>>
Sweep(why) == pc' = "listing" /\ purpose' = why /\ UNCHANGED <<snap, left, cur, todo>>
Fail == /\ pc' = "failed" /\ purpose' = "none" /\ todo' = {}
        /\ UNCHANGED <<snap, left, cur>>
Done == /\ pc' = "next" /\ cur' = None /\ purpose' = "none" /\ todo' = {}
        /\ UNCHANGED <<snap, left>>

\* A call to a collaborator fails and changes nothing.
CallFails(at, kind) ==
    /\ pc = at
    /\ Fault(kind)
    /\ Fail
    /\ UNCHANGED <<row, releases, containers, permit, calls, edits>>

\* stop_and_remove(c) succeeds, or ends in an error before or after the stop.
Remove(c) == containers' = [containers EXCEPT ![c] = None]
RemoveFails(c) ==
    /\ Fault("docker")
    /\ \/ UNCHANGED containers
       \/ Present(c) /\ containers' = [containers EXCEPT ![c].state = "stopped"]
    /\ Fail

\* select! { notified(), ticker.tick() }
notified ==
    /\ pc = "wait"
    /\ permit = 1 /\ permit' = 0
    /\ Goto("list")
    /\ UNCHANGED <<row, releases, containers, calls, edits, faults>>

Tick ==
    /\ pc = "wait"
    /\ Goto("list")
    /\ UNCHANGED <<row, releases, containers, permit, calls, edits, faults>>

\* list() reads the deployments in one statement ...
List ==
    /\ pc = "list"
    /\ left' = {d \in Id : Exists(d)}
    /\ snap' = [d \in Id |-> IF Exists(d) THEN row[d] ELSE None]
    /\ pc' = "attach"
    /\ UNCHANGED <<row, releases, containers, permit, calls, cur, purpose, todo, edits, faults>>

\* ... and their env and their ports in later ones (attach_children).
AttachEnv ==
    /\ pc = "attach"
    /\ snap' = [d \in Id |->
          IF d \in left THEN [snap[d] EXCEPT !.env = IF Exists(d) THEN row[d].env ELSE {}]
          ELSE None]
    /\ pc' = "ports"
    /\ UNCHANGED <<row, releases, containers, permit, calls, left, cur, purpose, todo, edits, faults>>

AttachPorts ==
    /\ pc = "ports"
    /\ snap' = [d \in Id |->
          IF d \in left THEN [snap[d] EXCEPT !.ports = IF Exists(d) THEN row[d].ports ELSE {}]
          ELSE None]
    /\ pc' = "next"
    /\ UNCHANGED <<row, releases, containers, permit, calls, left, cur, purpose, todo, edits, faults>>

RoundDone ==
    /\ pc = "next"
    /\ left = {}
    /\ pc' = "wait"
    /\ snap' = [d \in Id |-> None]
    /\ UNCHANGED <<row, releases, containers, permit, calls, left, cur, purpose, todo, edits, faults>>

\* The next row of the list, in name order, and the branch its snapshot takes.
Pick(d) ==
    /\ pc = "next"
    /\ d \in left /\ \A e \in left : snap[d].name <= snap[e].name
    /\ left' = left \ {d}
    /\ cur' = d
    /\ IF snap[d].desired_state = "stopped"
       THEN pc' = "listing" /\ purpose' = "stop"
       ELSE /\ pc' = IF snap[d].desired_release = None THEN "pending" ELSE "inspect"
            /\ UNCHANGED purpose
    /\ UNCHANGED <<row, releases, containers, permit, calls, snap, todo, edits, faults>>

MarkPending ==
    /\ pc = "pending"
    /\ Write(cur, [row[cur] EXCEPT !.status = "pending"])
    /\ Done
    /\ UNCHANGED <<releases, containers, permit, calls, edits, faults>>

\* releases(), then inspect(): "settled" is the snapshot's active release.
Inspect ==
    /\ pc = "inspect"
    /\ \/ releases[cur][Want] # "registered" /\ Fail
       \/ /\ releases[cur][Want] = "registered"
          /\ IF snap[cur].active_release = Want /\ Up(container_name)
             THEN Sweep("settled")
             ELSE Goto("deploying")
    /\ UNCHANGED <<row, releases, containers, permit, calls, edits, faults>>

\* Mutants: room is made although no port needs it, or never.
MarkDeploying_AlwaysMakesRoom ==
    /\ pc = "deploying"
    /\ Write(cur, [row[cur] EXCEPT !.status = "deploying"])
    /\ Sweep("make_room")
    /\ UNCHANGED <<releases, containers, permit, calls, edits, faults>>
MarkDeploying_NeverMakesRoom ==
    /\ pc = "deploying"
    /\ Write(cur, [row[cur] EXCEPT !.status = "deploying"])
    /\ Goto("ensure")
    /\ UNCHANGED <<releases, containers, permit, calls, edits, faults>>

\* Mutant: the row does not tell of the deploy.
MarkDeploying_KeepsStatus ==
    /\ pc = "deploying"
    /\ IF snap[cur].ports # {} THEN Sweep("make_room") ELSE Goto("ensure")
    /\ UNCHANGED <<row, releases, containers, permit, calls, edits, faults>>

\* set_status, then runtime_env, which fails on a missing parameter.  With
\* host ports the old containers have to go before the new one starts.
MarkDeploying ==
    /\ pc = "deploying"
    /\ Write(cur, [row[cur] EXCEPT !.status = "deploying"])
    /\ \/ /\ UNCHANGED faults
          /\ IF snap[cur].ports # {} THEN Sweep("make_room") ELSE Goto("ensure")
       \/ Fault("env") /\ Fail
    /\ UNCHANGED <<releases, containers, permit, calls, edits>>

list_by_label ==
    /\ pc = "listing"
    /\ todo' = Labelled(cur) \ Keep
    /\ pc' = "sweep"
    /\ UNCHANGED <<row, releases, containers, permit, calls, snap, left, cur, purpose, edits, faults>>

SweepOne(c) ==
    /\ pc = "sweep"
    /\ c \in todo
    /\ \/ /\ Remove(c)
          /\ todo' = todo \ {c}
          /\ UNCHANGED <<pc, snap, left, cur, purpose, faults>>
       \/ RemoveFails(c)
    /\ UNCHANGED <<row, releases, permit, calls, edits>>

AfterSweep ==
    CASE purpose = "stop" -> "clear_active"
      [] purpose = "make_room" -> "ensure"
      [] purpose = "superseded" -> "mark_running"
      [] purpose = "settled" -> "mark_settled"

SweepDone ==
    /\ pc = "sweep"
    /\ todo = {}
    /\ pc' = AfterSweep
    /\ purpose' = "none"
    /\ UNCHANGED <<row, releases, containers, permit, calls, snap, left, cur, todo, edits, faults>>

\* ensure_running: a running container of that name whose spec matches is kept
\* as it is; any other is removed first.
Ensure ==
    /\ pc = "ensure"
    /\ IF Up(container_name) /\ spec_matches(container_name)
       THEN Goto("health") /\ UNCHANGED <<containers, faults>>
       ELSE \/ Remove(container_name) /\ Goto("create") /\ UNCHANGED faults
            \/ Present(container_name) /\ RemoveFails(container_name)
    /\ UNCHANGED <<row, releases, permit, calls, edits>>

ensure_host_ports_free ==
    /\ pc = "create"
    /\ IF Held(snap[cur].ports) THEN Fail ELSE Goto("start")
    /\ UNCHANGED <<row, releases, containers, permit, calls, edits, faults>>

\* The pull may fail and leave nothing; the start may fail, because the ports
\* were taken during the pull or otherwise, and the removal of the container it
\* leaves is only tried.
create_and_start ==
    /\ pc = "start"
    /\ LET new(s) == [containers EXCEPT ![container_name] =
                         [label |-> cur, env |-> snap[cur].env,
                          ports |-> snap[cur].ports, state |-> s]]
       IN  \/ /\ ~Held(snap[cur].ports)
              /\ containers' = new("running")
              /\ Goto("health")
              /\ UNCHANGED faults
           \/ /\ Held(snap[cur].ports)
              /\ Fail
              /\ UNCHANGED <<containers, faults>>
           \/ /\ Fault("docker")
              /\ containers' \in {containers, new("stopped")}
              /\ Fail
    /\ UNCHANGED <<row, releases, permit, calls, edits>>

\* Mutant: a running container is taken for a healthy one.
wait_healthy_RunningIsEnough ==
    /\ pc = "health"
    /\ Up(container_name)
    /\ Goto("proxy")
    /\ UNCHANGED <<row, releases, containers, permit, calls, edits, faults>>

\* wait_healthy polls: it sees the container pass, or its deadline expires.
wait_healthy ==
    /\ pc = "health"
    /\ \/ Serving(container_name) /\ Goto("proxy") /\ UNCHANGED faults
       \/ container_name \notin Sound /\ Fail /\ UNCHANGED faults
       \/ Fault("timeout") /\ Fail
    /\ UNCHANGED <<row, releases, containers, permit, calls, edits>>

\* The proxy is told of the new container; here only whether that worked.
point_proxy_at ==
    /\ pc = "proxy"
    /\ Goto("activate")
    /\ UNCHANGED <<row, releases, containers, permit, calls, edits, faults>>

set_active_release ==
    /\ pc = "activate"
    /\ IF Refused(cur, Want)
       THEN Fail /\ UNCHANGED row
       ELSE /\ Write(cur, [row[cur] EXCEPT !.active_release = Want])
            /\ Sweep("superseded")
    /\ UNCHANGED <<releases, containers, permit, calls, edits, faults>>

MarkRunning ==
    /\ pc = "mark_running"
    /\ Write(cur, [row[cur] EXCEPT !.status = "running"])
    /\ Done
    /\ UNCHANGED <<releases, containers, permit, calls, edits, faults>>

\* Mutant: a settled deployment keeps whatever status it has.
MarkSettled_KeepsStatus ==
    /\ pc = "mark_settled"
    /\ Done
    /\ UNCHANGED <<row, releases, containers, permit, calls, edits, faults>>

MarkSettled ==
    /\ pc = "mark_settled"
    /\ IF snap[cur].status # "running"
       THEN Write(cur, [row[cur] EXCEPT !.status = "running"])
       ELSE UNCHANGED row
    /\ Done
    /\ UNCHANGED <<releases, containers, permit, calls, edits, faults>>

ClearActive ==
    /\ pc = "clear_active"
    /\ Write(cur, [row[cur] EXCEPT !.active_release = None])
    /\ Goto("mark_stopped")
    /\ UNCHANGED <<releases, containers, permit, calls, edits, faults>>

MarkStopped ==
    /\ pc = "mark_stopped"
    /\ Write(cur, [row[cur] EXCEPT !.status = "stopped"])
    /\ Done
    /\ UNCHANGED <<releases, containers, permit, calls, edits, faults>>

\* Mutant: a status the schema does not know.
RecordFailure_UnknownStatus ==
    /\ pc = "failed"
    /\ Write(cur, [row[cur] EXCEPT !.status = "errored"])
    /\ Done
    /\ UNCHANGED <<releases, containers, permit, calls, edits, faults>>

\* Mutant: converge_all returns the error, and the round ends with it.
RecordFailure_EndsRound ==
    /\ pc = "failed"
    /\ Write(cur, [row[cur] EXCEPT !.status = "failed"])
    /\ pc' = "wait" /\ cur' = None /\ purpose' = "none" /\ todo' = {}
    /\ snap' = [d \in Id |-> None] /\ left' = {}
    /\ UNCHANGED <<releases, containers, permit, calls, edits, faults>>

\* converge_all's error path; the loop goes on with the next deployment.
RecordFailure ==
    /\ pc = "failed"
    /\ Write(cur, [row[cur] EXCEPT !.status = "failed"])
    /\ Done
    /\ UNCHANGED <<releases, containers, permit, calls, edits, faults>>

-----------------------------------------------------------------------------

Reconciler ==
    \/ notified \/ List \/ AttachEnv \/ AttachPorts \/ RoundDone
    \/ \E d \in Id : Pick(d)
    \/ MarkPending \/ Inspect \/ MarkDeploying
    \/ list_by_label \/ SweepDone
    \/ \E c \in Container : SweepOne(c)
    \/ Ensure \/ ensure_host_ports_free \/ create_and_start
    \/ wait_healthy \/ point_proxy_at \/ set_active_release
    \/ MarkRunning \/ MarkSettled \/ ClearActive \/ MarkStopped \/ RecordFailure

\* A docker or proxy call of the reconciler that fails and changes nothing.
BrokenCall ==
    \/ CallFails("inspect", "docker")
    \/ CallFails("listing", "docker")
    \/ CallFails("ensure", "docker")
    \/ CallFails("proxy", "proxy")

Handlers ==
    \/ \E d \in Id :
        \/ create(d) \/ update(d) \/ delete(d)
        \/ \E s \in {"running", "stopped"} : set_state(d, s)
        \/ \E r \in Release : \/ \E deploying \in BOOLEAN : register_release(d, r, deploying)
                              \/ rollback_deployment(d, r)
    \/ \E call \in calls : set_desired_release(call) \/ notify_one(call)

Environment ==
    \/ \E c \in Container : Exit(c) \/ Restart(c) \/ ComeUp(c)
    \/ \E d \in Id, r \in Release : delete_release(d, r)
    \/ Crash

Next == Tick \/ Reconciler \/ BrokenCall \/ Handlers \/ Environment

Spec == Init /\ [][Next]_vars

\* The agent runs: its task and its handlers are scheduled, the daemon restarts
\* what exited and a sound image comes up.  Users and faults owe nothing.
Fairness ==
    /\ WF_vars(Reconciler)
    /\ \A d \in Id, r \in Release \union {None}, s \in {"set_desired", "notify"} :
          LET call == [step |-> s, id |-> d, release |-> r]
          IN  WF_vars(set_desired_release(call) \/ notify_one(call))
    /\ \A c \in Container : WF_vars(Restart(c) \/ ComeUp(c))

LiveSpec == Spec /\ Fairness

-----------------------------------------------------------------------------
(* Properties                                                              *)

\* A deployment whose status says "stopped" has no container left, whether
\* running or not, although its stop and its next deploy take many calls that
\* can each fail, stale snapshots are acted on and the agent can die anywhere.
StoppedMeansGone ==
    \A d \in Id : Exists(d) /\ row[d].status = "stopped" => Labelled(d) = {}

\* When a deploy that publishes host ports comes to create its container, none
\* of its own containers is left that could hold those ports.
OwnPortsFree ==
    pc \in {"create", "start"} /\ snap[cur].ports # {} => Labelled(cur) = {}

\* What a step takes away from the host.
TakenDown(c) ==
    /\ Present(c) /\ containers'[c] # containers[c]
    /\ containers'[c] = None \/ containers'[c].state = "stopped"

\* Containers that bear the name their deployment has now.  One it had before it
\* was renamed may be replaced by whoever takes over the old name.
OwnName(d) == {ContainerName[row[d].name][r] : r \in Release}

\* It does not bear the name any more that it was listed under in this round.
Renamed(d) == snap[d] # None /\ snap[d].name # row[d].name

\* Two names give the same container: that of the deployment being converged and n.
Ambiguous(c, n) == snap[cur].name # n /\ \E r \in Release : c = ContainerName[snap[cur].name][r]

\* Converging one deployment takes down no container of another one that exists
\* and bears its name, whatever was deleted, created, changed or renamed since the
\* snapshot.  There are two ways to lose one all the same: to be renamed, during the
\* round, to the name that the one being converged was listed under; and to have a
\* container whose name is the other's too, by where the hyphens are.
OthersUntouched ==
    [][\A c \in Container :
         LET e == containers[c].label
         IN  TakenDown(c) /\ Exists(e) /\ c \in OwnName(e)
             => \/ e = cur
                \/ Renamed(e) /\ row[e].name = snap[cur].name
                \/ Ambiguous(c, row[e].name)]_vars

Active(d) == ContainerName[row[d].name][row[d].active_release]

\* The container a deployment is served from, that of its active release, is
\* taken down only by its own stop, by its own deploy if that has host ports to
\* hand over, or to be made anew when the same release is deployed again; so an
\* upgrade without host ports, failed or not, leaves it serving.  The two exceptions
\* are those of OthersUntouched: a deployment that is renamed during the round may
\* lose it, to itself or to another, and so may one whose container has two names.
KeepsServing ==
    [][\A d \in Id :
         /\ Exists(d) /\ row[d].active_release # None
         /\ Serving(Active(d)) /\ containers[Active(d)].label = d /\ TakenDown(Active(d))
         => \/ /\ cur = d
               /\ \/ snap[d].desired_state = "stopped" \/ snap[d].ports # {}
                  \/ snap[d].desired_release = row[d].active_release
            \/ Renamed(d) \/ Ambiguous(Active(d), row[d].name)]_vars

\* A release becomes active only if its image comes up and passes its health
\* check, and while it has its container, even if that exits meanwhile.
ActivatesHealthy ==
    [][\A d \in Id :
         Exists(d) /\ Exists(d)' /\ row'[d].active_release \notin {row[d].active_release, None}
         => LET c == ContainerName[snap[d].name][row'[d].active_release]
            IN  c \in Sound /\ Present(c)]_vars

\* What the user asked for is what runs, what the row says, and all that runs.
Deployable(d) ==
    /\ ContainerName[row[d].name][row[d].desired_release] \in Sound
    /\ \A c \in Container : Up(c) /\ containers[c].ports \intersect row[d].ports # {}
                            => containers[c].label = d
Settled(d) ==
    \/ /\ row[d].desired_state = "stopped"
       /\ row[d].status = "stopped" /\ row[d].active_release = None /\ Labelled(d) = {}
    \/ /\ row[d].desired_state = "running" /\ row[d].desired_release = None
       /\ row[d].status = "pending"
    \/ /\ row[d].desired_state = "running" /\ row[d].desired_release # None
       /\ row[d].active_release = row[d].desired_release /\ row[d].status = "running"
       /\ Up(Active(d)) /\ Labelled(d) \subseteq {Active(d)}
    \/ /\ row[d].desired_state = "running" /\ row[d].desired_release # None
       /\ ~Deployable(d)

Settles == \A d \in Id : <>[](Exists(d) => Settled(d))

\* With the ticker, every deployment settles for good once users and faults
\* leave it alone: no stop, start, rollback or release that arrives in the
\* middle of a deploy is lost, and no failure is final.
Converges == WF_vars(Tick) => Settles

\* Without the ticker the notifications alone suffice, as long as nothing fails.
NotifySuffices == [](faults = MaxFaults) => Settles

-----------------------------------------------------------------------------
(* What Lifecycle sees of this state: the rows and releases, and which       *)
(* deployments have containers                                               *)

phase == [d \in Id |-> IF row[d] = None THEN "absent"
                       ELSE IF row[d] = Deleted THEN "deleted" ELSE row[d].status]
asked == [d \in Id |-> IF Exists(d) THEN row[d].desired_release ELSE None]
active == [d \in Id |-> IF Exists(d) THEN row[d].active_release ELSE None]
registered == [d \in Id |-> {r \in Release : releases[d][r] = "registered"}]
occupied == {d \in Id : Labelled(d) # {}}

Life == INSTANCE Lifecycle

\* The subsystem keeps what Lifecycle promises of every deployment, although the
\* reconciler goes by snapshots, is interrupted anywhere and shares container
\* names: each of its steps is one of the promised ones, or shows nothing.
ImplementsLifecycle == Life!Spec

\* So nothing pending or stopped has containers or an active release, what runs
\* has one, and retention deletes no release that is queued or active.
PromiseKept == Life!Promise

=============================================================================
