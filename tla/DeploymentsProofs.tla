-------------------------- MODULE DeploymentsProofs --------------------------
(* Theorems about Deployments, for every value of its constants: its types,  *)
(* what the sweeps guarantee, what is active, whose containers a step may    *)
(* take down, and that it implements Lifecycle.                              *)
EXTENDS Deployments, TLAPS

RowsOK == row \in [Id -> Row \union {None, Deleted}]
ReleasesOK == releases \in [Id -> [Release -> {"none", "registered", "gone"}]]
ContainersOK == containers \in [Container -> ContainerStatus \union {None}]
CallsOK == calls \subseteq Call
CountersOK == permit \in {0, 1} /\ edits \in 0 .. MaxEdits /\ faults \in 0 .. MaxFaults

\* The types of the data, one named part per variable or group of them.
LEMMA DataParts == DataOK <=> RowsOK /\ ReleasesOK /\ ContainersOK /\ CallsOK /\ CountersOK
  BY DEF DataOK, RowsOK, ReleasesOK, ContainersOK, CallsOK, CountersOK

\* main starts from an empty database, an empty host and an idle task.
LEMMA TypeInit == Init => TypeOK
  BY Bounds DEF Init, TypeOK, DataOK, TaskOK, Await, Purpose, Between, Releasing

\* Handlers and the environment leave the task's variables alone, except Crash.
LEMMA TaskFrame == TaskOK /\ UNCHANGED task => TaskOK'
  BY DEF TaskOK, task

-----------------------------------------------------------------------------
(* What the statements and calls the steps are made of do to the types.    *)

\* A deployment that exists has a row of the schema.
LEMMA RowType == ASSUME RowsOK, NEW d \in Id, Exists(d) PROVE row[d] \in Row
  BY DEF RowsOK, Exists

\* An update statement that writes a row of the schema keeps the table one.
LEMMA WriteType ==
  ASSUME NEW d \in Id, NEW new, RowsOK, Exists(d) => new \in Row, Write(d, new)
  PROVE  RowsOK'
  BY DEF RowsOK, Write

\* set_status keeps the table one of the schema, for the five known statuses.
LEMMA StatusType ==
  ASSUME NEW d \in Id, NEW s \in Status, RowsOK, Write(d, [row[d] EXCEPT !.status = s])
  PROVE  RowsOK'
  <1>1. Exists(d) => [row[d] EXCEPT !.status = s] \in Row
    BY RowType DEF Row
  <1> QED BY <1>1, WriteType

\* set_active_release keeps it one too, also when it clears the release.
LEMMA ActiveType ==
  ASSUME NEW d \in Id, NEW r \in Release \union {None}, RowsOK,
         Write(d, [row[d] EXCEPT !.active_release = r])
  PROVE  RowsOK'
  <1>1. Exists(d) => [row[d] EXCEPT !.active_release = r] \in Row
    BY RowType DEF Row
  <1> QED BY <1>1, WriteType

\* An API call uses up one of those left.
LEMMA EditType == CountersOK /\ Edit /\ UNCHANGED <<permit, faults>> => CountersOK'
  BY Bounds DEF CountersOK, Edit

\* A fault uses up one of those left.
LEMMA FaultType ==
  ASSUME NEW k, CountersOK, Fault(k), permit' \in {0, 1}, UNCHANGED edits PROVE CountersOK'
  BY Bounds DEF CountersOK, Fault

\* A handler that has still to write or to notify leaves a call in flight.
LEMMA OpenType == ASSUME CallsOK, NEW c \in Call, Open(c) PROVE CallsOK'
  BY DEF CallsOK, Open

-----------------------------------------------------------------------------

\* What a step does not name, it keeps.
LEMMA Same ==
    /\ RowsOK /\ UNCHANGED row => RowsOK'
    /\ ReleasesOK /\ UNCHANGED releases => ReleasesOK'
    /\ ContainersOK /\ UNCHANGED containers => ContainersOK'
    /\ CallsOK /\ UNCHANGED calls => CallsOK'
    /\ CountersOK /\ UNCHANGED <<permit, edits, faults>> => CountersOK'
  BY DEF RowsOK, ReleasesOK, ContainersOK, CallsOK, CountersOK

\* The API handlers keep all types, and leave the reconciler alone.
LEMMA TypeHandlers == TypeOK /\ Handlers => TypeOK'
  <1> DEFINE Kept == RowsOK' /\ ReleasesOK' /\ ContainersOK' /\ CallsOK' /\ CountersOK'
                     /\ UNCHANGED task
  <1> SUFFICES ASSUME TypeOK, Handlers PROVE Kept
    BY TaskFrame, DataParts DEF TypeOK, DataOK, RowsOK, ReleasesOK, ContainersOK, CallsOK, CountersOK
  <1> USE Same
  <1>0. RowsOK /\ ReleasesOK /\ ContainersOK /\ CallsOK /\ CountersOK
    BY DataParts DEF TypeOK
  <1> USE <1>0
  <1>1. ASSUME NEW d \in Id, create(d) PROVE Kept
    <2>1. PICK n \in Name, v \in SUBSET Env, ps \in SUBSET Port : row' = [row EXCEPT ![d] =
              [name |-> n, env |-> v, ports |-> ps, desired_state |-> "running",
               status |-> "pending", desired_release |-> None, active_release |-> None]]
      BY <1>1 DEF create
    <2>2. [name |-> n, env |-> v, ports |-> ps, desired_state |-> "running",
           status |-> "pending", desired_release |-> None, active_release |-> None] \in Row
      BY DEF Row, Status
    <2>3. RowsOK'
      BY <2>1, <2>2 DEF RowsOK
    <2> QED BY <2>3, <1>1, EditType DEF create
  <1>2. ASSUME NEW d \in Id, update(d) PROVE Kept
    <2>1. PICK n \in Name, v \in SUBSET Env, ps \in SUBSET Port :
            row' = [row EXCEPT ![d] = [@ EXCEPT !.name = n, !.env = v, !.ports = ps]]
      BY <1>2 DEF update
    <2>2. [row[d] EXCEPT !.name = n, !.env = v, !.ports = ps] \in Row
      <3>1. row[d] \in Row
        BY <1>2, RowType DEF update
      <3> QED BY <3>1 DEF Row
    <2>3. RowsOK'
      BY <2>1, <2>2 DEF RowsOK
    <2>4. CountersOK'
      <3>1. CASE UNCHANGED faults
        BY <1>2, <3>1, EditType DEF update
      <3>2. CASE Fault("rename")
        BY <1>2, <3>2, Bounds DEF update, CountersOK, Edit, Fault
      <3> QED BY <1>2, <3>1, <3>2 DEF update
    <2> QED BY <2>3, <2>4, <1>2 DEF update
  <1>3. ASSUME NEW d \in Id, delete(d) PROVE Kept
    <2>1. RowsOK'
      BY <1>3 DEF delete, RowsOK
    <2>2. [r \in Release |-> "gone"] \in [Release -> {"none", "registered", "gone"}]
      OBVIOUS
    <2>3. ReleasesOK'
      BY <1>3, <2>2 DEF delete, ReleasesOK
    <2> QED BY <2>1, <2>3, <1>3, EditType DEF delete
  <1>4. ASSUME NEW d \in Id, NEW s \in {"running", "stopped"}, set_state(d, s) PROVE Kept
    <2>1. [row[d] EXCEPT !.desired_state = s] \in Row
      BY <1>4, RowType DEF set_state, Row
    <2>2. RowsOK'
      BY <2>1, <1>4, WriteType DEF set_state
    <2>3. [step |-> "notify", id |-> d, release |-> None] \in Call
      BY DEF Call
    <2> QED BY <2>2, <2>3, <1>4, OpenType, EditType DEF set_state
  <1>5. ASSUME NEW d \in Id, NEW r \in Release
        PROVE  [step |-> "set_desired", id |-> d, release |-> r] \in Call
    BY DEF Call
  <1>6. ASSUME NEW d \in Id, NEW r \in Release, NEW b \in BOOLEAN, register_release(d, r, b)
        PROVE  Kept
    <2>1. ReleasesOK'
      BY <1>6 DEF register_release, ReleasesOK
    <2>2. CASE b = TRUE
      BY <2>1, <2>2, <1>5, <1>6, OpenType, EditType DEF register_release
    <2>3. CASE b = FALSE
      BY <2>1, <2>3, <1>6, EditType DEF register_release
    <2> QED BY <2>2, <2>3
  <1>7. ASSUME NEW d \in Id, NEW r \in Release, rollback_deployment(d, r) PROVE Kept
    BY <1>5, <1>7, OpenType, EditType DEF rollback_deployment
  <1>8. ASSUME NEW call \in calls, set_desired_release(call) PROVE Kept
    <2>1. call \in Call /\ call.step = "set_desired" /\ [call EXCEPT !.step = "notify"] \in Call
      BY <1>8 DEF CallsOK, Call, set_desired_release
    <2>2. call.id \in Id /\ call.release \in Release \union {None}
      BY <2>1 DEF Call
    <2>3. Exists(call.id) => [row[call.id] EXCEPT !.desired_release = call.release] \in Row
      BY <2>2, RowType DEF Row
    <2>4. CASE Refused(call.id, call.release)
      BY <2>4, <1>8 DEF set_desired_release, CallsOK
    <2>5. CASE ~Refused(call.id, call.release)
      <3>1. RowsOK'
        BY <2>2, <2>3, <2>5, <1>8, WriteType DEF set_desired_release
      <3>2. CallsOK'
        BY <2>1, <2>5, <1>8 DEF set_desired_release, CallsOK
      <3> QED BY <3>1, <3>2, <1>8 DEF set_desired_release
    <2> QED BY <2>4, <2>5
  <1>9. ASSUME NEW call \in calls, notify_one(call) PROVE Kept
    BY <1>9 DEF notify_one, CallsOK, CountersOK
  <1> QED BY <1>1, <1>2, <1>3, <1>4, <1>6, <1>7, <1>8, <1>9 DEF Handlers

-----------------------------------------------------------------------------
(* The ways a step of the task ends.                                       *)

\* Inside converge_one there is a deployment, with its snapshot; with a
\* desired release in hand there is also the container it is to run in.
LEMMA CurType ==
  ASSUME TaskOK, pc \notin Between
  PROVE  /\ cur \in Id /\ snap[cur] \in Row
         /\ Want \in Release \union {None}
         /\ Want # None => container_name \in Container
  <1>1. cur \in Id /\ snap[cur] \in Row
    BY DEF TaskOK
  <1>2. snap[cur].name \in Name /\ Want \in Release \union {None}
    BY <1>1 DEF Row, Want
  <1> QED BY <1>1, <1>2, NamesOfContainers DEF container_name

\* Going on with a converge keeps the types of the task's locals.
LEMMA GotoType ==
  ASSUME TaskOK, pc \notin Between, NEW p \in Await \ (Between \union {"listing", "sweep"}), Goto(p),
         p \in Releasing => Want # None
  PROVE  TaskOK'
  BY DEF TaskOK, Goto, Want

\* So does calling sweep, which records why.
LEMMA SweepType ==
  ASSUME TaskOK, pc \notin Between, NEW why \in Purpose \ {"none"}, Sweep(why),
         why # "stop" => Want # None
  PROVE  TaskOK'
  BY DEF TaskOK, Sweep, Want, Releasing, Await, Between

\* So does an error, which leads to the failure path of converge_all.
LEMMA FailType == ASSUME TaskOK, pc \notin Between, Fail PROVE TaskOK'
  BY DEF TaskOK, Fail, Releasing, Await, Between, Purpose

\* So does being done with the deployment.
LEMMA DoneType == ASSUME TaskOK, pc \notin Between, Done PROVE TaskOK'
  BY NoneIsNew DEF TaskOK, Done, Releasing, Await, Between, Purpose

\* stop_and_remove takes a container out of the host.
LEMMA RemoveType == ASSUME ContainersOK, NEW c, Remove(c) PROVE ContainersOK'
  BY DEF ContainersOK, Remove

\* A container that changes state is still a container.
LEMMA StateType ==
  ASSUME ContainersOK, NEW c \in Container, Present(c),
         NEW s \in {"running", "serving", "exited", "stopped"},
         containers' = [containers EXCEPT ![c].state = s]
  PROVE  ContainersOK'
  <1>1. [containers[c] EXCEPT !.state = s] \in ContainerStatus
    BY DEF ContainersOK, Present, ContainerStatus
  <1> QED BY <1>1 DEF ContainersOK

\* A stop_and_remove that fails keeps the types and ends in an error.
LEMMA RemoveFailsType ==
  ASSUME ContainersOK, CountersOK, TaskOK, pc \notin Between, NEW c \in Container,
         RemoveFails(c), UNCHANGED <<permit, edits>>
  PROVE  ContainersOK' /\ CountersOK' /\ TaskOK'
  <1>1. TaskOK'
    BY FailType DEF RemoveFails
  <1>2. CountersOK'
    BY FaultType DEF RemoveFails, CountersOK
  <1>3. ContainersOK'
    BY StateType, Same DEF RemoveFails
  <1> QED BY <1>1, <1>2, <1>3

-----------------------------------------------------------------------------

\* Every step of the reconciler task keeps all types.
LEMMA TypeReconciler == TypeOK /\ (Reconciler \/ Tick) => TypeOK'
  <1> DEFINE Kept == RowsOK' /\ ReleasesOK' /\ ContainersOK' /\ CallsOK' /\ CountersOK' /\ TaskOK'
  <1> SUFFICES ASSUME TypeOK, Reconciler \/ Tick PROVE Kept
    BY DataParts DEF TypeOK, DataOK, RowsOK, ReleasesOK, ContainersOK, CallsOK, CountersOK
  <1>0. RowsOK /\ ReleasesOK /\ ContainersOK /\ CallsOK /\ CountersOK /\ TaskOK
    BY DataParts DEF TypeOK
  <1> USE <1>0, Same
  <1>1. CASE notified \/ Tick
    <2>1. TaskOK'
      BY <1>1 DEF notified, Tick, Goto, TaskOK, Between, Releasing, Await
    <2> QED BY <1>1, <2>1 DEF notified, Tick, CountersOK
  <1>2. CASE List
    <2>1. TaskOK'
      <3>1. ASSUME NEW d \in Id PROVE snap'[d] \in Row \union {None} /\ (d \in left' => Exists(d) /\ snap'[d] = row[d])
        BY <1>2, RowType DEF List
      <3>2. snap' \in [Id -> Row \union {None}]
        BY <1>2, <3>1 DEF List
      <3>3. \A d \in left' : snap'[d] # None /\ d # cur'
        BY <1>2, <3>1, NoneIsNew DEF List, Exists, TaskOK, Between
      <3> QED BY <1>2, <3>2, <3>3 DEF List, TaskOK, Between, Releasing, Await
    <2> QED BY <1>2, <2>1 DEF List
  <1>3. CASE AttachEnv
    <2>1. ASSUME NEW d \in left
          PROVE  [snap[d] EXCEPT !.env = IF Exists(d) THEN row[d].env ELSE {}] \in Row
      <3>1. d \in Id /\ snap[d] \in Row
        BY DEF TaskOK
      <3>2. CASE Exists(d)
        <4>1. row[d].env \in SUBSET Env
          BY <3>1, <3>2, RowType DEF Row
        <4> QED BY <3>1, <3>2, <4>1 DEF Row
      <3>3. CASE ~Exists(d)
        BY <3>1, <3>3 DEF Row
      <3> QED BY <3>2, <3>3
    <2>2. ASSUME NEW d \in Id PROVE snap'[d] \in Row \union {None} /\ (d \in left => snap'[d] # None)
      BY <1>3, <2>1, RowIsNew DEF AttachEnv
    <2>3. snap' \in [Id -> Row \union {None}] /\ \A d \in left : snap'[d] # None
      BY <1>3, <2>2 DEF AttachEnv, TaskOK
    <2>4. TaskOK'
      BY <1>3, <2>3 DEF AttachEnv, TaskOK, Between, Releasing, Await
    <2> QED BY <1>3, <2>4 DEF AttachEnv
  <1>23. CASE AttachPorts
    <2>1. ASSUME NEW d \in left
          PROVE  [snap[d] EXCEPT !.ports = IF Exists(d) THEN row[d].ports ELSE {}] \in Row
      <3>1. d \in Id /\ snap[d] \in Row
        BY DEF TaskOK
      <3>2. CASE Exists(d)
        <4>1. row[d].ports \in SUBSET Port
          BY <3>1, <3>2, RowType DEF Row
        <4> QED BY <3>1, <3>2, <4>1 DEF Row
      <3>3. CASE ~Exists(d)
        BY <3>1, <3>3 DEF Row
      <3> QED BY <3>2, <3>3
    <2>2. ASSUME NEW d \in Id PROVE snap'[d] \in Row \union {None} /\ (d \in left => snap'[d] # None)
      BY <1>23, <2>1, RowIsNew DEF AttachPorts
    <2>3. snap' \in [Id -> Row \union {None}] /\ \A d \in left : snap'[d] # None
      BY <1>23, <2>2 DEF AttachPorts, TaskOK
    <2>4. TaskOK'
      BY <1>23, <2>3 DEF AttachPorts, TaskOK, Between, Releasing, Await
    <2> QED BY <1>23, <2>4 DEF AttachPorts
  <1>4. CASE RoundDone
    <2>1. TaskOK'
      BY <1>4 DEF RoundDone, Goto, TaskOK, Between, Releasing, Await
    <2> QED BY <1>4, <2>1 DEF RoundDone
  <1>5. ASSUME NEW d \in Id, Pick(d) PROVE Kept
    <2>1. TaskOK'
      BY <1>5, NoneIsNew DEF Pick, TaskOK, Between, Releasing, Await, Purpose
    <2> QED BY <1>5, <2>1 DEF Pick
  <1>6. CASE MarkPending
    BY <1>6, CurType, DoneType, StatusType DEF MarkPending, Between, Status
  <1>7. CASE Inspect
    <2>1. Want # None
      BY <1>7 DEF Inspect, TaskOK, Releasing, Want
    <2> QED BY <1>7, <2>1, FailType, SweepType, GotoType DEF Inspect, Between, Purpose, Await
  <1>8. CASE MarkDeploying
    <2>1. Want # None
      BY <1>8 DEF MarkDeploying, TaskOK, Releasing, Want
    <2>2. TaskOK'
      BY <1>8, <2>1, FailType, SweepType, GotoType DEF MarkDeploying, Between, Purpose, Await
    <2>3. RowsOK'
      BY <1>8, CurType, StatusType DEF MarkDeploying, Between, Status
    <2>4. CountersOK'
      BY <1>8, FaultType DEF MarkDeploying, CountersOK
    <2> QED BY <1>8, <2>2, <2>3, <2>4 DEF MarkDeploying
  <1>9. CASE list_by_label
    <2>1. TaskOK'
      BY <1>9 DEF list_by_label, Labelled, TaskOK, Between, Releasing, Await
    <2> QED BY <1>9, <2>1 DEF list_by_label
  <1>10. CASE SweepDone
    <2>1. TaskOK'
      BY <1>10 DEF SweepDone, AfterSweep, TaskOK, Between, Releasing, Await, Purpose
    <2> QED BY <1>10, <2>1 DEF SweepDone
  <1>11. ASSUME NEW c \in Container, SweepOne(c) PROVE Kept
    <2>1. CASE RemoveFails(c)
      BY <1>11, <2>1, RemoveFailsType DEF SweepOne, Between
    <2>2. CASE Remove(c) /\ todo' = todo \ {c} /\ UNCHANGED <<pc, snap, left, cur, purpose, faults>>
      <3>1. TaskOK'
        BY <2>2 DEF TaskOK
      <3> QED BY <1>11, <2>2, <3>1, RemoveType DEF SweepOne
    <2> QED BY <1>11, <2>1, <2>2 DEF SweepOne
  <1>12. CASE Ensure
    <2>1. Want # None /\ container_name \in Container /\ pc \notin Between
      BY <1>12, CurType DEF Ensure, TaskOK, Releasing, Want, Between
    <2>2. CASE RemoveFails(container_name)
      BY <1>12, <2>1, <2>2, RemoveFailsType DEF Ensure
    <2>3. CASE Remove(container_name) /\ Goto("create") /\ UNCHANGED faults
      BY <1>12, <2>1, <2>3, RemoveType, GotoType DEF Ensure, Await, Between
    <2>4. CASE Goto("health") /\ UNCHANGED <<containers, faults>>
      BY <1>12, <2>1, <2>4, GotoType DEF Ensure, Await, Between
    <2> QED BY <1>12, <2>2, <2>3, <2>4 DEF Ensure
  <1>13. CASE ensure_host_ports_free
    BY <1>13, FailType, GotoType DEF ensure_host_ports_free, TaskOK, Releasing, Want, Between, Await
  <1>14. CASE create_and_start
    <2> DEFINE new(s) == [containers EXCEPT ![container_name] =
                            [label |-> cur, env |-> snap[cur].env,
                             ports |-> snap[cur].ports, state |-> s]]
    <2>1. Want # None /\ cur \in Id /\ snap[cur] \in Row /\ pc \notin Between
      BY <1>14, CurType DEF create_and_start, TaskOK, Releasing, Want, Between
    <2>2. ASSUME NEW s \in {"running", "stopped"}
          PROVE  new(s) \in [Container -> ContainerStatus \union {None}]
      <3>1. [label |-> cur, env |-> snap[cur].env,
             ports |-> snap[cur].ports, state |-> s] \in ContainerStatus
        BY <2>1 DEF Row, ContainerStatus
      <3> QED BY <3>1 DEF ContainersOK
    <2>3. CASE containers' = new("running") /\ Goto("health") /\ UNCHANGED faults
      <3>1. TaskOK'
        BY <2>1, <2>3, GotoType DEF Await, Between
      <3> QED BY <1>14, <2>2, <2>3, <3>1 DEF create_and_start, ContainersOK
    <2>4. CASE Fail /\ UNCHANGED <<containers, faults>>
      BY <1>14, <2>1, <2>4, FailType DEF create_and_start
    <2>5. CASE Fault("docker") /\ containers' \in {containers, new("stopped")} /\ Fail
      <3>1. TaskOK' /\ CountersOK' /\ ContainersOK'
        BY <1>14, <2>1, <2>2, <2>5, FailType, FaultType DEF create_and_start, ContainersOK, CountersOK
      <3> QED BY <1>14, <3>1 DEF create_and_start
    <2> QED BY <1>14, <2>3, <2>4, <2>5 DEF create_and_start
  <1>15. CASE wait_healthy
    <2>1. TaskOK'
      BY <1>15, FailType, GotoType DEF wait_healthy, TaskOK, Releasing, Want, Between, Await
    <2>2. CountersOK'
      BY <1>15, FaultType DEF wait_healthy, CountersOK
    <2> QED BY <1>15, <2>1, <2>2 DEF wait_healthy
  <1>16. CASE point_proxy_at
    BY <1>16, GotoType DEF point_proxy_at, TaskOK, Releasing, Want, Between, Await
  <1>17. CASE set_active_release
    <2>1. Want # None /\ pc \notin Between
      BY <1>17 DEF set_active_release, TaskOK, Releasing, Want, Between
    <2>2. TaskOK'
      BY <1>17, <2>1, FailType, SweepType DEF set_active_release, Purpose
    <2>3. RowsOK'
      BY <1>17, <2>1, CurType, ActiveType DEF set_active_release
    <2> QED BY <1>17, <2>2, <2>3 DEF set_active_release
  <1>18. CASE MarkRunning
    BY <1>18, CurType, DoneType, StatusType DEF MarkRunning, Between, Status
  <1>19. CASE MarkSettled
    BY <1>19, CurType, DoneType, StatusType DEF MarkSettled, Between, Status
  <1>20. CASE ClearActive
    BY <1>20, CurType, GotoType, ActiveType DEF ClearActive, Between, Await, Releasing
  <1>21. CASE MarkStopped
    BY <1>21, CurType, DoneType, StatusType DEF MarkStopped, Between, Status
  <1>22. CASE RecordFailure
    BY <1>22, CurType, DoneType, StatusType DEF RecordFailure, Between, Status
  <1> QED BY <1>1, <1>2, <1>3, <1>4, <1>5, <1>6, <1>7, <1>8, <1>9, <1>10, <1>11, <1>12, <1>13,
             <1>14, <1>15, <1>16, <1>17, <1>18, <1>19, <1>20, <1>21, <1>22, <1>23 DEF Reconciler

\* So does every call of it that fails and changes nothing.
LEMMA TypeBrokenCall == TypeOK /\ BrokenCall => TypeOK'
  <1> SUFFICES ASSUME TypeOK, NEW at \in Await \ Between, NEW kind, CallFails(at, kind) PROVE TypeOK'
    BY DEF BrokenCall, Await, Between
  <1>1. TaskOK'
    BY FailType DEF CallFails, TypeOK
  <1>2. CountersOK'
    BY FaultType, DataParts DEF CallFails, TypeOK, CountersOK
  <1> QED BY <1>1, <1>2, Same, DataParts DEF CallFails, TypeOK, DataOK,
             RowsOK, ReleasesOK, ContainersOK, CallsOK, CountersOK

\* So do the docker daemon, retention and the end of the agent.
LEMMA TypeEnvironment == TypeOK /\ Environment => TypeOK'
  <1> DEFINE Kept == RowsOK' /\ ReleasesOK' /\ ContainersOK' /\ CallsOK' /\ CountersOK' /\ TaskOK'
  <1> SUFFICES ASSUME TypeOK, Environment PROVE Kept
    BY DataParts DEF TypeOK, DataOK, RowsOK, ReleasesOK, ContainersOK, CallsOK, CountersOK
  <1>0. RowsOK /\ ReleasesOK /\ ContainersOK /\ CallsOK /\ CountersOK /\ TaskOK
    BY DataParts DEF TypeOK
  <1> USE <1>0, Same, TaskFrame
  <1>1. ASSUME NEW c \in Container, Exit(c) PROVE Kept
    <2>1. ContainersOK'
      BY <1>1, StateType DEF Exit, Up
    <2>2. CountersOK'
      BY <1>1, FaultType DEF Exit, CountersOK
    <2> QED BY <1>1, <2>1, <2>2 DEF Exit
  <1>2. ASSUME NEW c \in Container, Restart(c) PROVE Kept
    BY <1>2, StateType DEF Restart
  <1>3. ASSUME NEW c \in Container, ComeUp(c) PROVE Kept
    BY <1>3, StateType DEF ComeUp
  <1>4. ASSUME NEW d \in Id, NEW r \in Release, delete_release(d, r) PROVE Kept
    <2>1. ReleasesOK'
      BY <1>4 DEF delete_release, ReleasesOK
    <2> QED BY <1>4, <2>1 DEF delete_release
  <1>5. CASE Crash
    <2>1. TaskOK'
      BY <1>5, NoneIsNew DEF Crash, TaskOK, Await, Purpose, Between, Releasing
    <2>2. CountersOK'
      BY <1>5, FaultType DEF Crash
    <2> QED BY <1>5, <2>1, <2>2 DEF Crash, CallsOK
  <1> QED BY <1>1, <1>2, <1>3, <1>4, <1>5 DEF Environment

\* The rows, the containers, the calls in flight and the task's locals keep their
\* types, and at every await of converge_one the locals that it reads exist.
THEOREM TypeCorrect == Spec => []TypeOK
  <1>1. TypeOK /\ [Next]_vars => TypeOK'
    <2>1. TypeOK /\ UNCHANGED vars => TypeOK'
      BY TaskFrame, DataParts, Same DEF vars, TypeOK, DataOK
    <2> QED BY <2>1, TypeHandlers, TypeReconciler, TypeBrokenCall, TypeEnvironment DEF Next
  <1> QED BY <1>1, TypeInit, PTL DEF Spec

-----------------------------------------------------------------------------
(* What the sweeps guarantee: neither a stopped deployment nor one about to  *)
(* publish host ports has a container.                                       *)

\* The task works on ids that were created.
Known == \A d \in Id : d \in left \/ d = cur => row[d] # None

\* From set_status(Deploying) to the new container the row says "deploying",
\* so what a deploy starts is never found under a row that says "stopped".
Launching == pc \in {"ensure", "create", "start"} \/ (pc \in {"listing", "sweep"} /\ purpose = "make_room")
DeployingShown == Launching /\ Exists(cur) => row[cur].status = "deploying"

\* A sweep that keeps nothing has all that is left of the deployment before it.
SweepCovers == pc = "sweep" /\ purpose \in {"stop", "make_room"} => Labelled(cur) \subseteq todo

\* And after it nothing is left.
Emptied == \/ pc \in {"clear_active", "mark_stopped"}
           \/ pc \in {"ensure", "create", "start"} /\ snap[cur].ports # {}
Cleared == Emptied => Labelled(cur) = {}

SweepInv == StoppedMeansGone /\ Known /\ DeployingShown /\ SweepCovers /\ Cleared

-----------------------------------------------------------------------------
(* What the steps have in common                                           *)

\* No deployment gains a container.
Shrinks == \A d \in Id : Labelled(d)' \subseteq Labelled(d)

\* No id loses its row, and none comes to say "stopped".
NoneStops ==
    \A d \in Id : /\ row[d] # None => row'[d] # None
                  /\ Exists(d)' /\ row'[d].status = "stopped" => Exists(d) /\ row[d].status = "stopped"

\* The task is at an await that the last three parts of SweepInv say nothing of.
Quiet == \/ pc \notin {"ensure", "create", "start", "listing", "sweep", "clear_active", "mark_stopped"}
         \/ pc = "listing" /\ purpose # "make_room"

\* At a quiet await nothing is promised, so every promise is kept.
LEMMA QuietHolds == Quiet => DeployingShown /\ SweepCovers /\ Cleared
  BY DEF Quiet, DeployingShown, Launching, SweepCovers, Cleared, Emptied

\* A step that gives no container to anyone and stops no row cannot break
\* StoppedMeansGone.
LEMMA StoppedKept == StoppedMeansGone /\ Shrinks /\ NoneStops => StoppedMeansGone'
  BY DEF StoppedMeansGone, Shrinks, NoneStops

\* The task works on deployments that were created: a step that only moves it
\* along its list, and takes no row, keeps it so.
LEMMA KnownKept ==
  ASSUME Known, NoneStops, left' \subseteq left, cur' = cur \/ cur' = None \/ cur' \in left
  PROVE  Known'
  BY NoneIsNew DEF Known, NoneStops

\* A step that ends at an await where nothing is promised.
LEMMA QuietStep ==
  ASSUME SweepInv, Shrinks, NoneStops, left' \subseteq left,
         cur' = cur \/ cur' = None \/ cur' \in left, Quiet'
  PROVE  SweepInv'
  <1>1. (Quiet => DeployingShown /\ SweepCovers /\ Cleared)'
    BY QuietHolds, PTL
  <1> QED BY <1>1, StoppedKept, KnownKept DEF SweepInv

\* A step that writes no row stops none.
LEMMA SameRows == UNCHANGED row => NoneStops
  BY DEF NoneStops, Exists

\* A step that touches no container gives none to anyone.
LEMMA SameContainers == UNCHANGED containers => Shrinks
  BY DEF Shrinks, Labelled, Present

\* stop_and_remove takes its container from its deployment and gives none.
LEMMA RemovedShrinks ==
  ASSUME NEW c, Remove(c), ContainersOK PROVE Shrinks
  BY DEF Shrinks, Labelled, Present, Remove, ContainersOK

\* A container that only changes state stays whose it is.
LEMMA StateShrinks ==
  ASSUME ContainersOK, NEW c \in Container, Present(c), NEW s,
         containers' = [containers EXCEPT ![c].state = s]
  PROVE  Shrinks
  <1>1. containers[c] \in ContainerStatus
    BY DEF ContainersOK, Present
  <1>2. [containers[c] EXCEPT !.state = s].label = containers[c].label
    BY <1>1 DEF ContainerStatus
  <1> QED BY <1>2 DEF ContainersOK, Shrinks, Labelled, Present

\* A stop_and_remove that fails leaves the container whose it is.
LEMMA RemoveFailsShrinks ==
  ASSUME ContainersOK, NEW c \in Container, RemoveFails(c) PROVE Shrinks
  BY StateShrinks, SameContainers DEF RemoveFails

\* set_status(cur, s): the row of cur, if it is still there, says s.
LEMMA StatusEffect ==
  ASSUME RowsOK, NEW e \in Id, NEW s \in Status, row[e] # None,
         Write(e, [row[e] EXCEPT !.status = s])
  PROVE  \A d \in Id : /\ row[d] # None => row'[d] # None
                       /\ d # e => row'[d] = row[d]
                       /\ Exists(d)' => Exists(d)
                       /\ d = e /\ Exists(d)' => row'[d].status = s
  <1>1. Exists(e) => /\ [row[e] EXCEPT !.status = s] \in Row
                     /\ [row[e] EXCEPT !.status = s].status = s
    BY RowType DEF Row
  <1> QED BY <1>1, RowIsNew DEF Write, Exists, RowsOK

\* set_status with any status but "stopped" makes no row say "stopped".
LEMMA StatusNoneStops ==
  ASSUME RowsOK, NEW e \in Id, NEW s \in Status \ {"stopped"}, row[e] # None,
         Write(e, [row[e] EXCEPT !.status = s])
  PROVE  NoneStops
  BY StatusEffect DEF NoneStops

\* set_active_release keeps the status.
LEMMA ActiveNoneStops ==
  ASSUME RowsOK, NEW e \in Id, NEW r \in Release \union {None},
         Write(e, [row[e] EXCEPT !.active_release = r])
  PROVE  NoneStops
  <1>1. Exists(e) => /\ [row[e] EXCEPT !.active_release = r] \in Row
                     /\ [row[e] EXCEPT !.active_release = r].status = row[e].status
    BY RowType DEF Row
  <1> QED BY <1>1, RowIsNew DEF Write, Exists, RowsOK, NoneStops

\* Every handler leaves every status alone, and creates only what never was.
LEMMA HandlersQuiet ==
  ASSUME TypeOK, Handlers
  PROVE  /\ UNCHANGED <<containers, task>> /\ NoneStops
         /\ \A d \in Id : row[d] # None /\ Exists(d)' => Exists(d) /\ row'[d].status = row[d].status
  <1> DEFINE Kept == /\ UNCHANGED <<containers, task>> /\ NoneStops
                     /\ \A d \in Id : row[d] # None /\ Exists(d)'
                                       => Exists(d) /\ row'[d].status = row[d].status
  <1> SUFFICES Kept
    OBVIOUS
  <1>0. RowsOK /\ CallsOK
    BY DataParts DEF TypeOK
  <1>1. ASSUME UNCHANGED <<row, containers, task>> PROVE Kept
    BY <1>1 DEF NoneStops, Exists
  <1>2. ASSUME NEW d \in Id, NEW new \in Row, Exists(d), new.status = row[d].status,
               row' = [row EXCEPT ![d] = new], UNCHANGED <<containers, task>>
        PROVE  Kept
    BY <1>0, <1>2, RowIsNew DEF NoneStops, Exists, RowsOK
  <1>3. ASSUME NEW d \in Id, create(d) PROVE Kept
    <2>1. PICK n \in Name, v \in SUBSET Env, ps \in SUBSET Port : row' = [row EXCEPT ![d] =
              [name |-> n, env |-> v, ports |-> ps, desired_state |-> "running",
               status |-> "pending", desired_release |-> None, active_release |-> None]]
      BY <1>3 DEF create
    <2> DEFINE new == [name |-> n, env |-> v, ports |-> ps, desired_state |-> "running",
               status |-> "pending", desired_release |-> None, active_release |-> None]
    <2>2. new \in Row /\ new.status = "pending"
      BY DEF Row, Status
    <2> HIDE DEF new
    <2>3. row' = [row EXCEPT ![d] = new] /\ row[d] = None
      BY <2>1, <1>3 DEF create, new
    <2> QED BY <1>0, <1>3, <2>2, <2>3, RowIsNew DEF create, NoneStops, Exists, RowsOK
  <1>4. ASSUME NEW d \in Id, update(d) PROVE Kept
    <2>1. PICK n \in Name, v \in SUBSET Env, ps \in SUBSET Port :
            row' = [row EXCEPT ![d] = [@ EXCEPT !.name = n, !.env = v, !.ports = ps]]
      BY <1>4 DEF update
    <2> DEFINE new == [row[d] EXCEPT !.name = n, !.env = v, !.ports = ps]
    <2>2. new \in Row /\ new.status = row[d].status
      BY <1>0, <1>4, RowType DEF update, Row
    <2>3. row' = [row EXCEPT ![d] = new]
      BY <2>1
    <2> HIDE DEF new
    <2> QED BY <1>2, <1>4, <2>2, <2>3 DEF update
  <1>5. ASSUME NEW d \in Id, delete(d) PROVE Kept
    BY <1>0, <1>5, NoneIsNew DEF delete, NoneStops, Exists, RowsOK
  <1>6. ASSUME NEW d \in Id, NEW s \in {"running", "stopped"}, set_state(d, s) PROVE Kept
    <2> DEFINE new == [row[d] EXCEPT !.desired_state = s]
    <2>1. new \in Row /\ new.status = row[d].status
      BY <1>0, <1>6, RowType DEF set_state, Row
    <2>2. row' = [row EXCEPT ![d] = new]
      BY <1>6 DEF set_state, Write
    <2> HIDE DEF new
    <2> QED BY <1>2, <1>6, <2>1, <2>2 DEF set_state
  <1>7. ASSUME NEW d \in Id, NEW r \in Release, NEW b \in BOOLEAN, register_release(d, r, b)
        PROVE  Kept
    BY <1>1, <1>7 DEF register_release
  <1>8. ASSUME NEW d \in Id, NEW r \in Release, rollback_deployment(d, r) PROVE Kept
    BY <1>1, <1>8 DEF rollback_deployment
  <1>9. ASSUME NEW call \in calls, set_desired_release(call) PROVE Kept
    <2> DEFINE new == [row[call.id] EXCEPT !.desired_release = call.release]
    <2>1. call.id \in Id /\ call.release \in Release \union {None}
      BY <1>0 DEF CallsOK, Call
    <2>2. Exists(call.id) => new \in Row /\ new.status = row[call.id].status
      BY <1>0, <2>1, RowType DEF Row
    <2>3. UNCHANGED row \/ (Exists(call.id) /\ row' = [row EXCEPT ![call.id] = new])
      BY <1>9 DEF set_desired_release, Write
    <2>4. UNCHANGED <<containers, task>>
      BY <1>9 DEF set_desired_release
    <2> HIDE DEF new
    <2> QED BY <1>1, <1>2, <2>1, <2>2, <2>3, <2>4
  <1>10. ASSUME NEW call \in calls, notify_one(call) PROVE Kept
    BY <1>1, <1>10 DEF notify_one
  <1> QED BY <1>3, <1>4, <1>5, <1>6, <1>7, <1>8, <1>9, <1>10 DEF Handlers

\* A step of others leaves the task where it is: its promises hold on.
LEMMA FrameStep ==
  ASSUME TypeOK, SweepInv, UNCHANGED task, Shrinks, NoneStops,
         \A d \in Id : row[d] # None /\ Exists(d)' => Exists(d) /\ row'[d].status = row[d].status
  PROVE  SweepInv'
  <1>1. UNCHANGED <<pc, snap, left, cur, purpose, todo>>
    BY DEF task
  <1>2. Known' /\ StoppedMeansGone'
    BY <1>1, KnownKept, StoppedKept DEF SweepInv
  <1>3. pc \notin Between => cur \in Id /\ row[cur] # None
    BY CurType DEF TypeOK, SweepInv, Known
  <1>4. DeployingShown'
    BY <1>1, <1>3 DEF SweepInv, DeployingShown, Launching, Between
  <1>5. SweepCovers' /\ Cleared'
    BY <1>1, <1>3 DEF SweepInv, SweepCovers, Cleared, Emptied, Shrinks, Between
  <1> QED BY <1>2, <1>4, <1>5 DEF SweepInv

-----------------------------------------------------------------------------
(* The steps                                                               *)

\* A fresh host: no container, no row, and an idle task.
LEMMA SweepInit == Init => SweepInv
  BY NoneIsNew DEF Init, SweepInv, StoppedMeansGone, Known, DeployingShown, Launching,
         SweepCovers, Cleared, Emptied, Exists

\* No API call breaks the invariant, wherever the task is: a handler may change
\* every setting and delete the row, but it changes no status and no container.
LEMMA SweepHandlers == TypeOK /\ SweepInv /\ Handlers => SweepInv'
  BY HandlersQuiet, SameContainers, FrameStep

\* Nor does an exit, a restart, a coming up, retention, or a crash of the agent.
LEMMA SweepEnvironment == TypeOK /\ SweepInv /\ Environment => SweepInv'
  <1> SUFFICES ASSUME TypeOK, SweepInv, Environment PROVE SweepInv'
    OBVIOUS
  <1>0. ContainersOK
    BY DataParts DEF TypeOK
  <1>1. ASSUME UNCHANGED <<row, task>>, Shrinks PROVE SweepInv'
    BY <1>1, SameRows, FrameStep DEF Exists
  <1>2. ASSUME NEW c \in Container, Exit(c) PROVE SweepInv'
    BY <1>0, <1>1, <1>2, StateShrinks DEF Exit, Up
  <1>3. ASSUME NEW c \in Container, Restart(c) PROVE SweepInv'
    BY <1>0, <1>1, <1>3, StateShrinks DEF Restart
  <1>4. ASSUME NEW c \in Container, ComeUp(c) PROVE SweepInv'
    BY <1>0, <1>1, <1>4, StateShrinks DEF ComeUp
  <1>5. ASSUME NEW d \in Id, NEW r \in Release, delete_release(d, r) PROVE SweepInv'
    BY <1>1, <1>5, SameContainers DEF delete_release
  <1>6. CASE Crash
    <2>1. Quiet'
      BY <1>6 DEF Crash, Quiet
    <2> QED BY <1>6, <2>1, QuietStep, SameRows, SameContainers DEF Crash
  <1> QED BY <1>2, <1>3, <1>4, <1>5, <1>6 DEF Environment

\* An error leaves converge_one, whatever the call that failed did before.
LEMMA FailQuiet ==
  ASSUME SweepInv, Shrinks, UNCHANGED row, Fail PROVE SweepInv'
  <1>1. Quiet'
    BY DEF Fail, Quiet
  <1> QED BY <1>1, QuietStep, SameRows DEF Fail

\* A step within converge_one to an await where nothing is promised.
LEMMA GotoQuiet ==
  ASSUME SweepInv, Shrinks, NoneStops, NEW p, Goto(p),
         p \notin {"ensure", "create", "start", "listing", "sweep", "clear_active", "mark_stopped"}
  PROVE  SweepInv'
  <1>1. Quiet'
    BY DEF Goto, Quiet
  <1> QED BY <1>1, QuietStep DEF Goto

\* The same for a step that calls sweep other than to make room.
LEMMA SweepQuiet ==
  ASSUME SweepInv, Shrinks, NoneStops, NEW why, Sweep(why), why # "make_room"
  PROVE  SweepInv'
  <1>1. Quiet'
    BY DEF Sweep, Quiet
  <1> QED BY <1>1, QuietStep DEF Sweep

\* The same for a step that ends the converge of a deployment.
LEMMA DoneQuiet ==
  ASSUME SweepInv, Shrinks, NoneStops, Done PROVE SweepInv'
  <1>1. Quiet'
    BY DEF Done, Quiet
  <1> QED BY <1>1, QuietStep DEF Done

\* A collaborator's call that fails and changes nothing ends in an error.
LEMMA SweepBrokenCall == TypeOK /\ SweepInv /\ BrokenCall => SweepInv'
  BY FailQuiet, SameContainers DEF BrokenCall, CallFails

-----------------------------------------------------------------------------
(* The steps that give or rely on the promises.                            *)

\* A deploy says "deploying" before anything else, and a deploy with host
\* ports goes on to make room.
LEMMA LaunchStep == TypeOK /\ SweepInv /\ MarkDeploying => SweepInv'
  <1> SUFFICES ASSUME TypeOK, SweepInv, MarkDeploying PROVE SweepInv'
    OBVIOUS
  <1>1. cur \in Id /\ RowsOK /\ row[cur] # None
    BY DataParts, CurType DEF TypeOK, MarkDeploying, Between, SweepInv, Known
  <1>2. \A d \in Id : d = cur /\ Exists(d)' => row'[d].status = "deploying"
    BY <1>1, StatusEffect DEF MarkDeploying, Status
  <1>3. NoneStops /\ Shrinks
    BY <1>1, StatusNoneStops, SameContainers DEF MarkDeploying, Status
  <1>4. CASE Fail
    <2>1. Quiet'
      BY <1>4 DEF Fail, Quiet
    <2> QED BY <1>3, <1>4, <2>1, QuietStep DEF Fail
  <1>5. CASE Sweep("make_room") \/ (snap[cur].ports = {} /\ Goto("ensure"))
    <2>1. left' = left /\ cur' = cur /\ snap' = snap
      BY <1>5 DEF Sweep, Goto
    <2>2. DeployingShown'
      BY <1>1, <1>2, <2>1 DEF DeployingShown
    <2>3. SweepCovers' /\ Cleared'
      BY <1>5 DEF Sweep, Goto, SweepCovers, Cleared, Emptied
    <2> QED BY <1>3, <2>1, <2>2, <2>3, KnownKept, StoppedKept DEF SweepInv
  <1> QED BY <1>4, <1>5 DEF MarkDeploying

\* Once listed, what is labelled with the deployment and not kept is still to
\* be swept.
LEMMA ListingStep == TypeOK /\ SweepInv /\ list_by_label => SweepInv'
  <1> SUFFICES ASSUME TypeOK, SweepInv, list_by_label PROVE SweepInv'
    OBVIOUS
  <1>1. NoneStops /\ Shrinks
    BY SameRows, SameContainers DEF list_by_label
  <1>2. Known' /\ StoppedMeansGone'
    BY <1>1, KnownKept, StoppedKept DEF SweepInv, list_by_label
  <1>3. DeployingShown'
    BY DEF SweepInv, DeployingShown, Launching, Exists, list_by_label
  <1>4. purpose \in {"stop", "make_room"} => Keep = {}
    BY DEF Keep
  <1>5. SweepCovers' /\ Cleared'
    BY <1>4 DEF list_by_label, SweepCovers, Cleared, Emptied, Labelled, Present
  <1> QED BY <1>2, <1>3, <1>5 DEF SweepInv

\* A container that leaves the list has left the host.
LEMMA SweepOneStep ==
  ASSUME TypeOK, SweepInv, NEW c \in Container, SweepOne(c) PROVE SweepInv'
  <1>0. ContainersOK
    BY DataParts DEF TypeOK
  <1>1. CASE RemoveFails(c)
    BY <1>0, <1>1, RemoveFailsShrinks, FailQuiet DEF SweepOne, RemoveFails
  <1>2. CASE Remove(c) /\ todo' = todo \ {c} /\ UNCHANGED <<pc, snap, left, cur, purpose>>
    <2>1. NoneStops /\ Shrinks
      BY <1>0, <1>2, SameRows, RemovedShrinks DEF SweepOne
    <2>2. Known' /\ StoppedMeansGone'
      BY <1>2, <2>1, KnownKept, StoppedKept DEF SweepInv
    <2>3. DeployingShown'
      BY <1>2 DEF SweepInv, DeployingShown, Launching, Exists, SweepOne
    <2>4. Labelled(cur) \subseteq todo => Labelled(cur)' \subseteq todo'
      BY <1>0, <1>2 DEF Labelled, Present, Remove, ContainersOK
    <2>5. SweepCovers' /\ Cleared'
      BY <1>2, <2>4 DEF SweepOne, SweepInv, SweepCovers, Cleared, Emptied
    <2> QED BY <2>2, <2>3, <2>5 DEF SweepInv
  <1> QED BY <1>1, <1>2 DEF SweepOne

\* When the list is exhausted a full sweep has emptied the deployment.
LEMMA SweepDoneStep == TypeOK /\ SweepInv /\ SweepDone => SweepInv'
  <1> SUFFICES ASSUME TypeOK, SweepInv, SweepDone PROVE SweepInv'
    OBVIOUS
  <1>1. NoneStops /\ Shrinks
    BY SameRows, SameContainers DEF SweepDone
  <1>2. Known' /\ StoppedMeansGone'
    BY <1>1, KnownKept, StoppedKept DEF SweepInv, SweepDone
  <1>3. purpose \in {"stop", "make_room", "settled", "superseded"}
    BY DEF TypeOK, TaskOK, SweepDone, Purpose
  <1>4. DeployingShown'
    BY <1>3 DEF SweepInv, DeployingShown, Launching, Exists, SweepDone, AfterSweep
  <1>5. purpose \in {"stop", "make_room"} => Labelled(cur) = {}
    BY DEF SweepInv, SweepCovers, SweepDone
  <1>6. SweepCovers' /\ Cleared'
    BY <1>3, <1>5 DEF SweepDone, AfterSweep, SweepCovers, Cleared, Emptied, Labelled, Present
  <1> QED BY <1>2, <1>4, <1>6 DEF SweepInv

\* From one await of the launch to the next, without a new container.
LEMMA LaunchingStep ==
  ASSUME SweepInv, TypeOK, Shrinks, UNCHANGED row, pc \in {"ensure", "create"},
         NEW p \in {"create", "start"}, Goto(p)
  PROVE  SweepInv'
  <1>1. Known' /\ StoppedMeansGone'
    BY SameRows, KnownKept, StoppedKept DEF SweepInv, Goto
  <1>2. DeployingShown'
    BY DEF SweepInv, DeployingShown, Launching, Exists, Goto
  <1>3. cur \in Id
    BY CurType DEF TypeOK, Between
  <1>4. SweepCovers' /\ Cleared'
    BY <1>3 DEF SweepInv, SweepCovers, Cleared, Emptied, Goto, Shrinks
  <1> QED BY <1>1, <1>2, <1>4 DEF SweepInv

\* The new container belongs to a deployment whose row says "deploying", or
\* which is gone: no stopped deployment gains one.
LEMMA CreateStep == TypeOK /\ SweepInv /\ create_and_start => SweepInv'
  <1> SUFFICES ASSUME TypeOK, SweepInv, create_and_start PROVE SweepInv'
    OBVIOUS
  <1>0. ContainersOK /\ cur \in Id
    BY DataParts, CurType DEF TypeOK, create_and_start, Between
  <1>1. NoneStops /\ UNCHANGED row
    BY SameRows DEF create_and_start
  <1>2. CASE UNCHANGED containers /\ Fail
    BY <1>1, <1>2, SameContainers, FailQuiet
  <1>3. ASSUME NEW s, Goto("health") \/ Fail,
               containers' = [containers EXCEPT ![container_name] =
                   [label |-> cur, env |-> snap[cur].env,
                    ports |-> snap[cur].ports, state |-> s]]
        PROVE  SweepInv'
    <2>1. \A d \in Id \ {cur} : Labelled(d)' \subseteq Labelled(d)
      BY <1>0, <1>3 DEF Labelled, Present, ContainersOK
    <2>2. ~Exists(cur) \/ row[cur].status = "deploying"
      BY DEF create_and_start, SweepInv, DeployingShown, Launching
    <2>3. StoppedMeansGone'
      BY <1>1, <2>1, <2>2 DEF SweepInv, StoppedMeansGone, Exists
    <2>4. Known'
      BY <1>1, <1>3, KnownKept DEF Goto, Fail, SweepInv
    <2>5. Quiet'
      BY <1>3 DEF Goto, Fail, Quiet
    <2>6. (Quiet => DeployingShown /\ SweepCovers /\ Cleared)'
      BY QuietHolds, PTL
    <2> QED BY <2>3, <2>4, <2>5, <2>6 DEF SweepInv
  <1> QED BY <1>2, <1>3 DEF create_and_start

\* Between the sweep of a stop and its last statement nothing comes back.
LEMMA ClearStep == TypeOK /\ SweepInv /\ ClearActive => SweepInv'
  <1> SUFFICES ASSUME TypeOK, SweepInv, ClearActive PROVE SweepInv'
    OBVIOUS
  <1>1. RowsOK /\ cur \in Id
    BY DataParts, CurType DEF TypeOK, ClearActive, Between
  <1>2. NoneStops /\ Shrinks
    BY <1>1, ActiveNoneStops, SameContainers DEF ClearActive
  <1>3. Known' /\ StoppedMeansGone'
    BY <1>2, KnownKept, StoppedKept DEF SweepInv, ClearActive, Goto
  <1>4. DeployingShown' /\ SweepCovers' /\ Cleared'
    BY DEF ClearActive, Goto, SweepInv, DeployingShown, Launching, SweepCovers, Cleared,
           Emptied, Labelled, Present
  <1> QED BY <1>3, <1>4 DEF SweepInv

\* The one step that makes a row say "stopped": nothing is left by then.
LEMMA StoppedStep == TypeOK /\ SweepInv /\ MarkStopped => SweepInv'
  <1> SUFFICES ASSUME TypeOK, SweepInv, MarkStopped PROVE SweepInv'
    OBVIOUS
  <1>1. RowsOK /\ cur \in Id /\ row[cur] # None
    BY DataParts, CurType DEF TypeOK, MarkStopped, Between, SweepInv, Known
  <1>2. \A d \in Id : /\ row[d] # None => row'[d] # None
                      /\ d # cur => row'[d] = row[d]
    <2>1. Write(cur, [row[cur] EXCEPT !.status = "stopped"]) /\ "stopped" \in Status
      BY DEF MarkStopped, Status
    <2> QED BY <1>1, <2>1, StatusEffect
  <1>3. \A d \in Id : Labelled(d)' = Labelled(d)
    BY DEF MarkStopped, Labelled, Present
  <1>4. Labelled(cur) = {}
    BY DEF MarkStopped, SweepInv, Cleared, Emptied
  <1>5. StoppedMeansGone'
    BY <1>1, <1>2, <1>3, <1>4 DEF SweepInv, StoppedMeansGone, Exists
  <1>6. Known'
    BY <1>2, NoneIsNew DEF MarkStopped, Done, SweepInv, Known
  <1>7. Quiet'
    BY DEF MarkStopped, Done, Quiet
  <1>8. (Quiet => DeployingShown /\ SweepCovers /\ Cleared)'
    BY QuietHolds, PTL
  <1> QED BY <1>5, <1>6, <1>7, <1>8 DEF SweepInv

-----------------------------------------------------------------------------
(* The invariant holds                                                     *)

\* Every step of the reconciler task keeps the invariant.
LEMMA SweepReconciler == TypeOK /\ SweepInv /\ (Reconciler \/ Tick) => SweepInv'
  <1> SUFFICES ASSUME TypeOK, SweepInv, Reconciler \/ Tick PROVE SweepInv'
    OBVIOUS
  <1>0. ContainersOK /\ RowsOK
    BY DataParts DEF TypeOK
  <1>1. pc \notin Between => cur \in Id /\ row[cur] # None
    BY CurType DEF TypeOK, SweepInv, Known
  <1>2. CASE notified \/ Tick
    BY <1>2, GotoQuiet, SameRows, SameContainers DEF notified, Tick
  <1>3. CASE List
    <2>1. StoppedMeansGone' /\ Quiet'
      BY <1>3, SameRows, SameContainers, StoppedKept DEF List, SweepInv, Quiet
    <2>2. cur = None
      BY <1>3 DEF List, TypeOK, TaskOK, Between
    <2>3. Known'
      BY <1>3, <2>2, NoneIsNew DEF List, Known, Exists
    <2>4. (Quiet => DeployingShown /\ SweepCovers /\ Cleared)'
      BY QuietHolds, PTL
    <2> QED BY <2>1, <2>3, <2>4 DEF SweepInv
  <1>4. CASE AttachEnv
    <2>1. Quiet'
      BY <1>4 DEF AttachEnv, Quiet
    <2> QED BY <1>4, <2>1, QuietStep, SameRows, SameContainers DEF AttachEnv
  <1>18. CASE AttachPorts
    <2>1. Quiet'
      BY <1>18 DEF AttachPorts, Quiet
    <2> QED BY <1>18, <2>1, QuietStep, SameRows, SameContainers DEF AttachPorts
  <1>5. CASE RoundDone
    <2>1. Quiet' /\ UNCHANGED <<row, containers, left, cur>>
      BY <1>5 DEF RoundDone, Quiet
    <2> QED BY <2>1, QuietStep, SameRows, SameContainers
  <1>6. ASSUME NEW d \in Id, Pick(d) PROVE SweepInv'
    <2>1. Quiet'
      BY <1>6 DEF Pick, Quiet
    <2> QED BY <1>6, <2>1, QuietStep, SameRows, SameContainers DEF Pick
  <1>7. ASSUME pc \notin Between, NEW s \in Status \ {"stopped"},
               Write(cur, [row[cur] EXCEPT !.status = s])
        PROVE  NoneStops
    BY <1>0, <1>1, <1>7, StatusNoneStops
  <1>8. CASE MarkPending
    BY <1>7, <1>8, DoneQuiet, SameContainers DEF MarkPending, Between, Status
  <1>9. CASE Inspect
    BY <1>9, FailQuiet, SweepQuiet, GotoQuiet, SameRows, SameContainers DEF Inspect
  <1>10. CASE Ensure
    <2>1. container_name \in Container
      BY <1>10, CurType DEF Ensure, TypeOK, TaskOK, Releasing, Want, Between
    <2>2. CASE Goto("health") /\ UNCHANGED containers
      BY <1>10, <2>2, GotoQuiet, SameRows, SameContainers DEF Ensure
    <2>3. CASE Remove(container_name) /\ Goto("create")
      BY <1>0, <1>10, <2>3, RemovedShrinks, LaunchingStep DEF Ensure
    <2>4. CASE RemoveFails(container_name)
      BY <1>0, <1>10, <2>1, <2>4, RemoveFailsShrinks, FailQuiet DEF Ensure, RemoveFails
    <2> QED BY <1>10, <2>2, <2>3, <2>4 DEF Ensure
  <1>11. CASE ensure_host_ports_free
    BY <1>11, FailQuiet, LaunchingStep, SameContainers DEF ensure_host_ports_free
  <1>12. CASE wait_healthy
    BY <1>12, FailQuiet, GotoQuiet, SameRows, SameContainers DEF wait_healthy
  <1>13. CASE point_proxy_at
    BY <1>13, GotoQuiet, SameRows, SameContainers DEF point_proxy_at
  <1>14. CASE set_active_release
    <2>1. Want \in Release \union {None} /\ cur \in Id
      BY <1>14, CurType DEF set_active_release, TypeOK, Between
    <2>2. CASE Fail /\ UNCHANGED row
      BY <1>14, <2>2, FailQuiet, SameContainers DEF set_active_release
    <2>3. CASE Write(cur, [row[cur] EXCEPT !.active_release = Want]) /\ Sweep("superseded")
      BY <1>0, <1>14, <2>1, <2>3, ActiveNoneStops, SweepQuiet, SameContainers DEF set_active_release
    <2> QED BY <1>14, <2>2, <2>3 DEF set_active_release
  <1>15. CASE MarkRunning
    BY <1>7, <1>15, DoneQuiet, SameContainers DEF MarkRunning, Between, Status
  <1>16. CASE MarkSettled
    BY <1>7, <1>16, DoneQuiet, SameRows, SameContainers DEF MarkSettled, Between, Status
  <1>17. CASE RecordFailure
    BY <1>7, <1>17, DoneQuiet, SameContainers DEF RecordFailure, Between, Status
  <1> QED BY <1>2, <1>3, <1>4, <1>5, <1>6, <1>8, <1>9, <1>10, <1>11, <1>12, <1>13, <1>14, <1>15,
             <1>16, <1>17, <1>18, LaunchStep, ListingStep, SweepOneStep, SweepDoneStep, CreateStep,
             ClearStep, StoppedStep DEF Reconciler

\* Every step keeps the invariant, and so does standing still.
LEMMA SweepNext == TypeOK /\ SweepInv /\ [Next]_vars => SweepInv'
  <1>1. ASSUME TypeOK, SweepInv, UNCHANGED vars PROVE SweepInv'
    BY <1>1, SameRows, SameContainers, FrameStep DEF vars, Exists
  <1> QED BY <1>1, SweepHandlers, SweepReconciler, SweepBrokenCall, SweepEnvironment DEF Next

\* The inductive invariant holds: what each await of a stop, a sweep and a
\* deploy may rely on is there, whatever the others did since.
THEOREM SweepCorrect == Spec => []SweepInv
  BY TypeCorrect, SweepInit, SweepNext, PTL DEF Spec

\* However its calls fail, whatever snapshot it acts on and wherever the agent
\* dies, the reconciler leaves no container behind a row that says "stopped".
THEOREM StoppedIsGone == Spec => []StoppedMeansGone
  <1>1. SweepInv => StoppedMeansGone
    BY DEF SweepInv
  <1> QED BY <1>1, SweepCorrect, PTL

\* A deploy with host ports comes to its new container with all its old ones,
\* which could hold those ports, removed.
THEOREM PortsAreFreed == Spec => []OwnPortsFree
  <1>1. SweepInv => OwnPortsFree
    BY DEF SweepInv, Cleared, Emptied, OwnPortsFree
  <1> QED BY <1>1, SweepCorrect, PTL
-----------------------------------------------------------------------------
(* What becomes active: a container that came up and is still there.        *)

\* Only what came up serves, and a deploy past its health check has its container.
ServingIsSound == \A c \in Container : Serving(c) => c \in Sound
PassedIsThere == pc \in {"proxy", "activate"} => container_name \in Sound /\ Present(container_name)
HealthInv == ServingIsSound /\ PassedIsThere


\* A container that changes state stays there, and whose it is.
LEMMA StateEffect ==
  ASSUME ContainersOK, NEW c \in Container, Present(c),
         NEW s \in {"running", "serving", "exited", "stopped"},
         containers' = [containers EXCEPT ![c].state = s]
  PROVE  \A b \in Container :
             /\ Present(b)' <=> Present(b)
             /\ Present(b) => /\ containers'[b].label = containers[b].label
                              /\ containers'[b].state = IF b = c THEN s ELSE containers[b].state
  <1> DEFINE new == [containers[c] EXCEPT !.state = s]
  <1>1. containers[c] \in ContainerStatus
    BY DEF ContainersOK, Present
  <1>2. new \in ContainerStatus /\ new.label = containers[c].label /\ new.state = s
    BY <1>1 DEF ContainerStatus
  <1>3. containers' = [containers EXCEPT ![c] = new]
    OBVIOUS
  <1> HIDE DEF new
  <1> QED BY <1>2, <1>3, ContainerIsNew DEF ContainersOK, Present

\* After a stop_and_remove that fails every container is still there, and none
\* has come to serve.
LEMMA RemoveFailsEffect ==
  ASSUME ContainersOK, NEW c \in Container, RemoveFails(c)
  PROVE  \A b \in Container : /\ Present(b)' <=> Present(b)
                              /\ Serving(b)' => Serving(b)
  BY StateEffect DEF RemoveFails, Present, Serving

\* A step that touches neither the containers nor the task.
LEMMA HealthKept == HealthInv /\ UNCHANGED <<containers, task>> => HealthInv'
  BY DEF HealthInv, ServingIsSound, Serving, Present, PassedIsThere, container_name, Want, task

\* A step after which the task is not past a health check.
LEMMA NotPassed == ServingIsSound' /\ pc' \notin {"proxy", "activate"} => HealthInv'
  BY DEF HealthInv, PassedIsThere

\* A step of the task that touches no container.
LEMMA NotPassedSame ==
  HealthInv /\ UNCHANGED containers /\ pc' \notin {"proxy", "activate"} => HealthInv'
  BY NotPassed DEF HealthInv, ServingIsSound, Serving, Present

\* The environment changes the state of containers, and only what is sound
\* comes up.
LEMMA HealthEnvironment == TypeOK /\ HealthInv /\ Environment => HealthInv'
  <1> SUFFICES ASSUME TypeOK, HealthInv, Environment PROVE HealthInv'
    OBVIOUS
  <1>0. ContainersOK
    BY DataParts DEF TypeOK
  <1>1. ASSUME NEW c \in Container, Present(c), UNCHANGED task,
               NEW s \in {"running", "serving", "exited", "stopped"}, s = "serving" => c \in Sound,
               containers' = [containers EXCEPT ![c].state = s]
        PROVE  HealthInv'
    <2>1. \A b \in Container : /\ Present(b)' <=> Present(b)
                               /\ Present(b) => containers'[b].state = IF b = c THEN s ELSE containers[b].state
      BY <1>0, <1>1, StateEffect
    <2>2. ServingIsSound'
      BY <1>1, <2>1 DEF HealthInv, ServingIsSound, Serving
    <2>3. PassedIsThere'
      <3>1. UNCHANGED <<pc, snap, cur, container_name>>
        BY <1>1 DEF task, container_name, Want
      <3>2. pc \in {"proxy", "activate"} => container_name \in Container
        BY CurType DEF TypeOK, TaskOK, Between, Releasing, Want
      <3> QED BY <2>1, <3>1, <3>2 DEF HealthInv, PassedIsThere
    <2> QED BY <2>2, <2>3 DEF HealthInv
  <1>2. ASSUME NEW c \in Container, Exit(c) \/ Restart(c) \/ ComeUp(c) PROVE HealthInv'
    BY <1>1, <1>2 DEF Exit, Restart, ComeUp, Up
  <1>3. ASSUME NEW d \in Id, NEW r \in Release, delete_release(d, r) PROVE HealthInv'
    BY <1>3, HealthKept DEF delete_release
  <1>4. CASE Crash
    BY <1>4, NotPassedSame DEF Crash
  <1> QED BY <1>2, <1>3, <1>4 DEF Environment

\* What the task removes or makes does not serve, and between the check of a
\* container and its release's activation it removes none.
LEMMA HealthReconciler == TypeOK /\ HealthInv /\ (Reconciler \/ Tick) => HealthInv'
  <1> SUFFICES ASSUME TypeOK, HealthInv, Reconciler \/ Tick PROVE HealthInv'
    OBVIOUS
  <1>0. ContainersOK /\ TaskOK
    BY DataParts DEF TypeOK
  <1>1. CASE \/ notified \/ Tick \/ List \/ AttachEnv \/ AttachPorts \/ RoundDone
             \/ MarkPending \/ Inspect \/ MarkDeploying \/ list_by_label
             \/ ensure_host_ports_free \/ set_active_release
             \/ MarkRunning \/ MarkSettled \/ ClearActive \/ MarkStopped \/ RecordFailure
    BY <1>1, NotPassedSame
       DEF notified, Tick, List, AttachEnv, AttachPorts, RoundDone, MarkPending, Inspect,
           MarkDeploying, list_by_label, ensure_host_ports_free, set_active_release,
           MarkRunning, MarkSettled, ClearActive, MarkStopped, RecordFailure,
           Goto, Sweep, Fail, Done
  <1>2. ASSUME NEW d \in Id, Pick(d) PROVE HealthInv'
    BY <1>2, NotPassedSame DEF Pick
  <1>3. CASE SweepDone
    BY <1>0, <1>3, NotPassedSame DEF SweepDone, AfterSweep, TaskOK, Purpose
  <1>4. ASSUME NEW c \in Container, Remove(c), pc' \notin {"proxy", "activate"} PROVE HealthInv'
    BY <1>0, <1>4, NotPassed DEF Remove, HealthInv, ServingIsSound, Serving, Present, ContainersOK
  <1>5. ASSUME NEW c \in Container, RemoveFails(c) PROVE HealthInv'
    <2>1. ServingIsSound'
      BY <1>0, <1>5, RemoveFailsEffect DEF HealthInv, ServingIsSound
    <2> QED BY <1>5, <2>1, NotPassed DEF RemoveFails, Fail
  <1>6. ASSUME NEW c \in Container, SweepOne(c) PROVE HealthInv'
    BY <1>4, <1>5, <1>6 DEF SweepOne
  <1>7. CASE Ensure
    <2>1. container_name \in Container
      BY <1>0, <1>7, CurType DEF Ensure, TaskOK, Between, Releasing, Want
    <2> QED BY <1>4, <1>5, <1>7, <2>1, NotPassedSame DEF Ensure, Goto
  <1>8. CASE create_and_start
    <2>1. container_name \in Container /\ pc' \notin {"proxy", "activate"}
      BY <1>0, <1>8, CurType DEF create_and_start, TaskOK, Between, Releasing, Want, Goto, Fail
    <2>2. UNCHANGED containers \/ \E s \in {"running", "stopped"} : containers' =
             [containers EXCEPT ![container_name] = [label |-> cur, env |-> snap[cur].env,
                                                     ports |-> snap[cur].ports, state |-> s]]
      BY <1>8 DEF create_and_start
    <2>3. ServingIsSound'
      BY <1>0, <2>1, <2>2 DEF HealthInv, ServingIsSound, Serving, Present, ContainersOK
    <2> QED BY <2>1, <2>3, NotPassed
  <1>9. CASE wait_healthy
    <2>1. CASE Serving(container_name) /\ Goto("proxy")
      <3>1. container_name \in Container
        BY <1>0, <1>9, CurType DEF wait_healthy, TaskOK, Between, Releasing, Want
      <3>2. container_name \in Sound /\ Present(container_name)
        BY <2>1, <3>1 DEF HealthInv, ServingIsSound, Serving
      <3>3. UNCHANGED <<containers, snap, cur>>
        BY <1>9, <2>1 DEF wait_healthy, Goto
      <3> QED BY <3>2, <3>3 DEF HealthInv, ServingIsSound, Serving, Present, PassedIsThere,
                                container_name, Want
    <2>2. CASE Fail
      BY <1>9, <2>2, NotPassedSame DEF wait_healthy, Fail
    <2> QED BY <1>9, <2>1, <2>2 DEF wait_healthy
  <1>10. CASE point_proxy_at
    BY <1>10 DEF point_proxy_at, Goto, HealthInv, ServingIsSound, Serving, Present,
                 PassedIsThere, container_name, Want
  <1> QED BY <1>1, <1>2, <1>3, <1>6, <1>7, <1>8, <1>9, <1>10 DEF Reconciler

LEMMA HealthNext == TypeOK /\ HealthInv /\ [Next]_vars => HealthInv'
  <1>1. HealthInv /\ Handlers /\ TypeOK => HealthInv'
    BY HandlersQuiet, HealthKept
  <1>2. HealthInv /\ BrokenCall => HealthInv'
    BY NotPassedSame DEF BrokenCall, CallFails, Fail
  <1>3. HealthInv /\ UNCHANGED vars => HealthInv'
    BY HealthKept DEF vars
  <1> QED BY <1>1, <1>2, <1>3, HealthEnvironment, HealthReconciler DEF Next

-----------------------------------------------------------------------------
(* What a step does to the rows                                            *)

\* It is given a name that no other deployment has.
Named(d) ==
    \A e \in Id \ {d} : row'[e] = row[e] /\ (Exists(e) => row[e].name # row'[d].name)
Created(d) == row[d] = None /\ Exists(d)' /\ row'[d].active_release = None /\ Named(d)

\* What any but the two steps that write active_release may do to a row.
Alters(d) ==
    \/ row'[d] = row[d]
    \/ Exists(d) /\ row'[d] = Deleted
    \/ /\ Exists(d) /\ Exists(d)' /\ row'[d].active_release = row[d].active_release
       /\ row'[d].name = row[d].name \/ Named(d)
    \/ Created(d)

\* A statement that writes a row that exists.
LEMMA WriteAlters ==
  ASSUME RowsOK, NEW e \in Id, NEW new, Write(e, new),
         Exists(e) => /\ new \in Row /\ new.active_release = row[e].active_release
                      /\ new.name = row[e].name
  PROVE  \A d \in Id : Alters(d)
  BY RowIsNew DEF RowsOK, Write, Alters, Exists

LEMMA StatusAlters ==
  ASSUME RowsOK, NEW e \in Id, NEW s \in Status, Write(e, [row[e] EXCEPT !.status = s])
  PROVE  \A d \in Id : Alters(d)
  <1> DEFINE new == [row[e] EXCEPT !.status = s]
  <1>1. Exists(e) => new \in Row /\ new.active_release = row[e].active_release /\ new.name = row[e].name
    BY RowType DEF Row
  <1>2. Write(e, new)
    OBVIOUS
  <1> HIDE DEF new
  <1> QED BY <1>1, <1>2, WriteAlters

LEMMA ActiveEffect ==
  ASSUME RowsOK, NEW e \in Id, NEW r \in Release \union {None},
         Write(e, [row[e] EXCEPT !.active_release = r])
  PROVE  /\ \A d \in Id : d # e => row'[d] = row[d]
         /\ Exists(e)' <=> Exists(e)
         /\ ~Exists(e) => row' = row
         /\ Exists(e) => row'[e].name = row[e].name /\ row'[e].active_release = r
  <1> DEFINE new == [row[e] EXCEPT !.active_release = r]
  <1>1. Exists(e) => new \in Row /\ new.active_release = r /\ new.name = row[e].name
    BY RowType DEF Row
  <1>2. Write(e, new)
    OBVIOUS
  <1> HIDE DEF new
  <1> QED BY <1>1, <1>2, RowIsNew DEF RowsOK, Write, Exists

\* Handlers create, delete, rename and change what else the row has.
LEMMA HandlersAlter == TypeOK /\ Handlers => \A d \in Id : Alters(d)
  <1> SUFFICES ASSUME TypeOK, Handlers PROVE \A d \in Id : Alters(d)
    OBVIOUS
  <1> DEFINE All == \A d \in Id : Alters(d)
  <1>0. RowsOK /\ CallsOK
    BY DataParts DEF TypeOK
  <1>1. ASSUME UNCHANGED row PROVE All
    BY <1>1 DEF Alters
  <1>2. ASSUME NEW d \in Id, NEW new \in Row, Exists(d), row' = [row EXCEPT ![d] = new],
               new.active_release = row[d].active_release,
               \/ new.name = row[d].name
               \/ \A e \in Id \ {d} : Exists(e) => row[e].name # new.name
        PROVE  All
    <2>1. row'[d] = new /\ \A e \in Id \ {d} : row'[e] = row[e]
      BY <1>0, <1>2 DEF RowsOK
    <2>2. Exists(d)'
      BY <1>2, <2>1, RowIsNew DEF Exists
    <2>3. row'[d].name = row[d].name \/ Named(d)
      BY <1>2, <2>1 DEF Named
    <2> QED BY <1>2, <2>1, <2>2, <2>3 DEF Alters
  <1>3. ASSUME NEW d \in Id, create(d) PROVE All
    <2>1. PICK n \in Name, v \in SUBSET Env, ps \in SUBSET Port :
            /\ ~Conflicts(d, n, ps)
            /\ row' = [row EXCEPT ![d] =
              [name |-> n, env |-> v, ports |-> ps, desired_state |-> "running",
               status |-> "pending", desired_release |-> None, active_release |-> None]]
      BY <1>3 DEF create
    <2> DEFINE new == [name |-> n, env |-> v, ports |-> ps, desired_state |-> "running",
               status |-> "pending", desired_release |-> None, active_release |-> None]
    <2>2. new \in Row /\ new.name = n /\ new.active_release = None
      BY DEF Row, Status
    <2>3. row' = [row EXCEPT ![d] = new] /\ row[d] = None
      BY <2>1, <1>3 DEF create
    <2> HIDE DEF new
    <2>4. \A e \in Id \ {d} : Exists(e) => row[e].name # n
      BY <2>1 DEF Conflicts
    <2>5. Created(d)
      BY <1>0, <2>2, <2>3, <2>4, RowIsNew DEF Created, Named, Exists, RowsOK
    <2>6. \A e \in Id : Created(e) \/ row'[e] = row[e]
      BY <2>5 DEF Created, Named
    <2> QED BY <2>6 DEF Alters
  <1>4. ASSUME NEW d \in Id, update(d) PROVE All
    <2>1. PICK n \in Name, v \in SUBSET Env, ps \in SUBSET Port :
            /\ ~Conflicts(d, n, ps)
            /\ row' = [row EXCEPT ![d] = [@ EXCEPT !.name = n, !.env = v, !.ports = ps]]
      BY <1>4 DEF update
    <2> DEFINE new == [row[d] EXCEPT !.name = n, !.env = v, !.ports = ps]
    <2>2. new \in Row /\ new.active_release = row[d].active_release /\ new.name = n
      BY <1>0, <1>4, RowType DEF update, Row
    <2>3. row' = [row EXCEPT ![d] = new]
      BY <2>1
    <2> HIDE DEF new
    <2>4. \A e \in Id \ {d} : Exists(e) => row[e].name # n
      BY <2>1 DEF Conflicts
    <2> QED BY <1>2, <1>4, <2>2, <2>3, <2>4 DEF update
  <1>5. ASSUME NEW d \in Id, delete(d) PROVE All
    BY <1>0, <1>5 DEF delete, RowsOK, Alters
  <1>6. ASSUME NEW d \in Id, NEW s \in {"running", "stopped"}, set_state(d, s) PROVE All
    <2> DEFINE new == [row[d] EXCEPT !.desired_state = s]
    <2>1. /\ Exists(d) /\ new \in Row /\ new.active_release = row[d].active_release
          /\ new.name = row[d].name
      BY <1>0, <1>6, RowType DEF set_state, Row
    <2>2. row' = [row EXCEPT ![d] = new]
      BY <1>6 DEF set_state, Write
    <2> HIDE DEF new
    <2> QED BY <1>2, <2>1, <2>2
  <1>7. ASSUME NEW call \in calls, set_desired_release(call) PROVE All
    <2> DEFINE new == [row[call.id] EXCEPT !.desired_release = call.release]
    <2>1. call.id \in Id /\ call.release \in Release \union {None}
      BY <1>0 DEF CallsOK, Call
    <2>2. Exists(call.id) => /\ new \in Row /\ new.name = row[call.id].name
                             /\ new.active_release = row[call.id].active_release
      BY <1>0, <2>1, RowType DEF Row
    <2>3. UNCHANGED row \/ (Exists(call.id) /\ row' = [row EXCEPT ![call.id] = new])
      BY <1>7 DEF set_desired_release, Write
    <2> HIDE DEF new
    <2> QED BY <1>1, <1>2, <2>1, <2>2, <2>3
  <1>8. CASE \/ \E d \in Id, r \in Release : \/ rollback_deployment(d, r)
                                             \/ \E b \in BOOLEAN : register_release(d, r, b)
             \/ \E call \in calls : notify_one(call)
    BY <1>1, <1>8 DEF rollback_deployment, register_release, notify_one
  <1> QED BY <1>3, <1>4, <1>5, <1>6, <1>7, <1>8 DEF Handlers

\* Of all steps two write active_release.
LEMMA StepsAlter ==
  TypeOK /\ [Next]_vars => (\A d \in Id : Alters(d)) \/ set_active_release \/ ClearActive
  <1> SUFFICES ASSUME TypeOK, [Next]_vars, ~set_active_release, ~ClearActive
               PROVE  \A d \in Id : Alters(d)
    OBVIOUS
  <1>0. RowsOK /\ TaskOK
    BY DataParts DEF TypeOK
  <1>1. ASSUME UNCHANGED row PROVE \A d \in Id : Alters(d)
    BY <1>1 DEF Alters
  <1>2. CASE MarkPending \/ MarkDeploying \/ MarkRunning \/ MarkSettled \/ MarkStopped \/ RecordFailure
    <2>1. cur \in Id
      BY <1>0, <1>2, CurType DEF MarkPending, MarkDeploying, MarkRunning, MarkSettled, MarkStopped,
                                RecordFailure, Between
    <2>2. UNCHANGED row \/ \E s \in Status : Write(cur, [row[cur] EXCEPT !.status = s])
      BY <1>2 DEF MarkPending, MarkDeploying, MarkRunning, MarkSettled, MarkStopped, RecordFailure,
                  Status
    <2> QED BY <1>0, <1>1, <2>1, <2>2, StatusAlters
  <1>3. CASE Handlers
    BY <1>3, HandlersAlter
  <1>4. CASE Environment \/ BrokenCall \/ UNCHANGED vars
    BY <1>1, <1>4 DEF Environment, Exit, Restart, ComeUp, delete_release, Crash, BrokenCall,
                      CallFails, vars
  <1>5. CASE \/ Tick \/ notified \/ List \/ AttachEnv \/ AttachPorts \/ RoundDone
             \/ \E d \in Id : Pick(d)
             \/ Inspect \/ list_by_label \/ SweepDone
             \/ \E c \in Container : SweepOne(c)
             \/ Ensure \/ ensure_host_ports_free \/ create_and_start
             \/ wait_healthy \/ point_proxy_at
    BY <1>1, <1>5 DEF Tick, notified, List, AttachEnv, AttachPorts, RoundDone, Pick, Inspect,
           list_by_label, SweepDone, SweepOne, Ensure, ensure_host_ports_free, create_and_start,
           wait_healthy, point_proxy_at
  <1> QED BY <1>2, <1>3, <1>4, <1>5 DEF Next, Reconciler

\* A release becomes active only if its image comes up and passes its health
\* check, and while its container is there: whatever the users, retention,
\* faults and restarts do in the meantime.
THEOREM ActiveIsHealthy == Spec => ActivatesHealthy
  <1> DEFINE Healthy == \A d \in Id :
         Exists(d) /\ Exists(d)' /\ row'[d].active_release \notin {row[d].active_release, None}
         => LET c == ContainerName[snap[d].name][row'[d].active_release]
            IN  c \in Sound /\ Present(c)
  <1>1. TypeOK /\ HealthInv /\ [Next]_vars => Healthy
    <2> SUFFICES ASSUME TypeOK, HealthInv, [Next]_vars PROVE Healthy
      OBVIOUS
    <2>0. RowsOK /\ TaskOK
      BY DataParts DEF TypeOK
    <2>1. CASE \A d \in Id : Alters(d)
      BY <2>1, NoneIsNew DEF Alters, Created, Exists
    <2>2. CASE set_active_release
      <3>1. cur \in Id /\ Want \in Release \union {None} /\ pc = "activate"
        BY <2>0, <2>2, CurType DEF set_active_release, Between
      <3>2. UNCHANGED row \/ Write(cur, [row[cur] EXCEPT !.active_release = Want])
        BY <2>2 DEF set_active_release
      <3>3. container_name \in Sound /\ Present(container_name)
        BY <3>1 DEF HealthInv, PassedIsThere
      <3> QED BY <2>0, <3>1, <3>2, <3>3, ActiveEffect DEF container_name
    <2>3. CASE ClearActive
      <3>1. cur \in Id /\ Write(cur, [row[cur] EXCEPT !.active_release = None])
        BY <2>0, <2>3, CurType DEF ClearActive, Between
      <3> QED BY <2>0, <3>1, ActiveEffect
    <2> QED BY <2>1, <2>2, <2>3, StepsAlter
  <1>2. Init => HealthInv
    BY DEF Init, HealthInv, ServingIsSound, Serving, Present, PassedIsThere
  <1> QED BY <1>1, <1>2, HealthNext, TypeCorrect, PTL DEF Spec, ActivatesHealthy

-----------------------------------------------------------------------------
(* Whose containers a step may take down, for any names and any renamings    *)

\* Deployments that exist differ in name, and so do those of the list; a container
\* and an entry of the list are of a deployment that was created.
NamesDiffer ==
    /\ \A d, e \in Id : d # e /\ Exists(d) /\ Exists(e) => row[d].name # row[e].name
    /\ \A d, e \in Id : d # e /\ snap[d] # None /\ snap[e] # None => snap[d].name # snap[e].name
KnownRows ==
    /\ \A d \in Id : snap[d] # None => row[d] # None
    /\ \A c \in Container : Present(c) => row[containers[c].label] # None

\* In a round, whoever is not in the list was created since, and has no container yet.
Unlisted ==
    /\ pc \in {"attach", "ports"} => \A d \in Id \ left : snap[d] = None
    /\ pc \notin {"list", "wait"} => \A d \in Id : Exists(d) /\ snap[d] = None => Labelled(d) = {}

\* What is active changes only while the deployment is being converged.
ActiveAsListed ==
    \A d \in left : Exists(d) => row[d].active_release = snap[d].active_release

NamesInv == NamesDiffer /\ KnownRows /\ Unlisted /\ ActiveAsListed

\* What converge_one has made sure of where it sweeps, and what the sweep spares.
Inspected == pc = "inspect" /\ Exists(cur) => row[cur].active_release = snap[cur].active_release
Sweeping == pc \in {"listing", "sweep"} =>
    /\ purpose = "stop" => snap[cur].desired_state = "stopped"
    /\ purpose = "make_room" => snap[cur].ports # {}
    /\ purpose \in {"settled", "superseded"} /\ Exists(cur) => row[cur].active_release = Want
Spared == pc = "sweep" =>
    \A c \in todo : c \notin Keep /\ (Present(c) => containers[c].label = cur)
AimInv == Inspected /\ Sweeping /\ Spared

-----------------------------------------------------------------------------
(* What a step does to the containers and to the list                      *)

\* A container stays whose it is, unless converge_one makes it anew for its own
\* deployment.
Gains ==
    \A c \in Container : Present(c)' =>
        \/ Present(c) /\ containers'[c].label = containers[c].label
        \/ pc \notin Between /\ containers'[c].label = cur

\* The list stays as it is until the round is over.
Dwindles ==
    /\ \A d \in Id : snap'[d] \in {snap[d], None}
    /\ left' \subseteq left /\ \A d \in left' : snap'[d] = snap[d]
    /\ pc' \notin {"list", "wait"} => pc \notin {"list", "wait"} /\ snap' = snap
    /\ pc' \in {"attach", "ports"} => pc' = pc /\ left' = left

\* Inside converge_one there is a container of the release to speak of.
LEMMA OwnContainer ==
  ASSUME TypeOK, pc \in Releasing
  PROVE  /\ cur \in Id /\ snap[cur] \in Row /\ Want \in Release
         /\ container_name \in Container
  <1>1. pc \notin Between /\ Want # None
    BY DEF TypeOK, TaskOK, Releasing, Between, Want
  <1> QED BY <1>1, CurType DEF TypeOK, container_name

LEMMA SameGains == UNCHANGED containers => Gains
  BY DEF Gains, Present

LEMMA StepsGain == TypeOK /\ [Next]_vars => Gains
  <1> SUFFICES ASSUME TypeOK, [Next]_vars PROVE Gains
    OBVIOUS
  <1>0. ContainersOK
    BY DataParts DEF TypeOK
  <1>1. ASSUME NEW c \in Container, Present(c),
               NEW s \in {"running", "serving", "exited", "stopped"},
               containers' = [containers EXCEPT ![c].state = s]
        PROVE  Gains
    BY <1>0, <1>1, StateEffect DEF Gains
  <1>2. ASSUME NEW c \in Container, Remove(c) PROVE Gains
    BY <1>0, <1>2 DEF Remove, Gains, Present, ContainersOK
  <1>3. ASSUME NEW c \in Container, RemoveFails(c) PROVE Gains
    BY <1>1, <1>3, SameGains DEF RemoveFails
  <1>4. ASSUME NEW c \in Container, Exit(c) \/ Restart(c) \/ ComeUp(c) PROVE Gains
    BY <1>1, <1>4 DEF Exit, Restart, ComeUp, Up
  <1>5. ASSUME NEW c \in Container, SweepOne(c) PROVE Gains
    BY <1>2, <1>3, <1>5 DEF SweepOne
  <1>6. CASE Ensure
    <2>1. container_name \in Container
      BY <1>6, OwnContainer DEF Ensure, Releasing
    <2> QED BY <1>2, <1>3, <1>6, <2>1, SameGains DEF Ensure
  <1>7. CASE create_and_start
    <2>1. container_name \in Container /\ pc \notin Between
      BY <1>7, OwnContainer DEF create_and_start, Releasing, Between
    <2>2. UNCHANGED containers \/ \E s \in {"running", "stopped"} : containers' =
             [containers EXCEPT ![container_name] = [label |-> cur, env |-> snap[cur].env,
                                                     ports |-> snap[cur].ports, state |-> s]]
      BY <1>7 DEF create_and_start
    <2> QED BY <1>0, <2>1, <2>2, SameGains DEF Gains, Present, ContainersOK
  <1>8. CASE Handlers
    BY <1>8, HandlersQuiet, SameGains
  <1>9. CASE \/ UNCHANGED vars \/ Crash \/ BrokenCall
             \/ \E d \in Id, r \in Release : delete_release(d, r)
             \/ Tick \/ notified \/ List \/ AttachEnv \/ AttachPorts \/ RoundDone
             \/ \E d \in Id : Pick(d)
             \/ MarkPending \/ Inspect \/ MarkDeploying \/ list_by_label \/ SweepDone
             \/ ensure_host_ports_free \/ wait_healthy \/ point_proxy_at \/ set_active_release
             \/ MarkRunning \/ MarkSettled \/ ClearActive \/ MarkStopped \/ RecordFailure
    <2>1. UNCHANGED containers
      BY <1>9 DEF vars, Crash, BrokenCall, CallFails, delete_release, Tick, notified, List,
           AttachEnv, AttachPorts, RoundDone, Pick, MarkPending, Inspect, MarkDeploying,
           list_by_label, SweepDone, ensure_host_ports_free, wait_healthy, point_proxy_at,
           set_active_release, MarkRunning, MarkSettled, ClearActive, MarkStopped, RecordFailure
    <2> QED BY <2>1, SameGains
  <1> QED BY <1>4, <1>5, <1>6, <1>7, <1>8, <1>9 DEF Next, Reconciler, Environment

\* No step but those of list() brings a snapshot in.
LEMMA StepsDwindle ==
  TypeOK /\ [Next]_vars => Dwindles \/ List \/ AttachEnv \/ AttachPorts
  <1> SUFFICES ASSUME TypeOK, [Next]_vars, ~List, ~AttachEnv, ~AttachPorts PROVE Dwindles
    OBVIOUS
  <1>0. TaskOK
    BY DEF TypeOK
  <1>1. ASSUME snap' = snap, left' \subseteq left, pc \notin {"list", "wait"},
               pc' \notin {"attach", "ports"}
        PROVE  Dwindles
    BY <1>1 DEF Dwindles
  <1>2. ASSUME pc \notin Between, Done PROVE Dwindles
    BY <1>1, <1>2 DEF Done, Between
  <1>a. ASSUME UNCHANGED <<pc, snap, left>> PROVE Dwindles
    BY <1>a DEF Dwindles
  <1>3. CASE Handlers
    BY <1>a, <1>3, HandlersQuiet DEF task
  <1>4. CASE Crash \/ RoundDone
    BY <1>4 DEF Crash, RoundDone, Dwindles
  <1>c. CASE Tick \/ notified
    BY <1>c DEF Tick, notified, Goto, Dwindles
  <1>5. CASE MarkPending \/ MarkRunning \/ MarkSettled \/ MarkStopped \/ RecordFailure
    BY <1>2, <1>5 DEF MarkPending, MarkRunning, MarkSettled, MarkStopped, RecordFailure, Between
  <1>6. CASE \/ UNCHANGED vars
             \/ \E d \in Id, r \in Release : delete_release(d, r)
             \/ \E c \in Container : Exit(c) \/ Restart(c) \/ ComeUp(c)
    BY <1>a, <1>6 DEF vars, task, delete_release, Exit, Restart, ComeUp
  <1>8. CASE BrokenCall
    BY <1>1, <1>8 DEF BrokenCall, CallFails, Fail
  <1>9. CASE \E c \in Container : SweepOne(c)
    <2>1. pc = "sweep" /\ snap' = snap /\ left' = left /\ pc' \in {"sweep", "failed"}
      BY <1>9 DEF SweepOne, RemoveFails, Fail
    <2> QED BY <1>1, <2>1
  <1>b. CASE SweepDone
    BY <1>0, <1>1, <1>b DEF SweepDone, AfterSweep, TaskOK, Purpose
  <1>7. CASE \/ \E d \in Id : Pick(d)
             \/ Inspect \/ MarkDeploying \/ list_by_label
             \/ Ensure \/ ensure_host_ports_free \/ create_and_start \/ wait_healthy
             \/ point_proxy_at \/ set_active_release \/ ClearActive
    BY <1>1, <1>7 DEF Pick, Inspect, MarkDeploying,
           list_by_label, RemoveFails, Ensure, ensure_host_ports_free,
           create_and_start, wait_healthy, point_proxy_at, set_active_release, ClearActive,
           Goto, Sweep, Fail
  <1> QED BY <1>3, <1>4, <1>5, <1>6, <1>7, <1>8, <1>9, <1>b, <1>c DEF Next, Reconciler, Environment

-----------------------------------------------------------------------------
(* The names                                                               *)

\* A step of the task may write active_release of the deployment it converges.
Writes(d) ==
    /\ pc \notin Between /\ d = cur
    /\ Exists(d) /\ Exists(d)' /\ row'[d].name = row[d].name

\* What any step does to the rows, for the names.
LEMMA StepsWrite == TypeOK /\ [Next]_vars => \A d \in Id : Alters(d) \/ Writes(d)
  <1> SUFFICES ASSUME TypeOK, set_active_release \/ ClearActive
               PROVE  \A d \in Id : Alters(d) \/ Writes(d)
    BY StepsAlter
  <1>0. RowsOK /\ TaskOK
    BY DataParts DEF TypeOK
  <1>1. cur \in Id /\ pc \notin Between /\ Want \in Release \union {None}
    BY <1>0, CurType DEF set_active_release, ClearActive, Between
  <1>2. UNCHANGED row \/ \E r \in Release \union {None} : Write(cur, [row[cur] EXCEPT !.active_release = r])
    BY <1>1 DEF set_active_release, ClearActive
  <1> QED BY <1>0, <1>1, <1>2, ActiveEffect DEF Alters, Writes

\* A snapshot in hand is of a deployment that was created.
LEMMA CurSnapshot ==
  ASSUME TypeOK, pc \notin Between PROVE cur \in Id /\ snap[cur] # None
  BY DEF TypeOK, TaskOK

\* A step that brings no snapshot in keeps what is known of the names.
LEMMA NamesStep ==
  ASSUME TypeOK, NamesInv, \A d \in Id : Alters(d) \/ Writes(d), Gains, Dwindles
  PROVE  NamesInv'
  <1>0. /\ \A d \in Id : snap'[d] # None => snap[d] # None /\ snap'[d] = snap[d]
        /\ left' \subseteq left
        /\ \A d \in left' : d \in Id /\ snap'[d] = snap[d] /\ snap[d] # None /\ d # cur
        /\ \A c \in Container : Present(c) => containers[c].label \in Id
        /\ pc \notin Between => cur \in Id /\ snap[cur] # None /\ row[cur] # None
    BY CurSnapshot DEF NamesInv, KnownRows, Dwindles, TypeOK, TaskOK, DataOK, Present, ContainerStatus
  <1>1. \A d \in Id : row[d] # None => row'[d] # None
    BY NoneIsNew DEF Alters, Writes, Created, Exists
  <1>2. NamesDiffer'
    <2>1. ASSUME NEW d \in Id, NEW e \in Id, d # e, Exists(d)', Exists(e)'
          PROVE  row'[d].name # row'[e].name
      <3>1. CASE Named(d) \/ Named(e)
        BY <2>1, <3>1 DEF Named, Exists
      <3>2. CASE ~Named(d) /\ ~Named(e)
        <4>1. /\ Exists(d) /\ row'[d].name = row[d].name
              /\ Exists(e) /\ row'[e].name = row[e].name
          BY <2>1, <3>2, NoneIsNew DEF Alters, Writes, Created, Exists
        <4> QED BY <2>1, <4>1 DEF NamesInv, NamesDiffer
      <3> QED BY <3>1, <3>2
    <2> QED BY <1>0, <2>1 DEF NamesInv, NamesDiffer
  <1>3. KnownRows'
    BY <1>0, <1>1 DEF NamesInv, KnownRows, Gains
  <1>4. Unlisted'
    <2>1. pc' \in {"attach", "ports"} => \A d \in Id \ left' : snap'[d] = None
      BY DEF NamesInv, Unlisted, Dwindles
    <2>2. ASSUME pc' \notin {"list", "wait"}, NEW d \in Id, Exists(d)', snap'[d] = None
          PROVE  Labelled(d)' = {}
      <3>1. pc \notin {"list", "wait"} /\ snap[d] = None
        BY <2>2 DEF Dwindles
      <3>2. Labelled(d) = {}
        <4>1. CASE Exists(d)
          BY <3>1, <4>1 DEF NamesInv, Unlisted
        <4>2. CASE ~Exists(d)
          <5>1. row[d] = None
            BY <2>2, <4>2, NoneIsNew DEF Alters, Writes, Created, Exists
          <5> QED BY <5>1 DEF NamesInv, KnownRows, Labelled
        <4> QED BY <4>1, <4>2
      <3>3. Labelled(d)' \subseteq Labelled(d)
        BY <1>0, <3>1 DEF Gains, Labelled
      <3> QED BY <3>2, <3>3
    <2> QED BY <2>1, <2>2 DEF Unlisted
  <1>5. ActiveAsListed'
    BY <1>0 DEF NamesInv, KnownRows, ActiveAsListed, Alters, Writes, Created, Exists
  <1> QED BY <1>2, <1>3, <1>4, <1>5 DEF NamesInv

\* list() reads the names all at once, so they differ; the later statements
\* keep them.
LEMMA NamesListed ==
  ASSUME TypeOK, NamesInv, List \/ AttachEnv \/ AttachPorts
  PROVE  NamesInv'
  <1>0. RowsOK /\ TaskOK
    BY DataParts DEF TypeOK
  <1>1. CASE List
    <2>1. /\ \A d \in Id : snap'[d] = IF Exists(d) THEN row[d] ELSE None
          /\ left' = {d \in Id : Exists(d)} /\ UNCHANGED <<row, containers>>
      BY <1>1 DEF List
    <2> QED BY <2>1 DEF NamesInv, NamesDiffer, KnownRows, Unlisted, ActiveAsListed, Exists, Present
  <1>2. CASE AttachEnv \/ AttachPorts
    <2>1. /\ \A d \in left : d \in Id /\ snap[d] \in Row
          /\ UNCHANGED <<row, containers, left>> /\ pc \in {"attach", "ports"}
      BY <1>0, <1>2 DEF TaskOK, AttachEnv, AttachPorts
    <2>2. \A d \in Id : d \notin left => snap'[d] = None /\ snap[d] = None
      BY <1>2, <2>1 DEF AttachEnv, AttachPorts, NamesInv, Unlisted
    <2>3. ASSUME NEW d \in left
          PROVE  /\ snap[d] # None /\ snap'[d] # None /\ snap'[d].name = snap[d].name
                 /\ snap'[d].active_release = snap[d].active_release
      <3>1. snap[d] \in Row /\ snap[d] # None /\ d \in Id
        BY <2>1, RowIsNew
      <3>2. CASE AttachEnv
        <4>1. snap'[d] = [snap[d] EXCEPT !.env = IF Exists(d) THEN row[d].env ELSE {}]
          BY <3>1, <3>2 DEF AttachEnv
        <4>2. (IF Exists(d) THEN row[d].env ELSE {}) \in SUBSET Env
          BY <1>0, <3>1, RowType DEF Row
        <4> QED BY <3>1, <4>1, <4>2, RowIsNew DEF Row
      <3>3. CASE AttachPorts
        <4>1. snap'[d] = [snap[d] EXCEPT !.ports = IF Exists(d) THEN row[d].ports ELSE {}]
          BY <3>1, <3>3 DEF AttachPorts
        <4>2. (IF Exists(d) THEN row[d].ports ELSE {}) \in SUBSET Port
          BY <1>0, <3>1, RowType DEF Row
        <4> QED BY <3>1, <4>1, <4>2, RowIsNew DEF Row
      <3> QED BY <1>2, <3>2, <3>3
    <2>4. \A d \in Id : snap'[d] = None <=> snap[d] = None
      BY <2>2, <2>3
    <2>5. NamesDiffer'
      BY <2>1, <2>2, <2>3 DEF NamesInv, NamesDiffer, Exists
    <2>6. KnownRows'
      BY <2>1, <2>4 DEF NamesInv, KnownRows, Present
    <2>7. Unlisted'
      BY <2>1, <2>2, <2>4 DEF NamesInv, Unlisted, Exists, Labelled, Present
    <2>8. ActiveAsListed'
      BY <2>1, <2>3 DEF NamesInv, ActiveAsListed, Exists
    <2> QED BY <2>5, <2>6, <2>7, <2>8 DEF NamesInv
  <1> QED BY <1>1, <1>2

LEMMA NamesNext == TypeOK /\ NamesInv /\ [Next]_vars => NamesInv'
  BY StepsWrite, StepsGain, StepsDwindle, NamesStep, NamesListed

-----------------------------------------------------------------------------
(* What is swept, and what is spared                                       *)

\* Away from a sweep, and from the inspection before one, nothing is claimed.
LEMMA NoAim == pc' \notin {"inspect", "listing", "sweep"} => AimInv'
  BY DEF AimInv, Inspected, Sweeping, Spared

\* A step of others leaves the sweep its aim: they do not write active_release
\* of a deployment that is being converged.
LEMMA AimFrame ==
  ASSUME TypeOK, NamesInv, AimInv, UNCHANGED task, \A d \in Id : Alters(d), Gains
  PROVE  AimInv'
  <1>1. UNCHANGED <<pc, snap, left, cur, purpose, todo>>
    BY DEF task
  <1>2. Want' = Want /\ container_name' = container_name /\ Keep' = Keep
    BY <1>1 DEF Want, container_name, Keep
  <1>3. Spared'
    BY <1>1, <1>2 DEF AimInv, Spared, Gains, TypeOK, TaskOK
  <1>4. pc \notin Between => cur \in Id /\ row[cur] # None
    BY CurSnapshot DEF NamesInv, KnownRows
  <1>5. pc \notin Between /\ Exists(cur)' =>
          Exists(cur) /\ row'[cur].active_release = row[cur].active_release
    BY <1>1, <1>4 DEF Alters, Created, Exists
  <1>6. Inspected' /\ Sweeping'
    BY <1>1, <1>2, <1>5 DEF AimInv, Inspected, Sweeping, Between
  <1> QED BY <1>3, <1>6 DEF AimInv

\* The task sweeps what bears the name it converges, for a reason that holds.
LEMMA AimReconciler ==
  ASSUME TypeOK, NamesInv, AimInv, Reconciler \/ Tick
  PROVE  AimInv'
  <1>0. RowsOK /\ TaskOK
    BY DataParts DEF TypeOK
  <1>1. ASSUME NEW d \in Id, Pick(d) PROVE AimInv'
    <2>1. /\ d \in left /\ cur' = d /\ UNCHANGED <<row, snap>> /\ pc' # "sweep"
          /\ pc' = "listing" => purpose' = "stop" /\ snap[d].desired_state = "stopped"
      BY <1>1 DEF Pick
    <2> QED BY <2>1 DEF NamesInv, ActiveAsListed, AimInv, Inspected, Sweeping, Spared, Exists
  <1>2. CASE Inspect
    <2>1. CASE Fail
      BY <2>1, NoAim DEF Fail
    <2>2. CASE snap[cur].active_release = Want /\ Sweep("settled")
      <3>1. UNCHANGED <<row, snap, cur>> /\ pc = "inspect"
        BY <1>2, <2>2 DEF Inspect, Sweep
      <3> QED BY <2>2, <3>1 DEF Sweep, AimInv, Inspected, Sweeping, Spared, Exists, Want
    <2>3. CASE Goto("deploying")
      BY <2>3, NoAim DEF Goto
    <2> QED BY <1>2, <2>1, <2>2, <2>3 DEF Inspect
  <1>3. CASE MarkDeploying
    <2>1. CASE snap[cur].ports # {} /\ Sweep("make_room")
      BY <2>1 DEF Sweep, AimInv, Inspected, Sweeping, Spared
    <2>2. CASE Goto("ensure") \/ Fail
      BY <2>2, NoAim DEF Goto, Fail
    <2> QED BY <1>3, <2>1, <2>2 DEF MarkDeploying
  <1>4. CASE list_by_label
    <2>1. UNCHANGED <<row, containers, snap, cur, purpose>> /\ pc = "listing" /\ pc' = "sweep"
          /\ todo' = Labelled(cur) \ Keep
      BY <1>4 DEF list_by_label
    <2>2. Want' = Want /\ Keep' = Keep
      BY <2>1 DEF Want, container_name, Keep
    <2>3. Spared'
      BY <2>1, <2>2 DEF Spared, Labelled, Present
    <2> QED BY <2>1, <2>2, <2>3 DEF AimInv, Inspected, Sweeping, Exists
  <1>5. ASSUME NEW c \in Container, SweepOne(c) PROVE AimInv'
    <2>1. CASE UNCHANGED <<pc, snap, left, cur, purpose>> /\ todo' = todo \ {c}
      <3>1. row' = row /\ Want' = Want /\ Keep' = Keep /\ pc = "sweep"
        BY <1>5, <2>1 DEF SweepOne, Want, container_name, Keep
      <3>2. Gains /\ todo' \subseteq Container
        BY <1>0, <1>5, <2>1, StepsGain DEF Next, Reconciler, TaskOK
      <3>3. Spared'
        BY <2>1, <3>1, <3>2 DEF AimInv, Spared, Gains
      <3> QED BY <2>1, <3>1, <3>3 DEF AimInv, Inspected, Sweeping, Exists
    <2>2. CASE RemoveFails(c)
      BY <2>2, NoAim DEF RemoveFails, Fail
    <2> QED BY <1>5, <2>1, <2>2 DEF SweepOne
  <1>6. CASE SweepDone
    BY <1>0, <1>6, NoAim DEF SweepDone, AfterSweep, TaskOK, Purpose
  <1>7. CASE set_active_release
    <2>1. CASE Fail
      BY <2>1, NoAim DEF Fail
    <2>2. CASE Write(cur, [row[cur] EXCEPT !.active_release = Want]) /\ Sweep("superseded")
      <3>1. cur \in Id /\ Want \in Release \union {None}
        BY <1>0, <1>7, CurType DEF set_active_release, Between
      <3>2. Exists(cur)' => row'[cur].active_release = Want
        <4>1. /\ Exists(cur)' <=> Exists(cur)
              /\ Exists(cur) => row'[cur].active_release = Want
          <5>1. Write(cur, [row[cur] EXCEPT !.active_release = Want]) /\ cur' = cur
            BY <2>2 DEF Sweep
          <5> QED BY <1>0, <3>1, <5>1, ActiveEffect DEF Exists
        <4> QED BY <4>1
      <3>3. UNCHANGED <<snap, cur>> /\ pc' = "listing" /\ purpose' = "superseded"
        BY <2>2 DEF Sweep
      <3> QED BY <3>2, <3>3 DEF AimInv, Inspected, Sweeping, Spared, Exists, Want
    <2> QED BY <1>7, <2>1, <2>2 DEF set_active_release
  <1>8. CASE \/ Tick \/ notified \/ List \/ AttachEnv \/ AttachPorts \/ RoundDone
             \/ MarkPending \/ ensure_host_ports_free \/ create_and_start \/ wait_healthy
             \/ point_proxy_at \/ MarkRunning \/ MarkSettled \/ ClearActive \/ MarkStopped
             \/ RecordFailure \/ Ensure
    BY <1>8, NoAim DEF Tick, notified, List, AttachEnv, AttachPorts, RoundDone, MarkPending,
       ensure_host_ports_free, create_and_start, wait_healthy, point_proxy_at, MarkRunning,
       MarkSettled, ClearActive, MarkStopped, RecordFailure, Ensure, RemoveFails, Goto, Fail, Done
  <1> QED BY <1>1, <1>2, <1>3, <1>4, <1>5, <1>6, <1>7, <1>8 DEF Reconciler

LEMMA AimNext ==
  ASSUME TypeOK, NamesInv, AimInv, [Next]_vars
  PROVE  AimInv'
  <1>0. Gains
    BY StepsGain
  <1>1. CASE Handlers
    BY <1>0, <1>1, HandlersQuiet, HandlersAlter, AimFrame
  <1>2. ASSUME UNCHANGED <<row, task>> PROVE AimInv'
    BY <1>0, <1>2, AimFrame DEF Alters
  <1>3. CASE UNCHANGED vars \/ Environment
    <2>1. CASE Crash
      BY <2>1, NoAim DEF Crash
    <2>2. CASE ~Crash
      BY <1>2, <1>3, <2>2 DEF vars, Environment, Exit, Restart, ComeUp, delete_release
    <2> QED BY <2>1, <2>2
  <1>4. CASE BrokenCall
    BY <1>4, NoAim DEF BrokenCall, CallFails, Fail
  <1> QED BY <1>1, <1>3, <1>4, AimReconciler DEF Next

TargetInv == TypeOK /\ NamesInv /\ AimInv

LEMMA TargetInductive == Spec => []TargetInv
  <1>1. Init => TargetInv
    BY TypeInit DEF Init, TargetInv, NamesInv, NamesDiffer, KnownRows, Unlisted,
           ActiveAsListed, AimInv, Inspected, Sweeping, Spared, Exists, Present
  <1>2. TargetInv /\ [Next]_vars /\ TypeOK' => TargetInv'
    BY NamesNext, AimNext DEF TargetInv
  <1> QED BY <1>1, <1>2, TypeCorrect, PTL DEF Spec

-----------------------------------------------------------------------------
(* What is taken down                                                      *)

\* Only a sweep, and ensure_running of the container to be made, take one down.
LEMMA TakesDown ==
  ASSUME TypeOK, [Next]_vars, NEW c \in Container, TakenDown(c)
  PROVE  \/ pc = "sweep" /\ c \in todo
         \/ pc \in {"ensure", "start"} /\ c = container_name
  <1>0. ContainersOK
    BY DataParts DEF TypeOK
  <1>1. ASSUME UNCHANGED containers PROVE FALSE
    BY <1>1 DEF TakenDown
  <1>2. ASSUME NEW b \in Container, Present(b), NEW s \in {"running", "serving", "exited"},
               containers' = [containers EXCEPT ![b].state = s]
        PROVE  FALSE
    <2>0. \A e \in Container :
             /\ Present(e)' <=> Present(e)
             /\ Present(e) => containers'[e].state = IF e = b THEN s ELSE containers[e].state
      <3>1. /\ s \in {"running", "serving", "exited", "stopped"}
            /\ containers' = [containers EXCEPT ![b].state = s]
        BY <1>2
      <3>2. Present(b)
        BY <1>2
      <3> QED BY <1>0, <3>1, <3>2, StateEffect
    <2>1. /\ Present(c)'
          /\ containers'[c].state = IF c = b THEN s ELSE containers[c].state
      BY <2>0 DEF TakenDown
    <2>2. c # b => containers'[c] = containers[c]
      BY <1>0, <1>2 DEF ContainersOK
    <2> QED BY <2>1, <2>2 DEF TakenDown, Present
  <1>3. ASSUME NEW b, Remove(b) \/ RemoveFails(b) PROVE b = c
    BY <1>0, <1>1, <1>3 DEF Remove, RemoveFails, TakenDown, ContainersOK
  <1>4. CASE Handlers
    BY <1>1, <1>4, HandlersQuiet
  <1>5. ASSUME NEW b \in Container, Exit(b) \/ Restart(b) \/ ComeUp(b) PROVE FALSE
    BY <1>2, <1>5 DEF Exit, Restart, ComeUp, Up
  <1>6. ASSUME NEW b \in Container, SweepOne(b) PROVE pc = "sweep" /\ c \in todo
    BY <1>3, <1>6 DEF SweepOne
  <1>7. CASE Ensure
    BY <1>1, <1>3, <1>7 DEF Ensure
  <1>8. CASE create_and_start
    BY <1>0, <1>1, <1>8 DEF create_and_start, TakenDown, ContainersOK
  <1>9. CASE \/ UNCHANGED vars \/ Crash \/ BrokenCall
             \/ \E d \in Id, r \in Release : delete_release(d, r)
             \/ Tick \/ notified \/ List \/ AttachEnv \/ AttachPorts \/ RoundDone
             \/ \E d \in Id : Pick(d)
             \/ MarkPending \/ Inspect \/ MarkDeploying \/ list_by_label \/ SweepDone
             \/ ensure_host_ports_free \/ wait_healthy \/ point_proxy_at \/ set_active_release
             \/ MarkRunning \/ MarkSettled \/ ClearActive \/ MarkStopped \/ RecordFailure
    BY <1>1, <1>9 DEF vars, Crash, BrokenCall, CallFails, delete_release, Tick, notified, List,
           AttachEnv, AttachPorts, RoundDone, Pick, MarkPending, Inspect, MarkDeploying,
           list_by_label, SweepDone, ensure_host_ports_free, wait_healthy, point_proxy_at,
           set_active_release, MarkRunning, MarkSettled, ClearActive, MarkStopped, RecordFailure
  <1> QED BY <1>4, <1>5, <1>6, <1>7, <1>8, <1>9 DEF Next, Reconciler, Environment

\* A deployment that loses a container is the one being converged, and unless that is
\* swept it is the one of its release; or another one bears the name that one was
\* listed under, having been renamed; or the container has two names.
LEMMA TakenFrom ==
  ASSUME TargetInv, [Next]_vars, NEW c \in Container, TakenDown(c),
         NEW e, e = containers[c].label, Exists(e)
  PROVE  /\ \/ pc = "sweep" /\ c \in todo
            \/ pc \in {"ensure", "start"} /\ c = container_name /\ Want \in Release
         /\ cur \in Id /\ snap[cur] \in Row
         /\ \/ e = cur
            \/ Renamed(e) /\ row[e].name = snap[cur].name
            \/ Ambiguous(c, row[e].name)
  <1>1. \/ pc = "sweep" /\ c \in todo
        \/ pc \in {"ensure", "start"} /\ c = container_name
    BY TakesDown DEF TargetInv
  <1>2. cur \in Id /\ snap[cur] \in Row /\ snap[cur] # None
    BY <1>1, CurType, RowIsNew DEF TargetInv, TypeOK, Between
  <1>3. e \in Id /\ Present(c) /\ c \in Labelled(e)
    BY DEF TargetInv, TypeOK, DataOK, TakenDown, Present, ContainerStatus, Labelled
  <1>4. CASE pc = "sweep" /\ c \in todo
    BY <1>2, <1>3, <1>4 DEF TargetInv, AimInv, Spared
  <1>5. CASE pc \in {"ensure", "start"} /\ c = container_name
    <2>1. Want \in Release
      BY <1>5, OwnContainer DEF TargetInv, Releasing
    <2>2. CASE row[e].name # snap[cur].name
      <3>1. Ambiguous(c, row[e].name)
        BY <1>5, <2>1, <2>2 DEF Ambiguous, container_name
      <3> QED BY <1>2, <1>5, <2>1, <3>1
    <2>3. CASE row[e].name = snap[cur].name /\ e # cur
      <3>1. snap[e] # None
        BY <1>3, <1>5 DEF TargetInv, NamesInv, Unlisted
      <3>2. snap[e].name # snap[cur].name
        BY <1>2, <1>3, <2>3, <3>1 DEF TargetInv, NamesInv, NamesDiffer
      <3> QED BY <1>2, <1>5, <2>1, <2>3, <3>1, <3>2 DEF Renamed
    <2> QED BY <1>2, <1>5, <2>1, <2>2, <2>3
  <1> QED BY <1>1, <1>4, <1>5

\* Converging one deployment takes down no container of another one that exists and
\* bears its name, but for the two ways of the property: for any number of deployments,
\* any way names run together, and whatever was deleted, created and renamed.
THEOREM OthersAreUntouched == Spec => OthersUntouched
  <1> DEFINE Spares == \A c \in Container :
         LET e == containers[c].label
         IN  TakenDown(c) /\ Exists(e) /\ c \in OwnName(e)
             => \/ e = cur
                \/ Renamed(e) /\ row[e].name = snap[cur].name
                \/ Ambiguous(c, row[e].name)
  <1>1. TargetInv /\ [Next]_vars => Spares
    BY TakenFrom
  <1> QED BY <1>1, TargetInductive, PTL DEF OthersUntouched, Spec

\* The container of a deployment's active release is taken down only by its own stop,
\* by its own deploy with host ports, or by another deploy of the same release, but for
\* the two exceptions of the property: for any number of deployments and any names, and
\* wherever deploys fail or are cut off.
THEOREM ActiveIsKept == Spec => KeepsServing
  <1> DEFINE Keeps == \A d \in Id :
         /\ Exists(d) /\ row[d].active_release # None
         /\ Serving(Active(d)) /\ containers[Active(d)].label = d /\ TakenDown(Active(d))
         => \/ /\ cur = d
               /\ \/ snap[d].desired_state = "stopped" \/ snap[d].ports # {}
                  \/ snap[d].desired_release = row[d].active_release
            \/ Renamed(d) \/ Ambiguous(Active(d), row[d].name)
  <1>1. TargetInv /\ [Next]_vars => Keeps
    <2> SUFFICES ASSUME TargetInv, [Next]_vars, NEW d \in Id, Exists(d),
                        row[d].active_release # None, containers[Active(d)].label = d,
                        TakenDown(Active(d)),
                        ~Renamed(d), ~Ambiguous(Active(d), row[d].name)
                 PROVE  /\ cur = d
                        /\ \/ snap[d].desired_state = "stopped" \/ snap[d].ports # {}
                           \/ snap[d].desired_release = row[d].active_release
      OBVIOUS
    <2> DEFINE c == Active(d)
               n == row[d].name
               a == row[d].active_release
    <2>1. n \in Name /\ a \in Release
      BY RowType, DataParts DEF TargetInv, TypeOK, Row
    <2>2. c = ContainerName[n][a] /\ c \in Container
      BY <2>1, NamesOfContainers DEF Active
    <2>3. TakenDown(c) /\ containers[c].label = d /\ ~Ambiguous(c, n)
      OBVIOUS
    <2> HIDE DEF c
    <2>4. /\ \/ pc = "sweep" /\ c \in todo
             \/ pc \in {"ensure", "start"} /\ c = container_name /\ Want \in Release
          /\ cur \in Id /\ snap[cur] \in Row /\ cur = d
      BY <2>2, <2>3, TakenFrom
    <2>5. snap[cur].name = n
      BY <2>4, RowIsNew DEF Renamed
    <2>6. CASE pc = "sweep" /\ c \in todo
      <3>1. c \notin Keep /\ purpose # "none" /\ purpose \in Purpose
        BY <2>6 DEF TargetInv, AimInv, Spared, TypeOK, TaskOK
      <3>2. purpose \in {"settled", "superseded"} => a = Want
        BY <2>4, <2>6 DEF TargetInv, AimInv, Sweeping
      <3>3. purpose \notin {"settled", "superseded"}
        BY <2>2, <2>5, <3>1, <3>2 DEF Keep, container_name
      <3> QED BY <2>4, <2>6, <3>1, <3>3 DEF TargetInv, AimInv, Sweeping, Purpose
    <2>7. CASE pc \in {"ensure", "start"} /\ c = container_name /\ Want \in Release
      <3>1. ContainerName[n][a] = ContainerName[n][Want]
        BY <2>2, <2>5, <2>7 DEF container_name
      <3> HIDE DEF n, a
      <3>2. a = Want
        BY <2>1, <2>7, <3>1, TagsDiffer
      <3> QED BY <2>4, <3>2 DEF a, Want
    <2> QED BY <2>4, <2>6, <2>7
  <1> QED BY <1>1, TargetInductive, PTL DEF KeepsServing, Spec

-----------------------------------------------------------------------------
(* The refinement of Lifecycle: what it sees of the rows and containers      *)

\* What the mapping shows of one deployment.
LEMMA Mapped ==
  ASSUME RowsOK, NEW d \in Id
  PROVE  /\ Life!Exists(d) <=> Exists(d)
         /\ Exists(d) => /\ phase[d] = row[d].status
                         /\ asked[d] = row[d].desired_release
                         /\ active[d] = row[d].active_release
         /\ ~Exists(d) => phase[d] \in {"absent", "deleted"} /\ asked[d] = None /\ active[d] = None
         /\ phase[d] = "absent" <=> row[d] = None
  <1>1. Exists(d) => row[d].status \notin {"absent", "deleted"}
    BY RowType DEF Row, Status
  <1> QED BY <1>1, NoneIsNew DEF Life!Exists, Exists, phase, asked, active

\* The mapping yields functions on Id, before and after a step.
LEMMA MappedFunctions ==
  /\ phase = [d \in Id |-> phase[d]] /\ phase' = [d \in Id |-> phase'[d]]
  /\ asked = [d \in Id |-> asked[d]] /\ asked' = [d \in Id |-> asked'[d]]
  /\ active = [d \in Id |-> active[d]] /\ active' = [d \in Id |-> active'[d]]
  /\ registered = [d \in Id |-> registered[d]] /\ registered' = [d \in Id |-> registered'[d]]
  BY DEF phase, asked, active, registered

\* What a row that is written shows, and that the others show what they did.
LEMMA RowShows ==
  ASSUME RowsOK, NEW e \in Id, NEW new \in Row, row' = [row EXCEPT ![e] = new]
  PROVE  /\ phase' = [phase EXCEPT ![e] = new.status]
         /\ asked' = [asked EXCEPT ![e] = new.desired_release]
         /\ active' = [active EXCEPT ![e] = new.active_release]
  BY RowIsNew DEF RowsOK, phase, asked, active, Exists

LEMMA SameRowsShow == UNCHANGED row => UNCHANGED <<phase, asked, active>>
  BY DEF phase, asked, active, Exists

LEMMA SameReleasesShow == UNCHANGED releases => UNCHANGED registered
  BY DEF registered

\* A statement that writes of a row that exists something else.
LEMMA RowHides ==
  ASSUME RowsOK, NEW e \in Id, NEW new \in Row, Exists(e), row' = [row EXCEPT ![e] = new]
  PROVE  /\ new.status = row[e].status => UNCHANGED phase
         /\ new.desired_release = row[e].desired_release => UNCHANGED asked
         /\ new.active_release = row[e].active_release => UNCHANGED active
  <1>1. new.status = row[e].status => UNCHANGED phase
    BY RowIsNew DEF RowsOK, Exists, phase
  <1>2. new.desired_release = row[e].desired_release => UNCHANGED asked
    BY RowIsNew DEF RowsOK, Exists, asked
  <1>3. new.active_release = row[e].active_release => UNCHANGED active
    BY RowIsNew DEF RowsOK, Exists, active
  <1> QED BY <1>1, <1>2, <1>3

\* set_status shows as what the row says, unless the row is gone.
LEMMA StatusShows ==
  ASSUME RowsOK, NEW e \in Id, NEW s \in Status, Write(e, [row[e] EXCEPT !.status = s]),
         UNCHANGED <<registered, occupied>>
  PROVE  IF Exists(e) THEN Life!Says(e, s) ELSE UNCHANGED Life!vars
  <1> DEFINE new == [row[e] EXCEPT !.status = s]
  <1>1. CASE Exists(e)
    <2>1. /\ new \in Row /\ new.status = s
          /\ new.desired_release = row[e].desired_release
          /\ new.active_release = row[e].active_release
      BY <1>1, RowType DEF Row
    <2>2. row' = [row EXCEPT ![e] = new]
      BY <1>1 DEF Write
    <2> HIDE DEF new
    <2>3. phase' = [phase EXCEPT ![e] = s] /\ UNCHANGED <<asked, active>>
      BY <1>1, <2>1, <2>2, RowShows, RowHides
    <2> QED BY <1>1, <2>3, Mapped DEF Life!Says
  <1>2. CASE ~Exists(e)
    BY <1>2, SameRowsShow DEF Write, Life!vars
  <1> QED BY <1>1, <1>2

\* set_active_release shows as the active release alone.
LEMMA ActiveShows ==
  ASSUME RowsOK, NEW e \in Id, NEW r \in Release \union {None},
         Write(e, [row[e] EXCEPT !.active_release = r])
  PROVE  IF Exists(e)
         THEN active' = [active EXCEPT ![e] = r] /\ UNCHANGED <<phase, asked>>
         ELSE UNCHANGED <<phase, asked, active>>
  <1> DEFINE new == [row[e] EXCEPT !.active_release = r]
  <1>1. CASE Exists(e)
    <2>1. /\ new \in Row /\ new.status = row[e].status
          /\ new.desired_release = row[e].desired_release /\ new.active_release = r
      BY <1>1, RowType DEF Row
    <2>2. row' = [row EXCEPT ![e] = new]
      BY <1>1 DEF Write
    <2> HIDE DEF new
    <2> QED BY <1>1, <2>1, <2>2, RowShows, RowHides
  <1>2. CASE ~Exists(e)
    BY <1>2, SameRowsShow DEF Write
  <1> QED BY <1>1, <1>2

\* Containers that stay there, and whose they are, show no change.
LEMMA SameLabelsShow ==
  ASSUME \A c \in Container : /\ Present(c)' <=> Present(c)
                              /\ Present(c) => containers'[c].label = containers[c].label
  PROVE  UNCHANGED occupied
  <1>1. \A d \in Id : Labelled(d)' = Labelled(d)
    BY DEF Labelled
  <1> QED BY <1>1 DEF occupied

LEMMA SameContainersShow == UNCHANGED containers => UNCHANGED occupied
  BY DEF occupied, Labelled, Present

\* A container that changes state shows nothing.
LEMMA StateShows ==
  ASSUME ContainersOK, NEW c \in Container, Present(c),
         NEW s \in {"running", "serving", "exited", "stopped"},
         containers' = [containers EXCEPT ![c].state = s]
  PROVE  UNCHANGED occupied
  BY StateEffect, SameLabelsShow

LEMMA RemoveFailsShows ==
  ASSUME ContainersOK, NEW c \in Container, RemoveFails(c) PROVE UNCHANGED occupied
  BY StateShows, SameContainersShow DEF RemoveFails

\* A container that is removed was its deployment's last one, or shows nothing.
LEMMA RemoveShows ==
  ASSUME ContainersOK, NEW c \in Container, Remove(c)
  PROVE  UNCHANGED occupied \/ \E d \in Id : occupied' = occupied \ {d}
  <1>1. \A b \in Container : /\ Present(b)' <=> Present(b) /\ b # c
                             /\ Present(b)' => containers'[b].label = containers[b].label
    BY DEF Remove, ContainersOK, Present
  <1>2. CASE Present(c)
    <2>1. PICK e \in Id : containers[c].label = e
      BY <1>2 DEF ContainersOK, Present, ContainerStatus
    <2>2. \A d \in Id \ {e} : Labelled(d)' = Labelled(d)
      BY <1>1, <2>1 DEF Labelled
    <2>3. Labelled(e)' \subseteq Labelled(e)
      BY <1>1 DEF Labelled
    <2> QED BY <2>1, <2>2, <2>3 DEF occupied
  <1>3. CASE ~Present(c)
    BY <1>1, <1>3, SameLabelsShow
  <1> QED BY <1>2, <1>3

-----------------------------------------------------------------------------
(* What makes every step one that Lifecycle allows                           *)

Gone(d) == phase[d] = "deleted"

\* set_desired_release is only called with a release, never to clear it.
CallsAsk == \A call \in calls : call.step = "set_desired" => call.release \in Release

\* A deployment is asked for a release before it has containers or is served,
\* and nothing takes that back.
AskedFirst == \A d \in Id : asked[d] = None /\ ~Gone(d) => Life!Vacant(d)

\* So a snapshot without a desired release is of a deployment that had nothing
\* when it was listed, and nothing comes up until its turn is over; and one with a
\* desired release is of a deployment that is asked for some release ever since.
ListedAsAsked ==
    \A d \in Id : snap[d] # None =>
        /\ phase[d] # "absent"
        /\ ~Gone(d) => IF snap[d].desired_release = None THEN Life!Vacant(d) ELSE asked[d] # None

\* What is active changes only while the deployment is being converged.
ListedAsActive == \A d \in left : ~Gone(d) => active[d] = snap[d].active_release

AskInv == CallsAsk /\ AskedFirst /\ ListedAsAsked /\ ListedAsActive

\* What converge_one has made sure of at its awaits, if nobody has deleted the
\* deployment: that the snapshot asks for no release, that its active release is
\* the row's, that a release is active when old containers are swept, that none is
\* once all is stopped, that the row tells of the deploy, and that the container
\* to create is not there.
AsksNothing == pc = "pending" => Want = None
SeenActive == pc = "inspect" => Gone(cur) \/ active[cur] = snap[cur].active_release
Served ==
    \/ pc \in {"mark_running", "mark_settled"}
    \/ pc \in {"listing", "sweep"} /\ purpose \in {"settled", "superseded"}
    => Gone(cur) \/ active[cur] # None
Forgotten == pc = "mark_stopped" => Gone(cur) \/ active[cur] = None
Deploying == pc \in {"health", "proxy", "activate"} => phase[cur] \in {"deploying", "deleted"}
Vacated == pc \in {"create", "start"} => ~Present(container_name)

AwaitInv == AsksNothing /\ SeenActive /\ Served /\ Forgotten /\ Deploying /\ Vacated

LifeInv == TypeOK /\ SweepInv /\ AskInv /\ AwaitInv

-----------------------------------------------------------------------------
(* What each step shows                                                      *)

\* What Lifecycle sees of a handler or of the environment.
OthersShow ==
    \/ UNCHANGED Life!vars
    \/ \E d \in Id : \/ Life!Create(d) \/ Life!Delete(d)
                     \/ \E r \in Release : Life!Register(d, r) \/ Life!Ask(d, r) \/ Life!Prune(d, r)

\* And of the reconciler task.
TaskShows ==
    \/ UNCHANGED Life!vars
    \/ \E d \in Id : Life!Clear(d)
    \/ /\ cur \in Id
       /\ \/ Life!Wait(cur) \/ Life!Begin(cur) \/ Life!Settle(cur) \/ Life!Fail(cur) \/ Life!Stop(cur)
          \/ pc = "clear_active" /\ Life!Forget(cur)
          \/ pc \in Releasing /\ Life!Launch(cur)
          \/ pc \in Releasing /\ Life!Activate(cur, Want)

\* Handlers write the rows and the releases, and touch no container.
LEMMA HandlersShow == TypeOK /\ CallsAsk /\ Handlers => OthersShow
  <1> SUFFICES ASSUME TypeOK, CallsAsk, Handlers PROVE OthersShow
    OBVIOUS
  <1>0. RowsOK /\ ReleasesOK /\ CallsOK
    BY DataParts DEF TypeOK
  <1>1. UNCHANGED occupied
    BY HandlersQuiet, SameContainersShow
  <1>2. ASSUME NEW d \in Id, create(d) PROVE Life!Create(d)
    <2>1. PICK n \in Name, v \in SUBSET Env, ps \in SUBSET Port : row' = [row EXCEPT ![d] =
              [name |-> n, env |-> v, ports |-> ps, desired_state |-> "running",
               status |-> "pending", desired_release |-> None, active_release |-> None]]
      BY <1>2 DEF create
    <2> DEFINE new == [name |-> n, env |-> v, ports |-> ps, desired_state |-> "running",
               status |-> "pending", desired_release |-> None, active_release |-> None]
    <2>2. /\ new \in Row /\ new.status = "pending"
          /\ new.desired_release = None /\ new.active_release = None
      BY DEF Row, Status
    <2>3. row' = [row EXCEPT ![d] = new] /\ ~Exists(d) /\ row[d] = None /\ UNCHANGED releases
      BY <2>1, <1>2 DEF create, Exists
    <2> HIDE DEF new
    <2>4. phase' = [phase EXCEPT ![d] = new.status]
      BY <1>0, <2>2, <2>3, RowShows
    <2>5. UNCHANGED <<asked, active>>
      BY <1>0, <2>2, <2>3, RowIsNew DEF RowsOK, Exists, asked, active
    <2> QED BY <1>0, <1>1, <2>2, <2>3, <2>4, <2>5, Mapped, SameReleasesShow DEF Life!Create
  <1>3. ASSUME NEW d \in Id, update(d) PROVE UNCHANGED Life!vars
    <2>1. PICK n \in Name, v \in SUBSET Env, ps \in SUBSET Port :
            row' = [row EXCEPT ![d] = [@ EXCEPT !.name = n, !.env = v, !.ports = ps]]
      BY <1>3 DEF update
    <2> DEFINE new == [row[d] EXCEPT !.name = n, !.env = v, !.ports = ps]
    <2>2. /\ new \in Row /\ new.status = row[d].status
          /\ new.desired_release = row[d].desired_release
          /\ new.active_release = row[d].active_release
      BY <1>0, <1>3, RowType DEF update, Row
    <2>3. row' = [row EXCEPT ![d] = new] /\ Exists(d) /\ UNCHANGED releases
      BY <2>1, <1>3 DEF update
    <2> HIDE DEF new
    <2> QED BY <1>0, <1>1, <2>2, <2>3, RowHides, SameReleasesShow DEF Life!vars
  <1>4. ASSUME NEW d \in Id, delete(d) PROVE Life!Delete(d)
    <2>1. /\ Exists(d) /\ row' = [row EXCEPT ![d] = Deleted]
          /\ releases' = [releases EXCEPT ![d] = [r \in Release |-> "gone"]]
      BY <1>4 DEF delete
    <2>2. phase' = [phase EXCEPT ![d] = "deleted"]
      BY <1>0, <2>1, NoneIsNew DEF RowsOK, phase
    <2>3. asked' = [asked EXCEPT ![d] = None] /\ active' = [active EXCEPT ![d] = None]
      BY <1>0, <2>1 DEF RowsOK, Exists, asked, active
    <2>4. registered' = [registered EXCEPT ![d] = {}]
      BY <1>0, <2>1 DEF ReleasesOK, registered
    <2> QED BY <1>0, <1>1, <2>1, <2>2, <2>3, <2>4, Mapped DEF Life!Delete
  <1>5. ASSUME NEW d \in Id, NEW s \in {"running", "stopped"}, set_state(d, s)
        PROVE  UNCHANGED Life!vars
    <2> DEFINE new == [row[d] EXCEPT !.desired_state = s]
    <2>1. /\ new \in Row /\ new.status = row[d].status
          /\ new.desired_release = row[d].desired_release
          /\ new.active_release = row[d].active_release
      BY <1>0, <1>5, RowType DEF set_state, Row
    <2>2. row' = [row EXCEPT ![d] = new] /\ Exists(d) /\ UNCHANGED releases
      BY <1>5 DEF set_state, Write
    <2> HIDE DEF new
    <2> QED BY <1>0, <1>1, <2>1, <2>2, RowHides, SameReleasesShow DEF Life!vars
  <1>6. ASSUME NEW d \in Id, NEW r \in Release, NEW b \in BOOLEAN, register_release(d, r, b)
        PROVE  Life!Register(d, r)
    <2>1. /\ Exists(d) /\ UNCHANGED row
          /\ releases' = [releases EXCEPT ![d] = [@ EXCEPT ![r] = "registered"]]
      BY <1>6 DEF register_release
    <2>2. registered' = [registered EXCEPT ![d] = registered[d] \union {r}]
      BY <1>0, <2>1 DEF ReleasesOK, registered
    <2> QED BY <1>0, <1>1, <2>1, <2>2, Mapped, SameRowsShow DEF Life!Register
  <1>7. ASSUME NEW d \in Id, NEW r \in Release, rollback_deployment(d, r)
        PROVE  UNCHANGED Life!vars
    BY <1>1, <1>7, SameRowsShow, SameReleasesShow DEF rollback_deployment, Life!vars
  <1>8. ASSUME NEW call \in calls, set_desired_release(call) PROVE OthersShow
    <2> DEFINE new == [row[call.id] EXCEPT !.desired_release = call.release]
    <2>1. call.id \in Id /\ call.release \in Release /\ UNCHANGED releases
      BY <1>0, <1>8 DEF CallsOK, Call, CallsAsk, set_desired_release
    <2>2. UNCHANGED registered
      BY <2>1, SameReleasesShow
    <2>3. CASE UNCHANGED row
      BY <1>1, <2>2, <2>3, SameRowsShow DEF OthersShow, Life!vars
    <2>4. CASE /\ ~Refused(call.id, call.release) /\ Exists(call.id)
               /\ row' = [row EXCEPT ![call.id] = new]
      <3>1. /\ new \in Row /\ new.status = row[call.id].status
            /\ new.desired_release = call.release
            /\ new.active_release = row[call.id].active_release
        BY <1>0, <2>1, <2>4, RowType DEF Row
      <3> HIDE DEF new
      <3>2. asked' = [asked EXCEPT ![call.id] = new.desired_release] /\ UNCHANGED <<phase, active>>
        BY <1>0, <2>1, <2>4, <3>1, RowShows, RowHides
      <3>3. call.release \in registered[call.id]
        BY <2>1, <2>4 DEF Refused, registered
      <3>4. Life!Ask(call.id, call.release)
        BY <1>0, <1>1, <2>1, <2>2, <2>4, <3>1, <3>2, <3>3, Mapped DEF Life!Ask
      <3> QED BY <2>1, <3>4 DEF OthersShow
    <2> QED BY <1>8, <2>3, <2>4 DEF set_desired_release, Write
  <1>9. ASSUME NEW call \in calls, notify_one(call) PROVE UNCHANGED Life!vars
    BY <1>1, <1>9, SameRowsShow, SameReleasesShow DEF notify_one, Life!vars
  <1> QED BY <1>2, <1>3, <1>4, <1>5, <1>6, <1>7, <1>8, <1>9 DEF Handlers, OthersShow

\* Containers exit and come up unseen, and retention prunes what nobody names.
LEMMA EnvironmentShows == TypeOK /\ Environment => OthersShow
  <1> SUFFICES ASSUME TypeOK, Environment PROVE OthersShow
    OBVIOUS
  <1>0. RowsOK /\ ReleasesOK /\ ContainersOK
    BY DataParts DEF TypeOK
  <1>1. ASSUME NEW c \in Container, Exit(c) \/ Restart(c) \/ ComeUp(c) PROVE UNCHANGED Life!vars
    <2>1. UNCHANGED <<row, releases>>
      BY <1>1 DEF Exit, Restart, ComeUp
    <2>2. UNCHANGED occupied
      BY <1>0, <1>1, StateShows DEF Exit, Restart, ComeUp, Up
    <2> QED BY <2>1, <2>2, SameRowsShow, SameReleasesShow DEF Life!vars
  <1>2. ASSUME NEW d \in Id, NEW r \in Release, delete_release(d, r) PROVE Life!Prune(d, r)
    <2>1. UNCHANGED <<row, containers>> /\ row[d].desired_release # r /\ row[d].active_release # r
      BY <1>2 DEF delete_release
    <2>2. r \notin {asked[d], active[d]}
      BY <1>0, <2>1, Mapped, NoneIsNew
    <2>3. releases' = [releases EXCEPT ![d] = [@ EXCEPT ![r] = "gone"]]
      BY <1>2 DEF delete_release
    <2>4. registered' = [registered EXCEPT ![d] = registered[d] \ {r}]
      BY <1>0, <2>3 DEF ReleasesOK, registered
    <2> QED BY <2>1, <2>2, <2>4, SameRowsShow, SameContainersShow DEF Life!Prune
  <1>3. CASE Crash
    BY <1>3, SameRowsShow, SameReleasesShow, SameContainersShow DEF Crash, OthersShow, Life!vars
  <1> QED BY <1>1, <1>2, <1>3 DEF Environment, OthersShow


\* The task's deployment has a row, if it has not been deleted.
LEMMA CurMapped ==
  ASSUME TypeOK, SweepInv, pc \notin Between
  PROVE  /\ cur \in Id /\ row[cur] # None /\ phase[cur] # "absent"
         /\ Exists(cur) <=> ~Gone(cur)
         /\ Life!Exists(cur) <=> ~Gone(cur)
         /\ cur \in occupied <=> Labelled(cur) # {}
  <1>1. cur \in Id /\ row[cur] # None /\ RowsOK
    BY CurType, DataParts DEF TypeOK, SweepInv, Known
  <1>2. phase[cur] # "absent" /\ (Exists(cur) => phase[cur] # "deleted")
        /\ (~Exists(cur) => phase[cur] \in {"absent", "deleted"}) /\ (Life!Exists(cur) <=> Exists(cur))
    BY <1>1, Mapped DEF Life!Exists
  <1> QED BY <1>1, <1>2 DEF Gone, occupied

\* set_status, at the end of a converge or before a deploy.
LEMMA StatusStep ==
  ASSUME TypeOK, SweepInv, pc \notin Between, NEW s \in Status,
         Write(cur, [row[cur] EXCEPT !.status = s]), UNCHANGED <<releases, containers>>
  PROVE  IF Gone(cur) THEN UNCHANGED Life!vars ELSE Life!Says(cur, s)
  <1>1. UNCHANGED <<registered, occupied>>
    BY SameReleasesShow, SameContainersShow
  <1> QED BY <1>1, StatusShows, CurMapped, DataParts DEF TypeOK

\* While a deploy launches its container, the row tells of it.
LEMMA LaunchingShows ==
  ASSUME TypeOK, SweepInv, Launching, pc \notin Between
  PROVE  phase[cur] \in {"deploying", "deleted"}
  BY CurMapped, Mapped, DataParts DEF TypeOK, SweepInv, DeployingShown, Gone

\* Every step of the task is one that Lifecycle allows, or shows nothing.
LEMMA ReconcilerShows == LifeInv /\ (Reconciler \/ Tick) => TaskShows
  <1> SUFFICES ASSUME LifeInv, Reconciler \/ Tick PROVE TaskShows
    OBVIOUS
  <1>0. /\ TypeOK /\ SweepInv /\ AskInv /\ AwaitInv
        /\ RowsOK /\ ReleasesOK /\ ContainersOK /\ TaskOK
    BY DataParts DEF LifeInv, TypeOK
  <1>1. ASSUME UNCHANGED <<row, releases>>, UNCHANGED occupied PROVE UNCHANGED Life!vars
    BY <1>1, SameRowsShow, SameReleasesShow DEF Life!vars
  <1>2. ASSUME UNCHANGED <<row, releases, containers>> PROVE UNCHANGED Life!vars
    BY <1>1, <1>2, SameContainersShow
  <1>3. ASSUME UNCHANGED <<row, releases>>, NEW c \in Container, Remove(c)
        PROVE  UNCHANGED Life!vars \/ \E d \in Id : Life!Clear(d)
    BY <1>0, <1>3, RemoveShows, SameRowsShow, SameReleasesShow DEF Life!vars, Life!Clear
  <1>4. ASSUME UNCHANGED <<row, releases>>, NEW c \in Container, RemoveFails(c)
        PROVE  UNCHANGED Life!vars
    BY <1>0, <1>1, <1>4, RemoveFailsShows
  <1>5. CASE MarkPending
    <2>1. pc \notin Between /\ pc = "pending" /\ UNCHANGED <<releases, containers>>
          /\ Write(cur, [row[cur] EXCEPT !.status = "pending"])
      BY <1>5 DEF MarkPending, Between
    <2>2. ~Gone(cur) => Life!Vacant(cur)
      BY <1>0, <2>1, CurSnapshot DEF AskInv, ListedAsAsked, AwaitInv, AsksNothing, Want
    <2> QED BY <1>0, <2>1, <2>2, StatusStep, CurMapped DEF Status, Life!Wait, TaskShows
  <1>6. CASE MarkDeploying
    <2>1. pc \notin Between /\ pc \in Releasing /\ UNCHANGED <<releases, containers>>
          /\ Write(cur, [row[cur] EXCEPT !.status = "deploying"])
      BY <1>6 DEF MarkDeploying, Between, Releasing
    <2>2. ~Gone(cur) => asked[cur] # None
      BY <1>0, <2>1, CurSnapshot DEF AskInv, ListedAsAsked, TaskOK
    <2> QED BY <1>0, <2>1, <2>2, StatusStep, CurMapped DEF Status, Life!Begin, TaskShows
  <1>7. CASE MarkRunning \/ MarkSettled
    <2>1. pc \notin Between /\ pc \in {"mark_running", "mark_settled"}
          /\ UNCHANGED <<releases, containers>>
          /\ (Write(cur, [row[cur] EXCEPT !.status = "running"]) \/ UNCHANGED row)
      BY <1>7 DEF MarkRunning, MarkSettled, Between
    <2>2. ~Gone(cur) => active[cur] # None
      BY <1>0, <2>1 DEF AwaitInv, Served
    <2> QED BY <1>0, <1>2, <2>1, <2>2, StatusStep, CurMapped DEF Status, Life!Settle, TaskShows
  <1>8. CASE MarkStopped
    <2>1. pc \notin Between /\ pc = "mark_stopped" /\ UNCHANGED <<releases, containers>>
          /\ Write(cur, [row[cur] EXCEPT !.status = "stopped"])
      BY <1>8 DEF MarkStopped, Between
    <2>2. ~Gone(cur) => Life!Vacant(cur)
      BY <1>0, <2>1, CurMapped DEF AwaitInv, Forgotten, SweepInv, Cleared, Emptied, Life!Vacant
    <2> QED BY <1>0, <2>1, <2>2, StatusStep, CurMapped DEF Status, Life!Stop, TaskShows
  <1>9. CASE RecordFailure
    <2>1. pc \notin Between /\ UNCHANGED <<releases, containers>>
          /\ Write(cur, [row[cur] EXCEPT !.status = "failed"])
      BY <1>9 DEF RecordFailure, Between
    <2> QED BY <1>0, <2>1, StatusStep, CurMapped DEF Status, Life!Fail, TaskShows
  <1>10. CASE ClearActive
    <2>1. pc \notin Between /\ pc = "clear_active" /\ UNCHANGED <<releases, containers>>
          /\ Write(cur, [row[cur] EXCEPT !.active_release = None])
      BY <1>10 DEF ClearActive, Between
    <2>2. cur \in Id /\ cur \notin occupied
      BY <1>0, <2>1, CurMapped DEF SweepInv, Cleared, Emptied
    <2>3. UNCHANGED <<registered, occupied>>
      BY <2>1, SameReleasesShow, SameContainersShow
    <2>4. CASE Exists(cur)
      <3>1. active' = [active EXCEPT ![cur] = None] /\ UNCHANGED <<phase, asked>>
        BY <1>0, <2>1, <2>2, <2>4, ActiveShows
      <3> QED BY <1>0, <2>1, <2>2, <2>3, <2>4, <3>1, CurMapped DEF Life!Forget, TaskShows
    <2>5. CASE ~Exists(cur)
      BY <1>2, <2>1, <2>5 DEF Write, TaskShows
    <2> QED BY <2>4, <2>5
  <1>11. CASE set_active_release
    <2>1. pc \notin Between /\ pc = "activate" /\ pc \in Releasing /\ UNCHANGED <<releases, containers>>
      BY <1>11 DEF set_active_release, Between, Releasing
    <2>2. cur \in Id /\ Want \in Release
      BY <1>0, <2>1, OwnContainer
    <2>3. UNCHANGED <<registered, occupied>>
      BY <2>1, SameReleasesShow, SameContainersShow
    <2>4. CASE ~Refused(cur, Want) /\ Exists(cur)
      <3>1. Write(cur, [row[cur] EXCEPT !.active_release = Want])
        BY <1>11, <2>4 DEF set_active_release
      <3>2. active' = [active EXCEPT ![cur] = Want] /\ UNCHANGED <<phase, asked>>
        BY <1>0, <2>2, <2>4, <3>1, ActiveShows
      <3>3. Want \in registered[cur]
        BY <2>2, <2>4 DEF Refused, registered
      <3>4. phase[cur] = "deploying"
        BY <1>0, <2>1, <2>4, CurMapped DEF AwaitInv, Deploying, Gone
      <3> QED BY <2>1, <2>2, <2>3, <3>2, <3>3, <3>4 DEF Life!Activate, TaskShows
    <2>5. CASE Refused(cur, Want) \/ ~Exists(cur)
      <3>1. UNCHANGED row
        BY <1>11, <2>5 DEF set_active_release, Write, Refused
      <3> QED BY <1>2, <2>1, <3>1 DEF TaskShows
    <2> QED BY <2>4, <2>5
  <1>12. CASE create_and_start
    <2>1. pc \notin Between /\ pc = "start" /\ pc \in Releasing /\ UNCHANGED <<row, releases>>
      BY <1>12 DEF create_and_start, Between, Releasing
    <2>2. container_name \in Container /\ cur \in Id
      BY <1>0, <2>1, OwnContainer
    <2>3. UNCHANGED containers \/ \E s \in {"running", "stopped"} : containers' =
             [containers EXCEPT ![container_name] = [label |-> cur, env |-> snap[cur].env,
                                                     ports |-> snap[cur].ports, state |-> s]]
      BY <1>12 DEF create_and_start
    <2>4. ASSUME NEW s \in {"running", "stopped"}, containers' =
             [containers EXCEPT ![container_name] = [label |-> cur, env |-> snap[cur].env,
                                                     ports |-> snap[cur].ports, state |-> s]]
          PROVE  Life!Launch(cur)
      <3>1. ~Present(container_name) /\ phase[cur] \in {"deploying", "deleted"}
        BY <1>0, <2>1, LaunchingShows DEF AwaitInv, Vacated, Launching
      <3>2. PICK c \in Container, d \in Id : c = container_name /\ d = cur
        BY <2>2
      <3>3. /\ Present(c)' /\ containers'[c].label = d
            /\ \A b \in Container \ {c} : containers'[b] = containers[b]
        BY <1>0, <2>4, <3>2, OwnContainer, <2>1, ContainerIsNew DEF ContainersOK, Present, ContainerStatus, Row
      <3>4. Labelled(d)' # {} /\ \A e \in Id \ {d} : Labelled(e)' = Labelled(e)
        BY <3>1, <3>2, <3>3 DEF Labelled, Present
      <3>5. occupied' = occupied \union {d}
        BY <3>4 DEF occupied
      <3> QED BY <2>1, <3>1, <3>2, <3>5, SameRowsShow, SameReleasesShow DEF Life!Launch
    <2> QED BY <1>2, <2>1, <2>2, <2>3, <2>4 DEF TaskShows
  <1>13. ASSUME NEW c \in Container, SweepOne(c) PROVE TaskShows
    BY <1>3, <1>4, <1>13 DEF SweepOne, TaskShows
  <1>14. CASE Ensure
    <2>1. container_name \in Container /\ UNCHANGED <<row, releases>>
      BY <1>0, <1>14, OwnContainer DEF Ensure, Releasing
    <2> QED BY <1>2, <1>3, <1>4, <1>14, <2>1 DEF Ensure, TaskShows
  <1>15. CASE \/ Tick \/ notified \/ List \/ AttachEnv \/ AttachPorts \/ RoundDone
              \/ \E d \in Id : Pick(d)
              \/ Inspect \/ list_by_label \/ SweepDone \/ ensure_host_ports_free
              \/ wait_healthy \/ point_proxy_at
    BY <1>2, <1>15 DEF Tick, notified, List, AttachEnv, AttachPorts, RoundDone, Pick, Inspect,
           list_by_label, SweepDone, ensure_host_ports_free, wait_healthy, point_proxy_at, TaskShows
  <1> QED BY <1>5, <1>6, <1>7, <1>8, <1>9, <1>10, <1>11, <1>12, <1>13, <1>14, <1>15 DEF Reconciler

\* A call that fails and changes nothing shows nothing.
LEMMA BrokenCallShows == BrokenCall => UNCHANGED Life!vars
  BY SameRowsShow, SameReleasesShow, SameContainersShow DEF BrokenCall, CallFails, Life!vars

\* So every step of the system shows as one of Lifecycle, or as none.
LEMMA StepsShow == LifeInv /\ [Next]_vars => OthersShow \/ TaskShows
  <1>1. UNCHANGED vars => UNCHANGED Life!vars
    BY SameRowsShow, SameReleasesShow, SameContainersShow DEF vars, Life!vars
  <1> QED BY <1>1, HandlersShow, EnvironmentShows, ReconcilerShows, BrokenCallShows
          DEF Next, LifeInv, AskInv, OthersShow

LEMMA LifeStep == LifeInv /\ [Next]_vars => [Life!Next]_(Life!vars)
  <1> SUFFICES ASSUME LifeInv, OthersShow \/ TaskShows, ~UNCHANGED Life!vars PROVE Life!Next
    BY StepsShow
  <1>1. CASE OthersShow
    BY <1>1 DEF OthersShow, Life!Next
  <1>2. CASE TaskShows
    <2>1. pc \in Releasing => Want \in Release
      BY OwnContainer DEF LifeInv
    <2> QED BY <1>2, <2>1 DEF TaskShows, Life!Next
  <1> QED BY <1>1, <1>2

-----------------------------------------------------------------------------
(* Why what makes them so stays true                                         *)

\* What a step may do to what is seen of one deployment: nobody comes back, a
\* request is not taken back, and only its own deploy serves it or gives it
\* containers.
LEMMA Seen ==
  ASSUME OthersShow \/ TaskShows, NEW d \in Id
  PROVE  /\ phase[d] = "deleted" => phase'[d] = "deleted"
         /\ phase[d] # "absent" => phase'[d] # "absent"
         /\ asked[d] # None => asked'[d] # None \/ phase'[d] = "deleted"
         /\ \/ phase'[d] = "deleted" \/ active'[d] = active[d]
            \/ d = cur /\ (active'[d] = None \/ pc \in Releasing)
         /\ d \in occupied' => d \in occupied \/ (d = cur /\ pc \in Releasing)
  <1> USE MappedFunctions
  <1>1. CASE UNCHANGED Life!vars
    BY <1>1 DEF Life!vars
  <1>2. ASSUME NEW e \in Id, \/ Life!Create(e) \/ Life!Delete(e)
                             \/ \E r \in Release : Life!Register(e, r) \/ Life!Prune(e, r)
        PROVE  /\ phase[d] = "deleted" => phase'[d] = "deleted"
               /\ phase[d] # "absent" => phase'[d] # "absent"
               /\ asked[d] # None => asked'[d] # None \/ phase'[d] = "deleted"
               /\ phase'[d] = "deleted" \/ active'[d] = active[d]
               /\ occupied' = occupied
    BY <1>2 DEF Life!Create, Life!Delete, Life!Register, Life!Prune
  <1>3. ASSUME NEW e \in Id, NEW r \in Release, Life!Ask(e, r)
        PROVE  UNCHANGED <<phase, active, occupied>> /\ (asked[d] # None => asked'[d] # None)
    BY <1>3, NoneIsNew DEF Life!Ask
  <1>4. CASE \E e \in Id : Life!Clear(e)
    BY <1>4 DEF Life!Clear
  <1>5. ASSUME NEW s \in Status, Life!Says(cur, s)
        PROVE  /\ phase[d] = "deleted" => phase'[d] = "deleted"
               /\ phase[d] # "absent" => phase'[d] # "absent"
               /\ UNCHANGED <<asked, active, occupied>>
    BY <1>5 DEF Life!Says, Life!Exists, Status
  <1>6. Life!Wait(cur) \/ Life!Begin(cur) \/ Life!Settle(cur) \/ Life!Fail(cur) \/ Life!Stop(cur)
          => \E s \in Status : Life!Says(cur, s)
    BY DEF Life!Wait, Life!Begin, Life!Settle, Life!Fail, Life!Stop, Status
  <1>7. CASE Life!Forget(cur)
    BY <1>7 DEF Life!Forget
  <1>8. CASE pc \in Releasing /\ Life!Launch(cur)
    BY <1>8 DEF Life!Launch
  <1>9. CASE pc \in Releasing /\ Life!Activate(cur, Want)
    BY <1>9 DEF Life!Activate
  <1> QED BY <1>1, <1>2, <1>3, <1>4, <1>5, <1>6, <1>7, <1>8, <1>9 DEF OthersShow, TaskShows

\* Nobody else writes the status or the active release of a deployment there is.
LEMMA OthersSeen ==
  ASSUME OthersShow, NEW d \in Id, phase[d] # "absent"
  PROVE  \/ phase'[d] = "deleted"
         \/ phase'[d] = phase[d] /\ active'[d] = active[d]
  <1> USE MappedFunctions
  <1>1. ASSUME NEW e \in Id, \/ Life!Create(e) \/ Life!Delete(e)
                             \/ \E r \in Release : \/ Life!Register(e, r) \/ Life!Prune(e, r)
                                                   \/ Life!Ask(e, r)
        PROVE  phase'[d] = "deleted" \/ (phase'[d] = phase[d] /\ active'[d] = active[d])
    BY <1>1 DEF Life!Create, Life!Delete, Life!Register, Life!Prune, Life!Ask
  <1> QED BY <1>1 DEF OthersShow, Life!vars

\* A request in flight that has still to write names a release.
LEMMA CallsStep == CallsAsk /\ [Next]_vars => CallsAsk'
  <1> SUFFICES ASSUME CallsAsk, [Next]_vars PROVE CallsAsk'
    OBVIOUS
  <1>1. CASE UNCHANGED calls \/ calls' = {}
    BY <1>1 DEF CallsAsk
  <1>2. ASSUME NEW call, Open(call), call.step = "set_desired" => call.release \in Release
        PROVE  CallsAsk'
    BY <1>2 DEF Open, CallsAsk
  <1>3. ASSUME NEW d \in Id, NEW s \in {"running", "stopped"}, set_state(d, s) PROVE CallsAsk'
    BY <1>2, <1>3 DEF set_state
  <1>4. ASSUME NEW d \in Id, NEW r \in Release,
               rollback_deployment(d, r) \/ \E b \in BOOLEAN : register_release(d, r, b)
        PROVE  CallsAsk'
    <2>1. Open([step |-> "set_desired", id |-> d, release |-> r]) \/ UNCHANGED calls
      BY <1>4 DEF rollback_deployment, register_release
    <2> QED BY <1>1, <1>2, <2>1
  <1>5. ASSUME NEW call \in calls, notify_one(call) \/ set_desired_release(call) PROVE CallsAsk'
    <2>1. \/ calls' = calls \ {call}
          \/ calls' = (calls \ {call}) \union {[call EXCEPT !.step = "notify"]}
             /\ call.step = "set_desired"
      BY <1>5 DEF notify_one, set_desired_release
    <2>2. [call EXCEPT !.step = "notify"].step # "set_desired"
          \/ [call EXCEPT !.step = "notify"] = call
      OBVIOUS
    <2> QED BY <2>1, <2>2 DEF CallsAsk
  <1>6. ASSUME NEW d \in Id, create(d) \/ update(d) \/ delete(d) PROVE CallsAsk'
    BY <1>1, <1>6 DEF create, update, delete
  <1>7. CASE Reconciler \/ Tick \/ BrokenCall
    BY <1>1, <1>7 DEF Reconciler, Tick, BrokenCall, CallFails, notified, List, AttachEnv, AttachPorts,
       RoundDone, Pick, MarkPending, Inspect, MarkDeploying, list_by_label, SweepDone, SweepOne,
       Ensure, ensure_host_ports_free, create_and_start, wait_healthy, point_proxy_at,
       set_active_release, MarkRunning, MarkSettled, ClearActive, MarkStopped, RecordFailure
  <1>8. CASE Environment \/ UNCHANGED vars
    BY <1>1, <1>8 DEF Environment, Exit, Restart, ComeUp, delete_release, Crash, vars
  <1> QED BY <1>3, <1>4, <1>5, <1>6, <1>7, <1>8 DEF Next, Handlers

\* A step that brings no snapshot in keeps what is known of requests.
LEMMA AskStep ==
  ASSUME TypeOK, SweepInv, AskInv, [Next]_vars, OthersShow \/ TaskShows, Dwindles
  PROVE  AskInv'
  <1>0. /\ \A d \in Id : snap'[d] # None => snap[d] # None /\ snap'[d] = snap[d]
        /\ left' \subseteq left
        /\ \A d \in left' : d \in Id /\ snap'[d] = snap[d] /\ snap[d] # None /\ d # cur
    BY DEF Dwindles, TypeOK, TaskOK
  <1>1. pc \in Releasing => /\ cur \in Id /\ snap[cur] # None /\ snap[cur].desired_release # None
    BY CurSnapshot DEF TypeOK, TaskOK, Releasing, Between
  <1>2. AskedFirst'
    <2> SUFFICES ASSUME NEW d \in Id, asked'[d] = None, phase'[d] # "deleted"
                 PROVE  d \notin occupied' /\ active'[d] = None
      BY DEF AskedFirst, Gone, Life!Vacant
    <2>1. asked[d] = None /\ ~Gone(d)
      BY Seen DEF Gone
    <2>2. d \notin occupied /\ active[d] = None
      BY <2>1 DEF AskInv, AskedFirst, Life!Vacant
    <2>3. ~(d = cur /\ pc \in Releasing)
      BY <1>1, <2>1 DEF AskInv, ListedAsAsked
    <2> QED BY <2>2, <2>3, Seen
  <1>3. ListedAsAsked'
    <2> SUFFICES ASSUME NEW d \in Id, snap'[d] # None
                 PROVE  /\ phase'[d] # "absent"
                        /\ phase'[d] # "deleted" =>
                             IF snap'[d].desired_release = None
                             THEN d \notin occupied' /\ active'[d] = None
                             ELSE asked'[d] # None
      BY DEF ListedAsAsked, Gone, Life!Vacant
    <2>1. snap'[d] = snap[d] /\ snap[d] # None /\ phase[d] # "absent"
      BY <1>0 DEF AskInv, ListedAsAsked
    <2>2. CASE phase'[d] # "deleted" /\ snap[d].desired_release = None
      <3>1. d \notin occupied /\ active[d] = None
        BY <2>1, <2>2, Seen DEF AskInv, ListedAsAsked, Gone, Life!Vacant
      <3>2. ~(d = cur /\ pc \in Releasing)
        BY <1>1, <2>2
      <3> QED BY <2>1, <2>2, <3>1, <3>2, Seen
    <2>3. CASE phase'[d] # "deleted" /\ snap[d].desired_release # None
      BY <2>1, <2>3, Seen DEF AskInv, ListedAsAsked, Gone
    <2> QED BY <2>1, <2>2, <2>3, Seen
  <1>4. ListedAsActive'
    <2> SUFFICES ASSUME NEW d \in left', phase'[d] # "deleted"
                 PROVE  active'[d] = snap'[d].active_release
      BY DEF ListedAsActive, Gone
    <2>1. d \in Id /\ d # cur /\ snap'[d] = snap[d] /\ d \in left
      BY <1>0
    <2> QED BY <2>1, Seen DEF AskInv, ListedAsActive, Gone
  <1> QED BY <1>2, <1>3, <1>4, CallsStep DEF AskInv

\* What list() reads is what the rows say.
LEMMA AskListed ==
  ASSUME TypeOK, SweepInv, AskInv, [Next]_vars, List \/ AttachEnv \/ AttachPorts
  PROVE  AskInv'
  <1>0. RowsOK /\ TaskOK
    BY DataParts DEF TypeOK
  <1>1. UNCHANGED <<phase, asked, active, occupied>>
    BY SameRowsShow, SameContainersShow DEF List, AttachEnv, AttachPorts
  <1>2. AskedFirst'
    BY <1>1 DEF AskInv, AskedFirst, Gone, Life!Vacant
  <1>3. CASE List
    <2>1. /\ \A d \in Id : snap'[d] = IF Exists(d) THEN row[d] ELSE None
          /\ left' = {d \in Id : Exists(d)}
      BY <1>3 DEF List
    <2>2. ListedAsAsked'
      <3> SUFFICES ASSUME NEW d \in Id, Exists(d)
                   PROVE  /\ phase[d] # "absent"
                          /\ ~Gone(d) => IF row[d].desired_release = None THEN Life!Vacant(d)
                                         ELSE asked[d] # None
        BY <1>1, <2>1 DEF ListedAsAsked, Gone, Life!Vacant
      <3> QED BY <1>0, Mapped DEF AskInv, AskedFirst, Exists
    <2>3. ListedAsActive'
      BY <1>0, <1>1, <2>1, Mapped DEF ListedAsActive, Gone
    <2> QED BY <1>2, <2>2, <2>3, CallsStep DEF AskInv
  <1>4. CASE AttachEnv \/ AttachPorts
    <2>1. /\ \A d \in left : d \in Id /\ snap[d] \in Row /\ snap[d] # None
          /\ UNCHANGED left
      BY <1>0, <1>4, RowIsNew DEF TaskOK, AttachEnv, AttachPorts
    <2>2. \A d \in Id : d \notin left => snap'[d] = None
      BY <1>4 DEF AttachEnv, AttachPorts
    <2>3. ASSUME NEW d \in left
          PROVE  /\ snap'[d].desired_release = snap[d].desired_release
                 /\ snap'[d].active_release = snap[d].active_release
      <3>1. CASE AttachEnv
        <4>1. PICK x : snap'[d] = [snap[d] EXCEPT !.env = x]
          BY <2>1, <3>1 DEF AttachEnv
        <4> QED BY <2>1, <4>1 DEF Row
      <3>2. CASE AttachPorts
        <4>1. PICK x : snap'[d] = [snap[d] EXCEPT !.ports = x]
          BY <2>1, <3>2 DEF AttachPorts
        <4> QED BY <2>1, <4>1 DEF Row
      <3> QED BY <1>4, <3>1, <3>2
    <2>4. ListedAsAsked'
      BY <1>1, <2>1, <2>2, <2>3 DEF AskInv, ListedAsAsked, Gone, Life!Vacant
    <2>5. ListedAsActive'
      BY <1>1, <2>1, <2>3 DEF AskInv, ListedAsActive, Gone
    <2> QED BY <1>2, <2>4, <2>5, CallsStep DEF AskInv
  <1> QED BY <1>3, <1>4

LEMMA AskNext == LifeInv /\ [Next]_vars => AskInv'
  BY StepsDwindle, StepsShow, AskStep, AskListed DEF LifeInv

-----------------------------------------------------------------------------
(* And at the awaits                                                         *)

\* At the other awaits nothing is claimed.
LEMMA NoClaim ==
  ASSUME \/ pc' \in {"list", "attach", "ports", "next", "wait", "deploying", "ensure",
                     "clear_active", "failed"}
         \/ pc' \in {"listing", "sweep"} /\ purpose' \notin {"settled", "superseded"}
  PROVE  AwaitInv'
  BY DEF AwaitInv, AsksNothing, SeenActive, Served, Forgotten, Deploying, Vacated

\* A step of others leaves the claims of converge_one true: they neither write
\* what they are about, but by deleting the row, nor create containers.
LEMMA AwaitFrame ==
  ASSUME LifeInv, OthersShow, UNCHANGED task, \A c \in Container : Present(c)' => Present(c)
  PROVE  AwaitInv'
  <1>0. TypeOK /\ SweepInv /\ AwaitInv
    BY DEF LifeInv
  <1>1. UNCHANGED <<pc, snap, left, cur, purpose, todo>>
    BY DEF task
  <1>2. Want' = Want /\ container_name' = container_name
    BY <1>1 DEF Want, container_name
  <1>3. CASE pc \in Between
    BY <1>1, <1>3, NoClaim DEF Between
  <1>4. CASE pc \notin Between
    <2>1. cur \in Id /\ phase[cur] # "absent"
      BY <1>0, <1>4, CurMapped
    <2>2. \/ phase'[cur] = "deleted"
          \/ phase'[cur] = phase[cur] /\ active'[cur] = active[cur]
      BY <2>1, OthersSeen
    <2>3. AsksNothing' /\ SeenActive' /\ Served' /\ Forgotten' /\ Deploying'
      BY <1>0, <1>1, <1>2, <2>2 DEF AwaitInv, AsksNothing, SeenActive, Served, Forgotten, Deploying, Gone
    <2>4. Vacated'
      <3>1. pc \in {"create", "start"} => container_name \in Container
        BY <1>0, OwnContainer DEF Releasing
      <3> QED BY <1>0, <1>1, <1>2, <3>1 DEF AwaitInv, Vacated
    <2> QED BY <2>3, <2>4 DEF AwaitInv
  <1> QED BY <1>3, <1>4

\* Each step of the task to an await where something is claimed has made it so.
LEMMA AwaitReconciler ==
  ASSUME LifeInv, Reconciler \/ Tick PROVE AwaitInv'
  <1>0. /\ TypeOK /\ SweepInv /\ AskInv /\ AwaitInv
        /\ RowsOK /\ ReleasesOK /\ ContainersOK /\ TaskOK
    BY DataParts DEF LifeInv, TypeOK
  <1>1. Fail => AwaitInv'
    BY NoClaim DEF Fail
  <1>2. ASSUME NEW d \in Id, Pick(d) PROVE AwaitInv'
    <2>1. /\ d \in left /\ cur' = d /\ snap' = snap /\ UNCHANGED row
          /\ \/ pc' = "listing" /\ purpose' = "stop"
             \/ pc' = "pending" /\ snap[d].desired_release = None
             \/ pc' = "inspect"
      BY <1>2 DEF Pick
    <2>2. UNCHANGED <<phase, active>>
      BY <2>1, SameRowsShow
    <2>3. CASE pc' = "listing" /\ purpose' = "stop"
      BY <2>3, NoClaim
    <2>4. CASE pc' = "pending" /\ snap[d].desired_release = None
      BY <2>1, <2>4 DEF AwaitInv, AsksNothing, SeenActive, Served, Forgotten, Deploying, Vacated, Want
    <2>5. CASE pc' = "inspect"
      <3>1. Gone(d) \/ active[d] = snap[d].active_release
        BY <1>0, <2>1 DEF AskInv, ListedAsActive
      <3> QED BY <2>1, <2>2, <2>5, <3>1
              DEF AwaitInv, AsksNothing, SeenActive, Served, Forgotten, Deploying, Vacated, Gone
    <2> QED BY <2>1, <2>3, <2>4, <2>5
  <1>3. CASE Inspect
    <2>1. CASE snap[cur].active_release = Want /\ Sweep("settled")
      <3>1. /\ pc = "inspect" /\ pc' = "listing" /\ purpose' = "settled"
            /\ UNCHANGED <<row, snap, cur>>
        BY <1>3, <2>1 DEF Inspect, Sweep
      <3>2. UNCHANGED <<phase, active>>
        BY <3>1, SameRowsShow
      <3>3. Want # None
        BY <1>0, <3>1, OwnContainer, NoneIsNew DEF Releasing
      <3>4. Gone(cur) \/ active[cur] # None
        BY <1>0, <2>1, <3>1, <3>3 DEF AwaitInv, SeenActive
      <3> QED BY <3>1, <3>2, <3>4
              DEF AwaitInv, AsksNothing, SeenActive, Served, Forgotten, Deploying, Vacated, Gone
    <2>2. CASE Goto("deploying")
      BY <2>2, NoClaim DEF Goto
    <2> QED BY <1>1, <1>3, <2>1, <2>2 DEF Inspect
  <1>4. CASE MarkDeploying
    <2>1. CASE Sweep("make_room") \/ Goto("ensure")
      BY <2>1, NoClaim DEF Sweep, Goto
    <2> QED BY <1>1, <1>4, <2>1 DEF MarkDeploying
  <1>5. ASSUME UNCHANGED <<row, cur, purpose>>, pc \in {"listing", "sweep"}, pc' = "sweep"
        PROVE  AwaitInv'
    <2>1. UNCHANGED <<phase, active>>
      BY <1>5, SameRowsShow
    <2>2. Served'
      BY <1>0, <1>5, <2>1 DEF AwaitInv, Served, Gone
    <2> QED BY <1>5, <2>2 DEF AwaitInv, AsksNothing, SeenActive, Forgotten, Deploying, Vacated
  <1>6. CASE list_by_label
    BY <1>5, <1>6 DEF list_by_label
  <1>7. ASSUME NEW c \in Container, SweepOne(c) PROVE AwaitInv'
    BY <1>1, <1>5, <1>7 DEF SweepOne, RemoveFails
  <1>8. CASE SweepDone
    <2>1. /\ pc = "sweep" /\ pc' = AfterSweep /\ UNCHANGED <<row, cur>>
          /\ purpose \in Purpose \ {"none"}
      BY <1>0, <1>8 DEF SweepDone, TaskOK
    <2>2. UNCHANGED <<phase, active>>
      BY <2>1, SameRowsShow
    <2>3. CASE purpose \in {"stop", "make_room"}
      BY <2>1, <2>3, NoClaim DEF AfterSweep
    <2>4. CASE purpose \in {"settled", "superseded"}
      <3>1. pc' \in {"mark_running", "mark_settled"}
        BY <2>1, <2>4 DEF AfterSweep
      <3>2. Served'
        BY <1>0, <2>1, <2>2, <2>4 DEF AwaitInv, Served, Gone
      <3> QED BY <3>1, <3>2 DEF AwaitInv, AsksNothing, SeenActive, Forgotten, Deploying, Vacated
    <2> QED BY <2>1, <2>3, <2>4 DEF Purpose
  <1>9. ASSUME UNCHANGED <<row, cur>>, phase[cur] \in {"deploying", "deleted"},
               pc' \in {"health", "proxy", "activate"}
        PROVE  AwaitInv'
    <2>1. phase' = phase
      BY <1>9, SameRowsShow
    <2> QED BY <1>9, <2>1 DEF AwaitInv, AsksNothing, SeenActive, Served, Forgotten, Deploying, Vacated
  <1>10. ASSUME pc' \in {"create", "start"}, ~Present(container_name)' PROVE AwaitInv'
    BY <1>10 DEF AwaitInv, AsksNothing, SeenActive, Served, Forgotten, Deploying, Vacated
  <1>11. CASE Ensure
    <2>1. UNCHANGED row /\ pc = "ensure" /\ container_name \in Container
          /\ phase[cur] \in {"deploying", "deleted"}
      BY <1>0, <1>11, OwnContainer, LaunchingShows DEF Ensure, Releasing, Launching, Between
    <2>2. CASE Goto("health")
      BY <1>9, <2>1, <2>2 DEF Goto
    <2>3. CASE Remove(container_name) /\ Goto("create")
      <3>1. pc' = "create" /\ container_name' = container_name
        BY <2>3 DEF Goto, container_name, Want
      <3>2. ~Present(container_name)'
        BY <1>0, <2>1, <2>3, <3>1 DEF Remove, ContainersOK, Present
      <3> QED BY <1>10, <3>1, <3>2
    <2> QED BY <1>1, <1>11, <2>2, <2>3 DEF Ensure, RemoveFails
  <1>12. CASE ensure_host_ports_free
    <2>1. CASE Goto("start")
      <3>1. ~Present(container_name) /\ UNCHANGED containers /\ pc' = "start"
            /\ container_name' = container_name
        BY <1>0, <1>12, <2>1 DEF ensure_host_ports_free, AwaitInv, Vacated, Goto, container_name, Want
      <3> QED BY <1>10, <3>1 DEF Present
    <2> QED BY <1>1, <1>12, <2>1 DEF ensure_host_ports_free
  <1>13. CASE create_and_start
    <2>1. UNCHANGED row /\ phase[cur] \in {"deploying", "deleted"}
      BY <1>0, <1>13, LaunchingShows DEF create_and_start, Launching, Between
    <2>2. CASE Goto("health")
      BY <1>9, <2>1, <2>2 DEF Goto
    <2> QED BY <1>1, <1>13, <2>2 DEF create_and_start
  <1>14. CASE wait_healthy \/ point_proxy_at
    <2>1. UNCHANGED row /\ phase[cur] \in {"deploying", "deleted"}
      BY <1>0, <1>14 DEF wait_healthy, point_proxy_at, AwaitInv, Deploying
    <2>2. CASE Goto("proxy") \/ Goto("activate")
      BY <1>9, <2>1, <2>2 DEF Goto
    <2> QED BY <1>1, <1>14, <2>2 DEF wait_healthy, point_proxy_at
  <1>15. CASE set_active_release
    <2>1. cur \in Id /\ Want \in Release /\ pc \notin Between
      BY <1>0, <1>15, OwnContainer DEF set_active_release, Releasing, Between
    <2>2. CASE Write(cur, [row[cur] EXCEPT !.active_release = Want]) /\ Sweep("superseded")
      <3>1. cur' = cur /\ pc' = "listing" /\ purpose' = "superseded"
        BY <2>2 DEF Sweep
      <3>2. Exists(cur) => active'[cur] = Want
        BY <1>0, <2>1, <2>2, ActiveShows, MappedFunctions
      <3>3. ~Exists(cur) => phase'[cur] = "deleted"
        BY <1>0, <2>1, <2>2, ActiveShows, CurMapped DEF Gone
      <3>4. Served'
        BY <2>1, <3>1, <3>2, <3>3, NoneIsNew DEF Served, Gone
      <3> QED BY <3>1, <3>4 DEF AwaitInv, AsksNothing, SeenActive, Forgotten, Deploying, Vacated
    <2> QED BY <1>1, <1>15, <2>2 DEF set_active_release
  <1>16. CASE ClearActive
    <2>1. /\ Write(cur, [row[cur] EXCEPT !.active_release = None])
          /\ cur \in Id /\ cur' = cur /\ pc' = "mark_stopped" /\ pc \notin Between
      BY <1>0, <1>16, CurType DEF ClearActive, Goto, Between
    <2>2. Exists(cur) => active'[cur] = None
      BY <1>0, <2>1, ActiveShows, MappedFunctions
    <2>3. ~Exists(cur) => phase'[cur] = "deleted"
      BY <1>0, <2>1, ActiveShows, CurMapped DEF Gone
    <2>4. Forgotten'
      BY <2>1, <2>2, <2>3 DEF Forgotten, Gone
    <2> QED BY <2>1, <2>4 DEF AwaitInv, AsksNothing, SeenActive, Served, Deploying, Vacated
  <1>17. CASE \/ Tick \/ notified \/ List \/ AttachEnv \/ AttachPorts \/ RoundDone
              \/ MarkPending \/ MarkRunning \/ MarkSettled \/ MarkStopped \/ RecordFailure
    BY <1>17, NoClaim DEF Tick, notified, List, AttachEnv, AttachPorts, RoundDone, MarkPending,
       MarkRunning, MarkSettled, MarkStopped, RecordFailure, Goto, Done
  <1> QED BY <1>2, <1>3, <1>4, <1>6, <1>7, <1>8, <1>11, <1>12, <1>13, <1>14, <1>15, <1>16, <1>17
          DEF Reconciler

LEMMA AwaitNext == LifeInv /\ [Next]_vars => AwaitInv'
  <1> SUFFICES ASSUME LifeInv, [Next]_vars PROVE AwaitInv'
    OBVIOUS
  <1>0. TypeOK /\ CallsAsk /\ ContainersOK
    BY DataParts DEF LifeInv, AskInv, TypeOK
  <1>1. CASE Handlers
    <2>1. OthersShow /\ UNCHANGED <<containers, task>>
      BY <1>0, <1>1, HandlersShow, HandlersQuiet
    <2> QED BY <2>1, AwaitFrame DEF Present
  <1>2. CASE Environment
    <2>1. OthersShow
      BY <1>0, <1>2, EnvironmentShows
    <2>2. CASE Crash
      BY <2>2, NoClaim DEF Crash
    <2>3. ASSUME NEW c \in Container, Exit(c) \/ Restart(c) \/ ComeUp(c) PROVE AwaitInv'
      <3>1. \A b \in Container : Present(b)' => Present(b)
        BY <1>0, <2>3, StateEffect DEF Exit, Restart, ComeUp, Up
      <3>2. UNCHANGED task
        BY <2>3 DEF Exit, Restart, ComeUp
      <3> QED BY <2>1, <3>1, <3>2, AwaitFrame
    <2>4. ASSUME NEW d \in Id, NEW r \in Release, delete_release(d, r) PROVE AwaitInv'
      BY <2>1, <2>4, AwaitFrame DEF delete_release, Present
    <2> QED BY <1>2, <2>2, <2>3, <2>4 DEF Environment
  <1>3. CASE Reconciler \/ Tick
    BY <1>3, AwaitReconciler
  <1>4. CASE BrokenCall
    BY <1>4, NoClaim DEF BrokenCall, CallFails, Fail
  <1>5. CASE UNCHANGED vars
    <2>1. UNCHANGED Life!vars /\ UNCHANGED <<task, containers>>
      BY <1>5, SameRowsShow, SameReleasesShow, SameContainersShow DEF vars, Life!vars
    <2> QED BY <2>1, AwaitFrame DEF OthersShow, Present
  <1> QED BY <1>1, <1>2, <1>3, <1>4, <1>5 DEF Next

-----------------------------------------------------------------------------

\* A fresh host: nothing is asked for, served or there.
LEMMA LifeInit == Init => LifeInv /\ Life!Init
  <1> SUFFICES ASSUME Init PROVE LifeInv /\ Life!Init
    OBVIOUS
  <1>1. /\ phase = [d \in Id |-> "absent"]
        /\ asked = [d \in Id |-> None] /\ active = [d \in Id |-> None]
        /\ registered = [d \in Id |-> {}]
        /\ occupied = {}
    BY NoneIsNew DEF Init, Exists, phase, asked, active, registered, occupied, Labelled, Present
  <1>2. AskInv
    BY <1>1 DEF Init, AskInv, CallsAsk, AskedFirst, ListedAsAsked, ListedAsActive, Life!Vacant
  <1>3. AwaitInv
    BY DEF Init, AwaitInv, AsksNothing, SeenActive, Served, Forgotten, Deploying, Vacated
  <1> QED BY <1>1, <1>2, <1>3, TypeInit, SweepInit DEF LifeInv, Life!Init

\* The inductive invariant of the refinement: what users are served and what runs
\* follows what they asked for, through every snapshot and await.
THEOREM LifeCorrect == Spec => []LifeInv
  <1>1. TypeOK /\ [Next]_vars => TypeOK'
    <2>1. TypeOK /\ UNCHANGED vars => TypeOK'
      BY TaskFrame, DataParts, Same DEF vars, TypeOK, DataOK
    <2> QED BY <2>1, TypeHandlers, TypeReconciler, TypeBrokenCall, TypeEnvironment DEF Next
  <1>2. LifeInv /\ [Next]_vars => LifeInv'
    BY <1>1, SweepNext, AskNext, AwaitNext DEF LifeInv
  <1> QED BY <1>2, LifeInit, PTL DEF Spec

\* The deployment subsystem implements Lifecycle: whatever the users do, and
\* wherever calls fail, containers exit or the agent dies, each step from one await
\* to the next is at most one of the promised changes, made when it may be.
THEOREM ImplementsItsLifecycle == Spec => ImplementsLifecycle
  <1> QED BY LifeInit, LifeStep, LifeCorrect, PTL DEF Spec, ImplementsLifecycle, Life!Spec

-----------------------------------------------------------------------------
(* What Lifecycle promises                                                   *)

\* No step of Lifecycle breaks its promise.
LEMMA PromiseStep == Life!Promise /\ [Life!Next]_(Life!vars) => Life!Promise'
  <1> DEFINE Kept(d) == /\ phase'[d] \in {"absent", "pending", "stopped"} => d \notin occupied' /\ active'[d] = None
                        /\ phase'[d] = "running" /\ d \in occupied' => active'[d] # None
                        /\ {asked'[d], active'[d]} \subseteq registered'[d] \union {None}
  <1> SUFFICES ASSUME Life!Promise, [Life!Next]_(Life!vars), NEW d \in Id PROVE Kept(d)
    BY DEF Life!Promise, Life!Vacant
  <1>0. /\ phase[d] \in {"absent", "pending", "stopped"} => d \notin occupied /\ active[d] = None
        /\ phase[d] = "running" /\ d \in occupied => active[d] # None
        /\ {asked[d], active[d]} \subseteq registered[d] \union {None}
    BY DEF Life!Promise, Life!Vacant
  <1> USE <1>0, MappedFunctions
  <1>1. CASE UNCHANGED Life!vars
    BY <1>1 DEF Life!vars
  <1>2. ASSUME NEW e \in Id, Life!Create(e) PROVE Kept(d)
    BY <1>2 DEF Life!Create
  <1>3. ASSUME NEW e \in Id, Life!Delete(e) PROVE Kept(d)
    BY <1>3 DEF Life!Delete
  <1>4. ASSUME NEW e \in Id, NEW r \in Release, Life!Register(e, r) \/ Life!Ask(e, r) PROVE Kept(d)
    BY <1>4 DEF Life!Register, Life!Ask
  <1>5. ASSUME NEW e \in Id, NEW r \in Release, Life!Prune(e, r) PROVE Kept(d)
    BY <1>5 DEF Life!Prune
  <1>6. ASSUME NEW e \in Id, NEW r \in Release, Life!Activate(e, r) PROVE Kept(d)
    BY <1>6, NoneIsNew DEF Life!Activate
  <1>7. ASSUME NEW e \in Id, Life!Wait(e) \/ Life!Stop(e) PROVE Kept(d)
    BY <1>7 DEF Life!Wait, Life!Stop, Life!Says, Life!Vacant
  <1>8. ASSUME NEW e \in Id, Life!Begin(e) \/ Life!Settle(e) \/ Life!Fail(e) PROVE Kept(d)
    BY <1>8 DEF Life!Begin, Life!Settle, Life!Fail, Life!Says
  <1>9. ASSUME NEW e \in Id, Life!Launch(e) PROVE Kept(d)
    BY <1>9 DEF Life!Launch
  <1>10. ASSUME NEW e \in Id, Life!Clear(e) \/ Life!Forget(e) PROVE Kept(d)
    BY <1>10 DEF Life!Clear, Life!Forget
  <1> HIDE DEF Kept
  <1> QED BY <1>1, <1>2, <1>3, <1>4, <1>5, <1>6, <1>7, <1>8, <1>9, <1>10 DEF Life!Next

\* So nothing pending or stopped has a container or an active release, what runs
\* with containers has an active release, and what is queued or active is always
\* registered: retention never takes a release a deployment needs.
THEOREM PromiseIsKept == Spec => []PromiseKept
  <1>1. Life!Init => Life!Promise
    BY DEF Life!Init, Life!Promise, Life!Vacant
  <1> QED BY <1>1, PromiseStep, ImplementsItsLifecycle, PTL
          DEF ImplementsLifecycle, Life!Spec, PromiseKept
=============================================================================
