------------------------------ MODULE Packages ------------------------------
(***************************************************************************)
(* The host's packages: the catalog seeded at every start, the reconciler  *)
(* that drives each package to its desired state through apt or dnf, and   *)
(* the resync request, which writes statuses next to it.  A round works    *)
(* from the rows it listed first; the host also changes by other hands.    *)
(*                                                                         *)
(* A step is the code between two awaits.  What a handler has committed    *)
(* but not yet notified is in `calls`; a client that disconnects drops the *)
(* handler at its await.  The state_transitions log is left out.           *)
(***************************************************************************)
EXTENDS Naturals

CONSTANTS
    Package,    \* the catalog: packages with a name for this package manager
    Task,       \* the reconciler
    Request,    \* resync requests that may overlap
    None,
    Faults,     \* the kinds of fault that may happen
    MaxEdits,   \* bound: API calls
    MaxCalls,   \* bound: API calls in the air at once
    MaxFaults   \* bound: faults

Actor == {Task} \union Request

ASSUME TaskIsNoRequest == Task \notin Request
ASSUME NoneIsFresh == None \notin Package
ASSUME FaultsKnown == Faults \subseteq {"crash", "command", "probe", "write", "drop", "hand"}
ASSUME Bounds == MaxEdits \in Nat /\ MaxCalls \in Nat /\ MaxFaults \in Nat

VARIABLES
    row,        \* skirnir_packages
    names,      \* package_names: the packages that have their name
    installed,  \* what the package manager reports
    serving,    \* the API is up
    permit,     \* reconcile_notify
    calls,      \* set_desired_state committed, notify_one not yet called
    pc,         \* per actor: the await it is at
    todo,       \* per actor: the packages of its round still to be visited
    snap,       \* per actor: the rows its round listed
    cur,        \* per actor: the package it is at
    edits,
    faults

actors == <<pc, todo, snap, cur>>
vars == <<row, names, installed, serving, permit, calls, actors, edits, faults>>

DesiredState == {"installed", "removed"}
\* "pending" exists as well, and nothing ever stores it.
PackageStatus == {"installing", "installed", "failed", "removing", "removed"}
Row == [desired_state : DesiredState, status : PackageStatus]
ASSUME NoneIsNoRow == None \notin Row
Await == {"down", "seed", "probe_new", "insert", "name", "idle", "fetch", "visit",
          "probe", "sync", "begin", "mutate", "end"}

TypeOK ==
    /\ row \in [Package -> Row \union {None}]
    /\ names \subseteq {p \in Package : row[p] # None}
    /\ installed \subseteq Package
    /\ serving \in BOOLEAN /\ permit \in BOOLEAN
    /\ calls \in 0 .. MaxCalls
    /\ pc \in [Actor -> Await]
    /\ todo \in [Actor -> SUBSET Package]
    /\ snap \in [Actor -> [Package -> Row \union {None}]]
    /\ cur \in [Actor -> Package \union {None}]
    /\ edits \in 0 .. MaxEdits /\ faults \in 0 .. MaxFaults

Init ==
    /\ row = [p \in Package |-> None] /\ names = {}
    /\ installed \in SUBSET Package
    /\ serving = FALSE /\ permit = FALSE /\ calls = 0
    /\ pc = [a \in Actor |-> "down"]
    /\ todo = [a \in Actor |-> {}]
    /\ snap = [a \in Actor |-> [p \in Package |-> None]]
    /\ cur = [a \in Actor |-> None]
    /\ edits = 0 /\ faults = 0

Fault(kind) == kind \in Faults /\ faults < MaxFaults /\ faults' = faults + 1
Edit == serving /\ edits < MaxEdits /\ edits' = edits + 1

Probed(p) == IF p \in installed THEN "installed" ELSE "removed"
Settled(status) == status \in {"installed", "removed"}

\* Actor a goes on to await w.
Goto(a, w) == pc' = [pc EXCEPT ![a] = w]

\* Actor a is done with its package and looks at the next of its list.
Onwards(a) ==
    /\ pc' = [pc EXCEPT ![a] = "visit"]
    /\ todo' = [todo EXCEPT ![a] = @ \ {cur[a]}]
    /\ cur' = [cur EXCEPT ![a] = None]
    /\ snap' = [snap EXCEPT ![a][cur[a]] = None]

-----------------------------------------------------------------------------
(* Startup: seed, then a first round before anything is served             *)

Start ==
    /\ pc[Task] = "down"
    /\ Goto(Task, "seed")
    /\ todo' = [todo EXCEPT ![Task] = Package]
    /\ UNCHANGED <<row, names, installed, serving, permit, calls, snap, cur, edits, faults>>

\* The next package of CATALOG: it exists already, or its state is probed.
\* Mutant: every package is taken to exist.
SeedNext_NoInsert(p) ==
    /\ pc[Task] = "seed" /\ p \in todo[Task]
    /\ Goto(Task, "name")
    /\ cur' = [cur EXCEPT ![Task] = p]
    /\ UNCHANGED <<row, names, installed, serving, permit, calls, todo, snap, edits, faults>>
SeedNext(p) ==
    /\ pc[Task] = "seed" /\ p \in todo[Task]
    /\ Goto(Task, IF row[p] = None THEN "probe_new" ELSE "name")
    /\ cur' = [cur EXCEPT ![Task] = p]
    /\ UNCHANGED <<row, names, installed, serving, permit, calls, todo, snap, edits, faults>>

SeedProbe ==
    /\ pc[Task] = "probe_new"
    /\ LET found == Probed(cur[Task])
       IN  snap' = [snap EXCEPT ![Task][cur[Task]] = [desired_state |-> found, status |-> found]]
    /\ Goto(Task, "insert")
    /\ UNCHANGED <<row, names, installed, serving, permit, calls, todo, cur, edits, faults>>

insert_new ==
    /\ pc[Task] = "insert"
    /\ row' = [row EXCEPT ![cur[Task]] = snap[Task][cur[Task]]]
    /\ snap' = [snap EXCEPT ![Task][cur[Task]] = None]
    /\ Goto(Task, "name")
    /\ UNCHANGED <<names, installed, serving, permit, calls, todo, cur, edits, faults>>

set_name_for_manager ==
    /\ pc[Task] = "name"
    /\ names' = names \union {cur[Task]}
    /\ Goto(Task, "seed")
    /\ todo' = [todo EXCEPT ![Task] = @ \ {cur[Task]}]
    /\ cur' = [cur EXCEPT ![Task] = None]
    /\ UNCHANGED <<row, installed, serving, permit, calls, snap, edits, faults>>

\* init's own round begins; the interval and the permit play no part in it.
Seeded ==
    /\ pc[Task] = "seed" /\ todo[Task] = {}
    /\ Goto(Task, "fetch")
    /\ UNCHANGED <<row, names, installed, serving, permit, calls, todo, snap, cur, edits, faults>>

seed ==
    \/ \E p \in Package : SeedNext(p)
    \/ SeedProbe \/ insert_new \/ set_name_for_manager \/ Seeded

-----------------------------------------------------------------------------
(* A round: reconcile for the task, sync_all for a request                 *)

Notified ==
    /\ pc[Task] = "idle" /\ permit
    /\ permit' = FALSE
    /\ Goto(Task, "fetch")
    /\ UNCHANGED <<row, names, installed, serving, calls, todo, snap, cur, edits, faults>>

Tick ==
    /\ pc[Task] = "idle"
    /\ Goto(Task, "fetch")
    /\ UNCHANGED <<row, names, installed, serving, permit, calls, todo, snap, cur, edits, faults>>

fetch_all(a) ==
    /\ pc[a] = "fetch"
    /\ snap' = [snap EXCEPT ![a] = row]
    /\ todo' = [todo EXCEPT ![a] = {p \in Package : row[p] # None}]
    /\ Goto(a, "visit")
    /\ UNCHANGED <<row, names, installed, serving, permit, calls, cur, edits, faults>>

\* What reconcile does with a package whose status is known: desired as listed.
\* Mutant: a failed package is not tried again.
Due_FailedIsFinal(pkg) == Settled(pkg.status) /\ pkg.status # pkg.desired_state
Due(pkg) == pkg.status \in {"installed", "removed", "failed"} /\ pkg.status # pkg.desired_state

\* After sync, on to reconcile_one or to the next package.
AfterSync(a, p, pkg) ==
    IF a = Task /\ Due(pkg)
    THEN /\ Goto(a, "begin")
         /\ snap' = [snap EXCEPT ![a][p] = pkg]
         /\ cur' = [cur EXCEPT ![a] = p]
         /\ UNCHANGED todo
    ELSE /\ Goto(a, "visit")
         /\ todo' = [todo EXCEPT ![a] = @ \ {p}]
         /\ cur' = [cur EXCEPT ![a] = None]
         /\ snap' = [snap EXCEPT ![a][p] = None]

\* The next package of the list: skipped without a name, probed if its status
\* claims to know the host.
Visit(a, p) ==
    /\ pc[a] = "visit" /\ cur[a] = None /\ p \in todo[a]
    /\ IF p \in names /\ Settled(snap[a][p].status)
       THEN /\ Goto(a, "probe")
            /\ cur' = [cur EXCEPT ![a] = p]
            /\ UNCHANGED <<todo, snap>>
       ELSE IF p \in names THEN AfterSync(a, p, snap[a][p])
       ELSE /\ todo' = [todo EXCEPT ![a] = @ \ {p}]
            /\ snap' = [snap EXCEPT ![a][p] = None]
            /\ UNCHANGED <<pc, cur>>
    /\ UNCHANGED <<row, names, installed, serving, permit, calls, edits, faults>>

\* is_installed answers; the status to be written is kept in the copy.
is_installed(a) ==
    /\ pc[a] = "probe"
    /\ LET pkg == [snap[a][cur[a]] EXCEPT !.status = Probed(cur[a])]
       IN  IF pkg = snap[a][cur[a]]
           THEN AfterSync(a, cur[a], pkg)
           ELSE /\ Goto(a, "sync")
                /\ snap' = [snap EXCEPT ![a][cur[a]] = pkg]
                /\ UNCHANGED <<todo, cur>>
    /\ UNCHANGED <<row, names, installed, serving, permit, calls, edits, faults>>

transition(p, to) == row' = [row EXCEPT ![p].status = to]

sync(a) ==
    /\ pc[a] = "sync"
    /\ transition(cur[a], snap[a][cur[a]].status)
    /\ AfterSync(a, cur[a], snap[a][cur[a]])
    /\ UNCHANGED <<names, installed, serving, permit, calls, edits, faults>>

\* reconcile_one: the status in progress, the command, the outcome.
BeginOne ==
    /\ pc[Task] = "begin"
    /\ transition(cur[Task], IF snap[Task][cur[Task]].desired_state = "installed"
                             THEN "installing" ELSE "removing")
    /\ Goto(Task, "mutate")
    /\ UNCHANGED <<names, installed, serving, permit, calls, todo, snap, cur, edits, faults>>

\* What the command leaves behind: done, or after an error done or not.
After(p, wish) == IF wish = "installed" THEN installed \union {p} ELSE installed \ {p}

mutate ==
    /\ pc[Task] = "mutate"
    /\ LET p == cur[Task]
           wish == snap[Task][p].desired_state
       IN  \/ /\ installed' = After(p, wish)
              /\ snap' = [snap EXCEPT ![Task][p].status = wish]
              /\ UNCHANGED faults
           \/ /\ Fault("command")
              /\ installed' \in {installed, After(p, wish)}
              /\ snap' = [snap EXCEPT ![Task][p].status = "failed"]
    /\ Goto(Task, "end")
    /\ UNCHANGED <<row, names, serving, permit, calls, todo, cur, edits>>

\* Mutant: an error of the command leaves before transition_failed.
EndOne_ErrorReturns ==
    /\ pc[Task] = "end"
    /\ IF snap[Task][cur[Task]].status = "failed" THEN UNCHANGED row
       ELSE transition(cur[Task], snap[Task][cur[Task]].status)
    /\ Onwards(Task)
    /\ UNCHANGED <<names, installed, serving, permit, calls, edits, faults>>
EndOne ==
    /\ pc[Task] = "end"
    /\ transition(cur[Task], snap[Task][cur[Task]].status)
    /\ Onwards(Task)
    /\ UNCHANGED <<names, installed, serving, permit, calls, edits, faults>>

\* A probe or a write that fails is logged, and the round goes on.
VisitFails(a) ==
    /\ \/ pc[a] = "probe" /\ Fault("probe")
       \/ pc[a] \in {"sync", "begin", "end"} /\ Fault("write")
    /\ Onwards(a)
    /\ UNCHANGED <<row, names, installed, serving, permit, calls, edits>>

\* Mutant: a notification nobody waits for is lost.
notify_one_WaitersOnly == permit' = (permit \/ pc[Task] = "idle")
notify_one == permit' = TRUE

\* The list is through: a request notifies, and after its first round the
\* agent serves.
RoundDone(a) ==
    /\ pc[a] = "visit" /\ cur[a] = None /\ todo[a] = {}
    /\ Goto(a, "idle")
    /\ IF a = Task THEN serving' = TRUE /\ UNCHANGED permit
       ELSE notify_one /\ UNCHANGED serving
    /\ UNCHANGED <<row, names, installed, calls, todo, snap, cur, edits, faults>>

reconcile_one == BeginOne \/ mutate \/ EndOne

Round(a) ==
    \/ fetch_all(a)
    \/ \E p \in Package : Visit(a, p)
    \/ is_installed(a) \/ sync(a) \/ RoundDone(a)

-----------------------------------------------------------------------------
(* The API                                                                 *)

resync_packages(a) ==
    /\ Edit
    /\ a # Task /\ pc[a] \in {"down", "idle"}
    /\ Goto(a, "fetch")
    /\ UNCHANGED <<row, names, installed, serving, permit, calls, todo, snap, cur, faults>>

\* install_package and remove_package: the wish, then the notification.
set_desired_state(p, wish) ==
    /\ Edit /\ calls < MaxCalls
    /\ p \in names
    /\ row' = [row EXCEPT ![p].desired_state = wish]
    /\ calls' = calls + 1
    /\ UNCHANGED <<names, installed, serving, permit, actors, faults>>

Requested ==
    /\ calls > 0
    /\ calls' = calls - 1
    /\ notify_one
    /\ UNCHANGED <<row, names, installed, serving, actors, edits, faults>>

Idle(a) ==
    /\ todo' = [todo EXCEPT ![a] = {}]
    /\ snap' = [snap EXCEPT ![a] = [p \in Package |-> None]]
    /\ cur' = [cur EXCEPT ![a] = None]

\* The client goes away and its handler with it.
Dropped ==
    /\ Fault("drop")
    /\ \/ /\ calls > 0 /\ calls' = calls - 1
          /\ UNCHANGED actors
       \/ /\ \E a \in Request :
                /\ pc[a] \notin {"down", "idle"}
                /\ Goto(a, "idle") /\ Idle(a)
          /\ UNCHANGED calls
    /\ UNCHANGED <<row, names, installed, serving, permit, edits>>

-----------------------------------------------------------------------------
(* The environment                                                         *)

\* Somebody installs or removes a package by hand.
ByHand(p) ==
    /\ Fault("hand")
    /\ installed' \in {installed \union {p}, installed \ {p}} \ {installed}
    /\ UNCHANGED <<row, names, serving, permit, calls, actors, edits>>

\* The agent dies; a package manager it was running may finish or not.  A
\* failing seed or first listing ends the agent too.
Crash ==
    /\ pc[Task] # "down"
    /\ Fault("crash")
    /\ IF pc[Task] = "mutate"
       THEN installed' \in {installed, After(cur[Task], snap[Task][cur[Task]].desired_state)}
       ELSE UNCHANGED installed
    /\ serving' = FALSE /\ permit' = FALSE /\ calls' = 0
    /\ pc' = [a \in Actor |-> "down"]
    /\ todo' = [a \in Actor |-> {}]
    /\ snap' = [a \in Actor |-> [p \in Package |-> None]]
    /\ cur' = [a \in Actor |-> None]
    /\ UNCHANGED <<row, names, edits>>

-----------------------------------------------------------------------------

Agent == Start \/ seed \/ Notified \/ Round(Task) \/ reconcile_one

Next ==
    \/ Agent \/ Tick
    \/ \E a \in Request : Round(a) \/ resync_packages(a)
    \/ \E a \in Actor : VisitFails(a)
    \/ \E p \in Package : \/ ByHand(p)
                          \/ \E wish \in DesiredState : set_desired_state(p, wish)
    \/ Requested \/ Dropped \/ Crash

\* The agent is restarted, its task and its handlers are scheduled, and a
\* package manager's command ends.  The interval is left to the properties.
Spec ==
    /\ Init /\ [][Next]_vars
    /\ WF_vars(Agent)
    /\ \A a \in Request : WF_vars(Round(a))
    /\ WF_vars(Requested)

-----------------------------------------------------------------------------
(* Properties                                                              *)

\* A package whose status says that a command runs, while none does: neither
\* sync nor reconcile ever leaves such a status.
Orphaned(p) ==
    /\ row[p] # None /\ row[p].status \in {"installing", "removing"}
    /\ ~(cur[Task] = p /\ pc[Task] \in {"mutate", "end"})

\* However a resync writes over what the reconciler is doing, and however the
\* command ends, only a crash or a failing write leaves a package orphaned.
OrphanedOnlyByFaults ==
    [][\A p \in Package : ~Orphaned(p) /\ Orphaned(p)' => faults' # faults]_vars

\* The host is what was asked for, and the row says so.
AsWished(p) ==
    /\ p \in names
    /\ row[p].status = row[p].desired_state
    /\ Probed(p) = row[p].desired_state

\* With the interval, every package that is not orphaned ends up as wished
\* once users and faults leave it alone: a failed command is tried again, a
\* lost notification made up for, a change by hand undone, and a status that a
\* slow resync wrote from an old probe is corrected.
SettlesByTick ==
    WF_vars(Tick) => \A p \in Package : <>[](AsWished(p) \/ Orphaned(p))

\* While nothing fails the notifications alone suffice: a wish that arrives in
\* the middle of a round, or of the command for the opposite wish, is not lost.
SettlesByNotify ==
    [](faults = 0) => \A p \in Package : <>[]AsWished(p)

=============================================================================
