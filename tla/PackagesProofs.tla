--------------------------- MODULE PackagesProofs ---------------------------
(***************************************************************************)
(* Proofs about Packages: its types, and that only a crash or a failing    *)
(* write leaves a package with a command noted that does not run.          *)
(*                                                                         *)
(* What is at hand is in the snapshot, and rows never go away; so whatever *)
(* is written is written to a row that exists, and a status other than the *)
(* two in progress, however the rounds interleave.                         *)
(***************************************************************************)
EXTENDS Packages, TLAPS

AtHand == {"probe", "sync", "begin", "mutate", "end"}

\* The rows an actor still works from are of packages that exist; what the seed
\* has probed is about to.
Listed(a) ==
    \A p \in Package : snap[a][p] # None => row[p] # None \/ (pc[a] = "insert" /\ p = cur[a])

\* In a round an actor visits what it listed, and the package at hand is one of
\* these.
Rounds(a) ==
    /\ pc[a] \in AtHand \union {"visit"} => \A p \in todo[a] : snap[a][p] # None
    /\ pc[a] \in AtHand => cur[a] \in todo[a]

\* What the seed has at hand.
Seeding(a) ==
    /\ pc[a] \in {"probe_new", "insert", "name"} => cur[a] \in Package
    /\ pc[a] = "insert" => snap[a][cur[a]] # None
    /\ pc[a] = "name" => row[cur[a]] # None

\* A status about to be written tells how the host was found or how the command
\* ended.
Outcome(a) ==
    /\ pc[a] \in {"sync", "insert"} => Settled(snap[a][cur[a]].status)
    /\ pc[a] = "end" => snap[a][cur[a]].status \in {"installed", "removed", "failed"}

Works(a) == Listed(a) /\ Rounds(a) /\ Seeding(a) /\ Outcome(a)
PackagesInv == TypeOK /\ \A a \in Actor : Works(a)

\* The types, actors apart.
Rows == row \in [Package -> Row \union {None}]
Actors ==
    /\ pc \in [Actor -> Await]
    /\ todo \in [Actor -> SUBSET Package]
    /\ snap \in [Actor -> [Package -> Row \union {None}]]
    /\ cur \in [Actor -> Package \union {None}]
Others ==
    /\ names \subseteq {p \in Package : row[p] # None}
    /\ installed \subseteq Package
    /\ serving \in BOOLEAN /\ permit \in BOOLEAN
    /\ calls \in 0 .. MaxCalls
    /\ edits \in 0 .. MaxEdits /\ faults \in 0 .. MaxFaults

LEMMA TypeParts == TypeOK <=> Rows /\ Actors /\ Others
  BY DEF TypeOK, Rows, Actors, Others

-----------------------------------------------------------------------------
(* What the helpers do                                                     *)

\* No package loses its row.
Grows == \A p \in Package : row[p] # None => row'[p] # None

\* Only actor a moved.
Alone(a) ==
    \A b \in Actor \ {a} : /\ pc'[b] = pc[b] /\ todo'[b] = todo[b]
                           /\ snap'[b] = snap[b] /\ cur'[b] = cur[b]

LEMMA OthersWork ==
  ASSUME \A a \in Actor : Works(a), Grows, NEW a \in Actor, Alone(a), Works(a)'
  PROVE  \A b \in Actor : Works(b)'
  <1> SUFFICES ASSUME NEW b \in Actor, b # a PROVE Works(b)'
    OBVIOUS
  <1>1. /\ pc'[b] = pc[b] /\ todo'[b] = todo[b] /\ snap'[b] = snap[b] /\ cur'[b] = cur[b]
        /\ Works(b)
    BY DEF Alone
  <1>2. Listed(b)'
    BY <1>1 DEF Works, Listed, Grows
  <1>3. Rounds(b)' /\ Outcome(b)'
    BY <1>1 DEF Works, Rounds, Outcome
  <1>4. Seeding(b)'
    BY <1>1 DEF Works, Seeding, Grows
  <1> QED BY <1>2, <1>3, <1>4 DEF Works

LEMMA AllWork ==
  ASSUME \A a \in Actor : Works(a), Grows, UNCHANGED actors
  PROVE  \A b \in Actor : Works(b)'
  BY DEF Works, Listed, Rounds, Seeding, Outcome, Grows, actors

\* What is at hand is listed, typed and in the table.
LEMMA HandIsListed ==
  ASSUME Actors, NEW a \in Actor, Works(a), pc[a] \in AtHand
  PROVE  /\ cur[a] \in Package /\ cur[a] \in todo[a]
         /\ snap[a][cur[a]] \in Row /\ row[cur[a]] # None
  BY DEF Actors, Works, Rounds, Listed, AtHand

\* transition sets the status of one row.
LEMMA TransitionEffect ==
  ASSUME Rows, NEW p \in Package, row[p] # None, NEW to \in PackageStatus, transition(p, to)
  PROVE  /\ Rows' /\ Grows /\ \A q \in Package : q # p => row'[q] = row[q]
         /\ \A q \in Package : row'[q] # None => row[q] # None
         /\ row'[p].status = to
  <1> DEFINE new == [row[p] EXCEPT !.status = to]
  <1>1. row[p] \in Row
    BY DEF Rows
  <1>2. new \in Row /\ new.status = to
    BY <1>1 DEF Row
  <1>3. row' = [row EXCEPT ![p] = new]
    BY DEF transition
  <1> HIDE DEF new
  <1> QED BY <1>2, <1>3, NoneIsNoRow DEF Rows, Grows

\* Onwards drops the package at hand from the round.
LEMMA OnwardsEffect ==
  ASSUME Actors, NEW a \in Actor, Works(a), pc[a] \in AtHand, Onwards(a), Grows
  PROVE  Actors' /\ Alone(a) /\ Works(a)'
  <1>1. cur[a] \in Package
    BY HandIsListed
  <1> DEFINE p == cur[a]
             done == [snap[a] EXCEPT ![p] = None]
  <1>2. /\ done \in [Package -> Row \union {None}] /\ done[p] = None
        /\ \A q \in Package : q # p => done[q] = snap[a][q]
    BY <1>1 DEF Actors
  <1>3. /\ pc' = [pc EXCEPT ![a] = "visit"] /\ todo' = [todo EXCEPT ![a] = @ \ {p}]
        /\ cur' = [cur EXCEPT ![a] = None] /\ snap' = [snap EXCEPT ![a] = done]
    BY DEF Onwards
  <1> HIDE DEF p, done
  <1>4. Actors' /\ Alone(a)
    BY <1>2, <1>3 DEF Actors, Alone, Await
  <1>5. /\ pc'[a] = "visit" /\ todo'[a] = todo[a] \ {p} /\ cur'[a] = None /\ snap'[a] = done
    BY <1>3 DEF Actors
  <1>6. todo[a] \subseteq Package
    BY DEF Actors
  <1>7. Listed(a)'
    BY <1>2, <1>5 DEF Works, Listed, Grows, AtHand
  <1>8. Rounds(a)'
    BY <1>2, <1>5, <1>6 DEF Works, Rounds, AtHand
  <1> QED BY <1>4, <1>5, <1>7, <1>8 DEF Works, Seeding, Outcome

\* AfterSync keeps the package at hand, with a status that is due, or drops it.
LEMMA AfterSyncEffect ==
  ASSUME Actors, NEW a \in Actor, Works(a), pc[a] \in AtHand \union {"visit"},
         NEW p \in todo[a], NEW pkg \in Row, AfterSync(a, p, pkg), Grows
  PROVE  Actors' /\ Alone(a) /\ Works(a)'
  <1>1. /\ p \in Package /\ todo[a] \subseteq Package
        /\ \A q \in todo[a] : snap[a][q] # None /\ row[q] # None
        /\ \A q \in Package : snap[a][q] # None => row[q] # None
    BY DEF Actors, Works, Rounds, Listed, AtHand
  <1>2. CASE a = Task /\ Due(pkg)
    <2> DEFINE kept == [snap[a] EXCEPT ![p] = pkg]
    <2>1. /\ kept \in [Package -> Row \union {None}] /\ kept[p] = pkg
          /\ \A q \in Package : q # p => kept[q] = snap[a][q]
      BY <1>1 DEF Actors
    <2>2. /\ pc' = [pc EXCEPT ![a] = "begin"] /\ todo' = todo
          /\ cur' = [cur EXCEPT ![a] = p] /\ snap' = [snap EXCEPT ![a] = kept]
      BY <1>2 DEF AfterSync, Goto
    <2> HIDE DEF kept
    <2>3. Actors' /\ Alone(a)
      BY <1>1, <2>1, <2>2 DEF Actors, Alone, Await
    <2>4. pc'[a] = "begin" /\ todo'[a] = todo[a] /\ cur'[a] = p /\ snap'[a] = kept
      BY <2>2 DEF Actors
    <2>5. Listed(a)'
      BY <1>1, <2>1, <2>4 DEF Listed, Grows
    <2>6. Rounds(a)'
      BY <1>1, <2>1, <2>4, NoneIsNoRow DEF Rounds, AtHand
    <2> QED BY <2>3, <2>4, <2>5, <2>6 DEF Works, Seeding, Outcome
  <1>3. CASE ~(a = Task /\ Due(pkg))
    <2> DEFINE done == [snap[a] EXCEPT ![p] = None]
    <2>1. /\ done \in [Package -> Row \union {None}] /\ done[p] = None
          /\ \A q \in Package : q # p => done[q] = snap[a][q]
      BY <1>1 DEF Actors
    <2>2. /\ pc' = [pc EXCEPT ![a] = "visit"] /\ todo' = [todo EXCEPT ![a] = @ \ {p}]
          /\ cur' = [cur EXCEPT ![a] = None] /\ snap' = [snap EXCEPT ![a] = done]
      BY <1>3 DEF AfterSync, Goto
    <2> HIDE DEF done
    <2>3. Actors' /\ Alone(a)
      BY <1>1, <2>1, <2>2 DEF Actors, Alone, Await
    <2>4. /\ pc'[a] = "visit" /\ todo'[a] = todo[a] \ {p}
          /\ cur'[a] = None /\ snap'[a] = done
      BY <2>2 DEF Actors
    <2>5. Listed(a)'
      BY <1>1, <2>1, <2>4 DEF Listed, Grows
    <2>6. Rounds(a)'
      BY <1>1, <2>1, <2>4 DEF Rounds, AtHand
    <2> QED BY <2>3, <2>4, <2>5, <2>6 DEF Works, Seeding, Outcome
  <1> QED BY <1>2, <1>3

\* An actor goes on, and touches no more of its own than the snapshot of the
\* package at hand.
LEMMA GotoEffect ==
  ASSUME Actors, NEW a \in Actor, NEW w \in Await, Goto(a, w), todo' = todo, cur' = cur,
         NEW kept \in [Package -> Row \union {None}], snap' = [snap EXCEPT ![a] = kept]
  PROVE  /\ Actors' /\ Alone(a) /\ pc'[a] = w /\ todo'[a] = todo[a] /\ cur'[a] = cur[a]
         /\ snap'[a] = kept
  BY DEF Actors, Alone, Goto

LEMMA GotoOnly ==
  ASSUME Actors, NEW a \in Actor, NEW w \in Await, Goto(a, w), UNCHANGED <<todo, cur, snap>>
  PROVE  /\ Actors' /\ Alone(a) /\ pc'[a] = w /\ todo'[a] = todo[a] /\ cur'[a] = cur[a]
         /\ snap'[a] = snap[a]
  BY DEF Actors, Alone, Goto
-----------------------------------------------------------------------------
(* Every step                                                              *)

LEMMA TaskIsActor == Task \in Actor /\ \A a \in Request : a \in Actor
  BY DEF Actor

\* What is written is of the type of a row, and to a package that has one or, by
\* the seed, has none yet.
LEMMA RowsGrow ==
  ASSUME PackagesInv, [Next]_vars
  PROVE  Rows' /\ Grows
  <1>0. Rows /\ Actors /\ \A a \in Actor : Works(a)
    BY TypeParts DEF PackagesInv
  <1>1. CASE insert_new
    <2> DEFINE p == cur[Task]
               new == snap[Task][p]
    <2>1. p \in Package /\ new \in Row
      BY <1>0, <1>1, TaskIsActor DEF insert_new, Actors, Works, Seeding
    <2>2. row' = [row EXCEPT ![p] = new]
      BY <1>1 DEF insert_new
    <2> HIDE DEF p, new
    <2> QED BY <1>0, <2>1, <2>2, NoneIsNoRow DEF Rows, Grows
  <1>2. ASSUME NEW a \in Actor, sync(a) PROVE Rows' /\ Grows
    <2>1. pc[a] = "sync" /\ transition(cur[a], snap[a][cur[a]].status)
      BY <1>2 DEF sync
    <2>2. cur[a] \in Package /\ row[cur[a]] # None /\ snap[a][cur[a]] \in Row
      BY <1>0, <2>1, HandIsListed DEF AtHand
    <2>3. snap[a][cur[a]].status \in PackageStatus
      BY <2>2 DEF Row
    <2> QED BY <1>0, <2>1, <2>2, <2>3, TransitionEffect
  <1>3. CASE BeginOne
    <2> DEFINE to == IF snap[Task][cur[Task]].desired_state = "installed"
                     THEN "installing" ELSE "removing"
    <2>1. pc[Task] = "begin" /\ transition(cur[Task], to) /\ to \in PackageStatus
      BY <1>3 DEF BeginOne, PackageStatus
    <2> HIDE DEF to
    <2>2. cur[Task] \in Package /\ row[cur[Task]] # None
      BY <1>0, <2>1, HandIsListed, TaskIsActor DEF AtHand
    <2> QED BY <1>0, <2>1, <2>2, TransitionEffect
  <1>4. CASE EndOne
    <2>1. pc[Task] = "end" /\ transition(cur[Task], snap[Task][cur[Task]].status)
      BY <1>4 DEF EndOne
    <2>2. /\ cur[Task] \in Package /\ row[cur[Task]] # None
          /\ snap[Task][cur[Task]] \in Row
      BY <1>0, <2>1, HandIsListed, TaskIsActor DEF AtHand
    <2>3. snap[Task][cur[Task]].status \in PackageStatus
      BY <2>2 DEF Row
    <2> QED BY <1>0, <2>1, <2>2, <2>3, TransitionEffect
  <1>5. ASSUME NEW p \in Package, NEW wish \in DesiredState, set_desired_state(p, wish)
        PROVE  Rows' /\ Grows
    <2> DEFINE new == [row[p] EXCEPT !.desired_state = wish]
    <2>1. new \in Row
      <3>1. row[p] \in Row
        BY <1>0, <1>5, TypeParts DEF PackagesInv, Others, Rows, set_desired_state
      <3> QED BY <3>1 DEF Row
    <2>2. row' = [row EXCEPT ![p] = new]
      BY <1>5 DEF set_desired_state
    <2> HIDE DEF new
    <2> QED BY <1>0, <2>1, <2>2, NoneIsNoRow DEF Rows, Grows
  <1>6. CASE UNCHANGED row
    BY <1>0, <1>6 DEF Rows, Grows
  <1>7. CASE \/ UNCHANGED vars \/ Start \/ SeedProbe \/ set_name_for_manager \/ Seeded
             \/ Notified \/ Tick \/ mutate \/ Requested \/ Dropped \/ Crash
             \/ \E p \in Package : SeedNext(p) \/ ByHand(p)
             \/ \E a \in Actor :
                   \/ fetch_all(a) \/ is_installed(a) \/ RoundDone(a) \/ VisitFails(a)
                   \/ resync_packages(a) \/ \E p \in Package : Visit(a, p)
    BY <1>6, <1>7 DEF vars, Start, SeedProbe, set_name_for_manager, Seeded, Notified, Tick, mutate,
           Requested, Dropped, Crash, SeedNext, ByHand, fetch_all, is_installed, RoundDone,
           VisitFails, resync_packages, Visit
  <1> QED BY <1>1, <1>2, <1>3, <1>4, <1>5, <1>7, TaskIsActor
          DEF Next, Agent, seed, Round, reconcile_one

\* The catalog's names are of packages with a row, and the bounds hold.
LEMMA OthersNext ==
  ASSUME PackagesInv, [Next]_vars, Grows
  PROVE  Others'
  <1>0. Rows /\ Actors /\ Others /\ \A a \in Actor : Works(a)
    BY TypeParts DEF PackagesInv
  <1> DEFINE Named == names \subseteq {p \in Package : row[p] # None}
             Host == installed \subseteq Package
             Counts == /\ serving \in BOOLEAN /\ permit \in BOOLEAN
                       /\ calls \in 0 .. MaxCalls
                       /\ edits \in 0 .. MaxEdits /\ faults \in 0 .. MaxFaults
  <1>1. Named'
    <2>1. CASE UNCHANGED names
      BY <1>0, <2>1 DEF Others, Grows
    <2>2. CASE set_name_for_manager
      <3>1. cur[Task] \in Package /\ row[cur[Task]] # None
        BY <1>0, <2>2, TaskIsActor DEF set_name_for_manager, Works, Seeding
      <3> QED BY <1>0, <2>2, <3>1 DEF Others, Grows, set_name_for_manager
    <2> QED BY <2>1, <2>2
            DEF Next, Agent, seed, Round, reconcile_one, vars, Start, SeedProbe, Seeded, Notified,
                Tick, mutate, Requested, Dropped, Crash, SeedNext, ByHand, fetch_all,
                is_installed, RoundDone, VisitFails, resync_packages, Visit, insert_new, sync,
                BeginOne, EndOne, set_desired_state
  <1>2. Host'
    <2>1. CASE UNCHANGED installed
      BY <1>0, <2>1 DEF Others
    <2>2. ASSUME NEW p \in Package, ByHand(p) PROVE Host'
      BY <1>0, <2>2 DEF Others, ByHand
    <2>3. CASE mutate \/ (Crash /\ pc[Task] = "mutate")
      <3>1. cur[Task] \in Package
        BY <1>0, <2>3, HandIsListed, TaskIsActor DEF mutate, AtHand
      <3> QED BY <1>0, <2>3, <3>1 DEF Others, mutate, Crash, After
    <2>4. CASE Crash /\ pc[Task] # "mutate"
      BY <2>1, <2>4 DEF Crash
    <2> QED BY <2>1, <2>2, <2>3, <2>4
            DEF Next, Agent, seed, Round, reconcile_one, vars, Start, SeedProbe, Seeded, Notified,
                Tick, set_name_for_manager, Requested, Dropped, SeedNext, fetch_all,
                is_installed, RoundDone, VisitFails, resync_packages, Visit, insert_new, sync,
                BeginOne, EndOne, set_desired_state
  <1>3. Counts'
    <2>1. /\ faults' = faults \/ \E kind : Fault(kind)
          /\ edits' = edits \/ Edit
      BY DEF Next, Agent, seed, Round, reconcile_one, vars, Start, SeedProbe, Seeded, Notified, Tick,
              mutate, Requested, Dropped, Crash, SeedNext, ByHand, fetch_all, is_installed,
              RoundDone, VisitFails, resync_packages, Visit, insert_new, sync, BeginOne, EndOne,
              set_desired_state, set_name_for_manager
    <2>2. \/ calls' = calls \/ calls' = 0
          \/ calls > 0 /\ calls' = calls - 1
          \/ calls < MaxCalls /\ calls' = calls + 1
      BY DEF Next, Agent, seed, Round, reconcile_one, vars, Start, SeedProbe, Seeded, Notified, Tick,
              mutate, Requested, Dropped, Crash, SeedNext, ByHand, fetch_all, is_installed,
              RoundDone, VisitFails, resync_packages, Visit, insert_new, sync, BeginOne, EndOne,
              set_desired_state, set_name_for_manager
    <2>3. /\ serving' = serving \/ serving' \in BOOLEAN
          /\ permit' = permit \/ permit' \in BOOLEAN
      BY DEF Next, Agent, seed, Round, reconcile_one, vars, Start, SeedProbe, Seeded, Notified, Tick,
              mutate, Requested, Dropped, Crash, SeedNext, ByHand, fetch_all, is_installed,
              RoundDone, VisitFails, resync_packages, Visit, insert_new, sync, BeginOne, EndOne,
              set_desired_state, set_name_for_manager, notify_one
    <2>4. faults' \in 0 .. MaxFaults /\ edits' \in 0 .. MaxEdits
      BY <1>0, <2>1, Bounds DEF Others, Fault, Edit
    <2>5. calls' \in 0 .. MaxCalls
      BY <1>0, <2>2, Bounds DEF Others
    <2> QED BY <1>0, <2>3, <2>4, <2>5 DEF Others
  <1> QED BY <1>1, <1>2, <1>3 DEF Others
\* The seed's steps.
LEMMA SeedWorks ==
  ASSUME Rows, Actors, Works(Task), Start \/ seed, Rows', Grows
  PROVE  Actors' /\ Alone(Task) /\ Works(Task)'
  <1>0. Task \in Actor
    BY TaskIsActor
  <1>1. CASE Start
    <2>1. Actors' /\ Alone(Task)
      BY <1>0, <1>1 DEF Start, Goto, Actors, Alone, Await
    <2>2. pc'[Task] = "seed" /\ snap'[Task] = snap[Task] /\ pc[Task] = "down"
      BY <1>0, <1>1 DEF Start, Goto, Actors
    <2> QED BY <2>1, <2>2 DEF Works, Listed, Rounds, Seeding, Outcome, Grows, AtHand
  <1>2. ASSUME NEW p \in Package, SeedNext(p) PROVE Actors' /\ Alone(Task) /\ Works(Task)'
    <2>1. Actors' /\ Alone(Task)
      BY <1>0, <1>2 DEF SeedNext, Goto, Actors, Alone, Await
    <2>2. /\ pc'[Task] = IF row[p] = None THEN "probe_new" ELSE "name"
          /\ snap'[Task] = snap[Task] /\ pc[Task] = "seed" /\ cur'[Task] = p /\ row' = row
      BY <1>0, <1>2 DEF SeedNext, Goto, Actors
    <2> QED BY <2>1, <2>2 DEF Works, Listed, Rounds, Seeding, Outcome, AtHand
  <1>3. CASE SeedProbe
    <2> DEFINE p == cur[Task]
               new == [desired_state |-> Probed(p), status |-> Probed(p)]
               kept == [snap[Task] EXCEPT ![p] = new]
    <2>1. p \in Package /\ pc[Task] = "probe_new" /\ p = cur[Task]
      BY <1>3 DEF SeedProbe, Works, Seeding
    <2>2. new \in Row /\ Settled(new.status)
      BY DEF Row, Probed, DesiredState, PackageStatus, Settled
    <2>3. snap' = [snap EXCEPT ![Task] = kept]
      BY <1>3 DEF SeedProbe
    <2>4. Goto(Task, "insert") /\ UNCHANGED <<todo, cur, row>>
      BY <1>3 DEF SeedProbe
    <2> HIDE DEF new, p
    <2>5. /\ kept \in [Package -> Row \union {None}] /\ kept[p] = new
          /\ \A q \in Package : q # p => kept[q] = snap[Task][q]
      BY <1>0, <2>1, <2>2 DEF Actors
    <2> HIDE DEF kept
    <2>6. /\ Actors' /\ Alone(Task) /\ pc'[Task] = "insert" /\ cur'[Task] = p
          /\ todo'[Task] = todo[Task] /\ snap'[Task] = kept
      BY <1>0, <2>1, <2>3, <2>4, <2>5, GotoEffect DEF Await
    <2> QED BY <2>1, <2>2, <2>4, <2>5, <2>6, NoneIsNoRow
            DEF Works, Listed, Rounds, Seeding, Outcome, AtHand
  <1>4. CASE insert_new
    <2> DEFINE p == cur[Task]
               kept == [snap[Task] EXCEPT ![p] = None]
    <2>1. p \in Package /\ snap[Task][p] # None /\ pc[Task] = "insert" /\ p = cur[Task]
      BY <1>4 DEF insert_new, Works, Seeding
    <2>2. row'[p] = snap[Task][p]
      BY <1>4, <2>1 DEF insert_new, Rows
    <2>3. snap' = [snap EXCEPT ![Task] = kept] /\ Goto(Task, "name") /\ UNCHANGED <<todo, cur>>
      BY <1>4 DEF insert_new
    <2> HIDE DEF p
    <2>4. /\ kept \in [Package -> Row \union {None}] /\ kept[p] = None
          /\ \A q \in Package : q # p => kept[q] = snap[Task][q]
      BY <1>0, <2>1 DEF Actors
    <2> HIDE DEF kept
    <2>5. /\ Actors' /\ Alone(Task) /\ pc'[Task] = "name" /\ cur'[Task] = p
          /\ todo'[Task] = todo[Task] /\ snap'[Task] = kept
      BY <1>0, <2>1, <2>3, <2>4, GotoEffect DEF Await
    <2> QED BY <2>1, <2>2, <2>4, <2>5
            DEF Works, Listed, Rounds, Seeding, Outcome, AtHand, Grows
  <1>5. CASE set_name_for_manager
    <2>1. Actors' /\ Alone(Task)
      BY <1>0, <1>5 DEF set_name_for_manager, Goto, Actors, Alone, Await
    <2>2. pc'[Task] = "seed" /\ snap'[Task] = snap[Task] /\ pc[Task] = "name"
      BY <1>0, <1>5 DEF set_name_for_manager, Goto, Actors
    <2> QED BY <2>1, <2>2 DEF Works, Listed, Rounds, Seeding, Outcome, Grows, AtHand
  <1>6. CASE Seeded
    <2>1. Goto(Task, "fetch") /\ UNCHANGED <<todo, cur, snap>> /\ pc[Task] = "seed"
      BY <1>6 DEF Seeded
    <2>2. /\ Actors' /\ Alone(Task) /\ pc'[Task] = "fetch" /\ snap'[Task] = snap[Task]
      BY <1>0, <2>1, GotoOnly DEF Await
    <2> QED BY <2>1, <2>2 DEF Works, Listed, Rounds, Seeding, Outcome, Grows, AtHand
  <1> QED BY <1>1, <1>2, <1>3, <1>4, <1>5, <1>6 DEF seed

\* The steps of a round, and into one.
LEMMA RoundWorks ==
  ASSUME Rows, Actors, NEW a \in Actor, Works(a), Rows', Grows,
         \/ Round(a) \/ VisitFails(a) \/ resync_packages(a)
         \/ a = Task /\ (Notified \/ Tick \/ reconcile_one)
  PROVE  Actors' /\ Alone(a) /\ Works(a)'
  <1> DEFINE Fine == Actors' /\ Alone(a) /\ Works(a)'
  <1>1. ASSUME NEW w \in {"fetch", "idle"}, Goto(a, w), UNCHANGED <<todo, cur, snap>>,
               pc[a] \in {"down", "idle", "visit"}
        PROVE  Fine
    <2>1. Actors' /\ Alone(a) /\ pc'[a] = w /\ snap'[a] = snap[a]
      BY <1>1, GotoOnly DEF Await
    <2> QED BY <1>1, <2>1 DEF Works, Listed, Rounds, Seeding, Outcome, Grows, AtHand
  <1>2. CASE RoundDone(a) \/ resync_packages(a) \/ (a = Task /\ (Notified \/ Tick))
    BY <1>1, <1>2 DEF RoundDone, resync_packages, Notified, Tick
  <1>3. CASE fetch_all(a)
    <2>1. Actors' /\ Alone(a)
      BY <1>3 DEF fetch_all, Goto, Actors, Alone, Rows, Await
    <2>2. /\ pc'[a] = "visit" /\ snap'[a] = row /\ row' = row
          /\ todo'[a] = {p \in Package : row[p] # None}
      BY <1>3 DEF fetch_all, Goto, Actors
    <2> QED BY <2>1, <2>2 DEF Works, Listed, Rounds, Seeding, Outcome, AtHand
  <1>4. ASSUME NEW p \in Package, Visit(a, p) PROVE Fine
    <2>1. pc[a] = "visit" /\ p \in todo[a] /\ row' = row
      BY <1>4 DEF Visit
    <2>2. snap[a][p] # None /\ snap[a][p] \in Row
      BY <2>1 DEF Works, Rounds, Actors
    <2>3. CASE p \in names /\ Settled(snap[a][p].status)
      <3>1. Goto(a, "probe") /\ cur' = [cur EXCEPT ![a] = p] /\ UNCHANGED <<todo, snap>>
        BY <1>4, <2>3 DEF Visit
      <3>2. /\ Actors' /\ Alone(a) /\ pc'[a] = "probe" /\ cur'[a] = p
            /\ todo'[a] = todo[a] /\ snap'[a] = snap[a]
        BY <3>1 DEF Goto, Actors, Alone, Await
      <3> QED BY <2>1, <3>2 DEF Works, Listed, Rounds, Seeding, Outcome, AtHand
    <2>4. CASE p \in names /\ ~Settled(snap[a][p].status)
      <3>1. AfterSync(a, p, snap[a][p])
        BY <1>4, <2>4 DEF Visit
      <3> QED BY <2>1, <2>2, <3>1, AfterSyncEffect DEF AtHand
    <2>5. CASE p \notin names
      <3> DEFINE done == [snap[a] EXCEPT ![p] = None]
      <3>1. /\ done \in [Package -> Row \union {None}] /\ done[p] = None
            /\ \A q \in Package : q # p => done[q] = snap[a][q]
        BY DEF Actors
      <3>2. /\ todo' = [todo EXCEPT ![a] = @ \ {p}] /\ snap' = [snap EXCEPT ![a] = done]
            /\ UNCHANGED <<pc, cur>>
        BY <1>4, <2>5 DEF Visit
      <3> HIDE DEF done
      <3>3. Actors' /\ Alone(a)
        BY <3>1, <3>2 DEF Actors, Alone
      <3>4. todo'[a] = todo[a] \ {p} /\ snap'[a] = done /\ todo[a] \subseteq Package
        BY <3>2 DEF Actors
      <3> QED BY <2>1, <3>1, <3>2, <3>3, <3>4
              DEF Works, Listed, Rounds, Seeding, Outcome, AtHand
    <2> QED BY <2>3, <2>4, <2>5
  <1>5. CASE is_installed(a)
    <2> DEFINE p == cur[a]
               new == [snap[a][p] EXCEPT !.status = Probed(p)]
               kept == [snap[a] EXCEPT ![p] = new]
    <2>1. /\ pc[a] = "probe" /\ row' = row
          /\ p \in Package /\ p \in todo[a] /\ snap[a][p] \in Row /\ p = cur[a]
      BY <1>5, HandIsListed DEF is_installed, AtHand
    <2>2. new \in Row /\ Settled(new.status)
      BY <2>1 DEF Row, Probed, PackageStatus, Settled
    <2>3. CASE AfterSync(a, p, new)
      BY <2>1, <2>2, <2>3, AfterSyncEffect DEF AtHand
    <2>4. CASE Goto(a, "sync") /\ snap' = [snap EXCEPT ![a] = kept] /\ UNCHANGED <<todo, cur>>
      <3> HIDE DEF new, p
      <3>1. /\ kept \in [Package -> Row \union {None}] /\ kept[p] = new
            /\ \A q \in Package : q # p => kept[q] = snap[a][q]
        BY <2>1, <2>2 DEF Actors
      <3> HIDE DEF kept
      <3>2. /\ Actors' /\ Alone(a) /\ pc'[a] = "sync" /\ cur'[a] = p
            /\ todo'[a] = todo[a] /\ snap'[a] = kept
        BY <2>1, <2>4, <3>1, GotoEffect DEF Await
      <3>3. todo[a] \subseteq Package
        BY DEF Actors
      <3> QED BY <2>1, <2>2, <3>1, <3>2, <3>3, NoneIsNoRow
              DEF Works, Listed, Rounds, Seeding, Outcome, AtHand
    <2> QED BY <1>5, <2>3, <2>4 DEF is_installed
  <1>6. CASE sync(a)
    <2>1. pc[a] = "sync" /\ AfterSync(a, cur[a], snap[a][cur[a]])
      BY <1>6 DEF sync
    <2>2. cur[a] \in todo[a] /\ snap[a][cur[a]] \in Row
      BY <2>1, HandIsListed DEF AtHand
    <2> QED BY <2>1, <2>2, AfterSyncEffect DEF AtHand
  <1>7. CASE VisitFails(a) \/ (a = Task /\ EndOne)
    BY <1>7, OnwardsEffect DEF VisitFails, EndOne, AtHand
  <1>8. CASE a = Task /\ BeginOne
    <2>1. Goto(a, "mutate") /\ UNCHANGED <<todo, cur, snap>> /\ pc[a] = "begin"
      BY <1>8 DEF BeginOne
    <2>2. /\ Actors' /\ Alone(a) /\ pc'[a] = "mutate" /\ snap'[a] = snap[a]
          /\ todo'[a] = todo[a] /\ cur'[a] = cur[a]
      BY <2>1, GotoOnly DEF Await
    <2> QED BY <2>1, <2>2 DEF Works, Listed, Rounds, Seeding, Outcome, Grows, AtHand
  <1>9. CASE a = Task /\ mutate
    <2> DEFINE p == cur[a]
    <2>1. /\ pc[a] = "mutate" /\ Goto(a, "end") /\ UNCHANGED <<row, todo, cur>>
          /\ p \in Package /\ snap[a][p] \in Row /\ p = cur[a]
      BY <1>9, HandIsListed DEF mutate, AtHand
    <2>2. PICK to \in {"installed", "removed", "failed"} : snap' = [snap EXCEPT ![a][p].status = to]
      BY <1>9, <2>1 DEF mutate, Row, DesiredState
    <2> DEFINE new == [snap[a][p] EXCEPT !.status = to]
               kept == [snap[a] EXCEPT ![p] = new]
    <2>3. new \in Row /\ new.status = to
      BY <2>1 DEF Row, PackageStatus
    <2>4. snap' = [snap EXCEPT ![a] = kept]
      BY <2>2
    <2> HIDE DEF new, p
    <2>5. /\ kept \in [Package -> Row \union {None}] /\ kept[p] = new
          /\ \A q \in Package : q # p => kept[q] = snap[a][q]
      BY <2>1, <2>3 DEF Actors
    <2> HIDE DEF kept
    <2>6. /\ Actors' /\ Alone(a) /\ pc'[a] = "end" /\ cur'[a] = p
          /\ todo'[a] = todo[a] /\ snap'[a] = kept
      BY <2>1, <2>4, <2>5, GotoEffect DEF Await
    <2>7. todo[a] \subseteq Package
      BY DEF Actors
    <2> QED BY <2>1, <2>3, <2>5, <2>6, <2>7, NoneIsNoRow
            DEF Works, Listed, Rounds, Seeding, Outcome, AtHand
  <1> QED BY <1>2, <1>3, <1>4, <1>5, <1>6, <1>7, <1>8, <1>9 DEF Round, reconcile_one

\* An actor that is sent away starts from nothing.
LEMMA IdleWorks ==
  ASSUME Actors, NEW a \in Actor, Goto(a, "idle"), Idle(a), UNCHANGED row
  PROVE  Actors' /\ Alone(a) /\ Works(a)'
  <1> DEFINE none == [p \in Package |-> None]
  <1>1. none \in [Package -> Row \union {None}] /\ \A p \in Package : none[p] = None
    OBVIOUS
  <1>2. snap' = [snap EXCEPT ![a] = none]
    BY DEF Idle
  <1> HIDE DEF none
  <1>3. Actors' /\ Alone(a)
    BY <1>1, <1>2 DEF Idle, Goto, Actors, Alone, Await
  <1>4. pc'[a] = "idle" /\ snap'[a] = none
    BY <1>2 DEF Goto, Actors
  <1> QED BY <1>1, <1>3, <1>4 DEF Works, Listed, Rounds, Seeding, Outcome, AtHand

LEMMA CrashWorks ==
  ASSUME Crash
  PROVE  Actors' /\ \A a \in Actor : Works(a)'
  BY DEF Crash, Actors, Await, Works, Listed, Rounds, Seeding, Outcome, AtHand

LEMMA ActorsNext ==
  ASSUME PackagesInv, [Next]_vars, Rows', Grows
  PROVE  Actors' /\ \A a \in Actor : Works(a)'
  <1>0. Rows /\ Actors /\ \A a \in Actor : Works(a)
    BY TypeParts DEF PackagesInv
  <1> DEFINE Fine(a) == Actors' /\ Alone(a) /\ Works(a)'
  <1>1. ASSUME NEW a \in Actor, Fine(a) PROVE Actors' /\ \A b \in Actor : Works(b)'
    BY <1>0, <1>1, OthersWork
  <1>2. CASE UNCHANGED actors
    BY <1>0, <1>2, AllWork DEF Actors, actors
  <1>3. CASE Start \/ seed
    BY <1>0, <1>1, <1>3, SeedWorks, TaskIsActor
  <1>4. ASSUME NEW a \in Actor, \/ Round(a) \/ VisitFails(a) \/ resync_packages(a)
                                \/ a = Task /\ (Notified \/ Tick \/ reconcile_one)
        PROVE  Actors' /\ \A b \in Actor : Works(b)'
    <2>1. Fine(a)
      BY <1>0, <1>4, RoundWorks
    <2> QED BY <1>1, <2>1
  <1>5. ASSUME NEW a \in Request, Goto(a, "idle"), Idle(a), UNCHANGED row
        PROVE  Actors' /\ \A b \in Actor : Works(b)'
    <2>1. Fine(a)
      BY <1>0, <1>5, IdleWorks, TaskIsActor
    <2> QED BY <1>1, <2>1, TaskIsActor
  <1>6. CASE Dropped
    BY <1>2, <1>5, <1>6 DEF Dropped
  <1>7. CASE Crash
    BY <1>7, CrashWorks
  <1>8. CASE \/ UNCHANGED vars \/ Requested
             \/ \E p \in Package : ByHand(p) \/ \E wish \in DesiredState : set_desired_state(p, wish)
    BY <1>2, <1>8 DEF vars, Requested, ByHand, set_desired_state
  <1> QED BY <1>3, <1>4, <1>6, <1>7, <1>8, TaskIsActor DEF Next, Agent

LEMMA PackagesInit == Init => PackagesInv
  <1> SUFFICES ASSUME Init PROVE PackagesInv
    OBVIOUS
  <1>1. Rows
    BY DEF Init, Rows
  <1>2. Actors
    BY DEF Init, Actors, Await
  <1>3. Others
    <2>1. serving \in BOOLEAN /\ permit \in BOOLEAN
      BY DEF Init
    <2>2. names = {} /\ installed \subseteq Package
      BY DEF Init
    <2>3. calls \in 0 .. MaxCalls /\ edits \in 0 .. MaxEdits /\ faults \in 0 .. MaxFaults
      BY Bounds DEF Init
    <2> QED BY <2>1, <2>2, <2>3 DEF Others
  <1>4. \A a \in Actor : Works(a)
    BY DEF Init, Works, Listed, Rounds, Seeding, Outcome, AtHand
  <1> QED BY <1>1, <1>2, <1>3, <1>4, TypeParts DEF PackagesInv

LEMMA PackagesInductive == Spec => []PackagesInv
  <1>1. PackagesInv /\ [Next]_vars => PackagesInv'
    BY RowsGrow, OthersNext, ActorsNext, TypeParts DEF PackagesInv, TypeOK, Rows, Actors, Others
  <1> QED BY <1>1, PackagesInit, PTL DEF Spec

\* The tables, the actors and what they work from keep their types: nothing is
\* written to a package without a row, whatever the rounds were made from.
THEOREM PackagesTypeCorrect == Spec => []TypeOK
  <1>1. PackagesInv => TypeOK
    BY DEF PackagesInv
  <1> QED BY <1>1, PackagesInductive, PTL
-----------------------------------------------------------------------------
(* Only crashes and failing writes leave a package orphaned                *)

Mutating == {"installing", "removing"}

\* A status in progress is newly written by reconcile_one alone, which is then
\* at the command.
LEMMA BegunByTask ==
  ASSUME PackagesInv, [Next]_vars, NEW p \in Package,
         row'[p] # None, row'[p].status \in Mutating
  PROVE  \/ row[p] # None /\ row[p].status \in Mutating /\ ~(EndOne /\ cur[Task] = p)
         \/ cur'[Task] = p /\ pc'[Task] = "mutate"
  <1>0. Rows /\ Actors /\ Others /\ \A a \in Actor : Works(a)
    BY TypeParts DEF PackagesInv
  <1> DEFINE Goal == \/ row[p] # None /\ row[p].status \in Mutating /\ ~(EndOne /\ cur[Task] = p)
                     \/ cur'[Task] = p /\ pc'[Task] = "mutate"
  <1>1. ASSUME NEW a \in Actor, pc[a] \in AtHand, NEW to \in PackageStatus,
               transition(cur[a], to)
        PROVE  /\ cur[a] # p => row'[p] = row[p]
               /\ cur[a] = p => to \in Mutating
    BY <1>0, <1>1, HandIsListed, TransitionEffect
  <1>2. ASSUME NEW a \in Actor, sync(a) PROVE Goal
    <2>1. /\ pc[a] \in AtHand /\ transition(cur[a], snap[a][cur[a]].status)
          /\ Settled(snap[a][cur[a]].status)
      BY <1>0, <1>2 DEF sync, AtHand, Works, Outcome
    <2>2. cur[a] # p /\ row'[p] = row[p]
      BY <1>1, <2>1 DEF Settled, Mutating, PackageStatus
    <2>3. ~EndOne \/ a = Task
      <3>1. ASSUME EndOne, a # Task PROVE FALSE
        BY <1>0, <1>2, <3>1, TaskIsActor DEF EndOne, Onwards, sync, AfterSync, Goto, Actors
      <3> QED BY <3>1
    <2> QED BY <2>2, <2>3
  <1>3. CASE BeginOne
    <2> DEFINE to == IF snap[Task][cur[Task]].desired_state = "installed"
                     THEN "installing" ELSE "removing"
    <2>1. /\ pc[Task] = "begin" /\ transition(cur[Task], to) /\ to \in PackageStatus
          /\ pc'[Task] = "mutate" /\ cur' = cur
      BY <1>0, <1>3, TaskIsActor DEF BeginOne, PackageStatus, Goto, Actors
    <2> HIDE DEF to
    <2>2. cur[Task] # p => row'[p] = row[p]
      BY <1>1, <2>1, TaskIsActor DEF AtHand
    <2>3. ~EndOne
      BY <2>1 DEF EndOne
    <2> QED BY <2>1, <2>2, <2>3
  <1>4. CASE EndOne
    <2>1. /\ pc[Task] = "end" /\ transition(cur[Task], snap[Task][cur[Task]].status)
          /\ snap[Task][cur[Task]].status \in {"installed", "removed", "failed"}
      BY <1>0, <1>4, TaskIsActor DEF EndOne, Works, Outcome
    <2>2. cur[Task] # p /\ row'[p] = row[p]
      BY <1>1, <2>1, TaskIsActor DEF AtHand, Mutating, PackageStatus
    <2> QED BY <2>2
  <1>5. ASSUME ~EndOne, NEW q \in Package, NEW wish \in DesiredState, set_desired_state(q, wish)
        PROVE  Goal
    <2> DEFINE new == [row[q] EXCEPT !.desired_state = wish]
    <2>1. row[q] \in Row
      BY <1>0, <1>5 DEF Others, Rows, set_desired_state
    <2>2. new.status = row[q].status /\ row[q] # None
      BY <2>1, NoneIsNoRow DEF Row
    <2>3. row' = [row EXCEPT ![q] = new]
      BY <1>5 DEF set_desired_state
    <2> HIDE DEF new
    <2> QED BY <1>0, <1>5, <2>2, <2>3 DEF Rows
  <1>6. CASE insert_new
    <2>1. /\ cur[Task] \in Package /\ pc[Task] = "insert"
          /\ row' = [row EXCEPT ![cur[Task]] = snap[Task][cur[Task]]]
          /\ Settled(snap[Task][cur[Task]].status)
      BY <1>0, <1>6, TaskIsActor DEF insert_new, Works, Seeding, Outcome
    <2>2. cur[Task] # p
      BY <1>0, <2>1 DEF Rows, Settled, Mutating
    <2>3. row'[p] = row[p] /\ ~EndOne
      BY <1>0, <2>1, <2>2 DEF Rows, EndOne
    <2> QED BY <2>3
  <1>7. CASE UNCHANGED row /\ ~EndOne
    BY <1>7
  <1>8. CASE /\ ~EndOne
             /\ \/ UNCHANGED vars \/ Start \/ SeedProbe \/ set_name_for_manager \/ Seeded
                \/ Notified \/ Tick \/ mutate \/ Requested \/ Dropped \/ Crash
                \/ \E q \in Package : SeedNext(q) \/ ByHand(q)
                \/ \E a \in Actor :
                      \/ fetch_all(a) \/ is_installed(a) \/ RoundDone(a) \/ VisitFails(a)
                      \/ resync_packages(a) \/ \E q \in Package : Visit(a, q)
    BY <1>7, <1>8 DEF vars, Start, SeedProbe, set_name_for_manager, Seeded, Notified, Tick, mutate,
           Requested, Dropped, Crash, SeedNext, ByHand, fetch_all, is_installed, RoundDone,
           VisitFails, resync_packages, Visit
  <1> QED BY <1>2, <1>3, <1>4, <1>5, <1>6, <1>8, TaskIsActor
          DEF Next, Agent, seed, Round, reconcile_one

\* While the task is at the command or the outcome of a package, it stays with
\* this package until it writes the outcome, or a fault sends it away.
LEMMA TaskStays ==
  ASSUME PackagesInv, [Next]_vars, pc[Task] \in {"mutate", "end"}, faults' = faults
  PROVE  \/ EndOne
         \/ pc'[Task] \in {"mutate", "end"} /\ cur'[Task] = cur[Task]
  <1>0. Actors /\ Task \in Actor /\ faults \in Nat
    BY TypeParts, TaskIsActor, Bounds DEF PackagesInv, Others
  <1> DEFINE Stays == pc'[Task] \in {"mutate", "end"} /\ cur'[Task] = cur[Task]
  <1>1. ASSUME NEW kind, Fault(kind) PROVE FALSE
    BY <1>0, <1>1 DEF Fault
  <1>2. CASE UNCHANGED actors
    BY <1>2 DEF actors
  <1>3. CASE mutate
    BY <1>0, <1>3 DEF mutate, Goto, Actors
  <1>4. CASE EndOne
    BY <1>4
  <1>5. ASSUME NEW a \in Request, Alone(a) PROVE Stays
    BY <1>0, <1>5, TaskIsNoRequest DEF Alone
  <1>6. ASSUME NEW a \in Request, Round(a) \/ resync_packages(a) PROVE Stays
    <2>1. Rows /\ Works(a) /\ a \in Actor /\ Rows' /\ Grows
      BY TypeParts, TaskIsActor, RowsGrow DEF PackagesInv
    <2>2. Alone(a)
      BY <1>0, <1>6, <2>1, RoundWorks
    <2> QED BY <1>5, <2>2
  <1>7. CASE Dropped \/ Crash \/ \E p \in Package : ByHand(p)
    BY <1>1, <1>7 DEF Dropped, Crash, ByHand
  <1>8. ASSUME NEW a \in Actor, VisitFails(a) PROVE FALSE
    BY <1>1, <1>8 DEF VisitFails
  <1>9. CASE \/ UNCHANGED vars \/ Requested
             \/ \E p \in Package : \E wish \in DesiredState : set_desired_state(p, wish)
    BY <1>2, <1>9 DEF vars, Requested, set_desired_state
  <1>10. ~(Start \/ seed \/ Notified \/ Tick \/ Round(Task) \/ BeginOne)
    BY DEF Start, seed, SeedNext, SeedProbe, insert_new, set_name_for_manager, Seeded, Notified, Tick,
           Round, fetch_all, Visit, is_installed, sync, RoundDone, BeginOne
  <1> QED BY <1>3, <1>4, <1>6, <1>7, <1>8, <1>9, <1>10, TaskIsActor DEF Next, Agent, reconcile_one

\* However many packages, resyncs and API calls there are, however their rounds
\* interleave and commands end, a package whose row says that a command runs has
\* its command run, unless a crash or a failing write came between.
THEOREM OnlyFaultsOrphan == Spec => OrphanedOnlyByFaults
  <1> DEFINE Kept == \A p \in Package : ~Orphaned(p) /\ Orphaned(p)' => faults' # faults
  <1>1. PackagesInv /\ [Next]_vars => Kept
    <2> SUFFICES ASSUME PackagesInv, [Next]_vars, NEW p \in Package, ~Orphaned(p), Orphaned(p)',
                        faults' = faults
                 PROVE  FALSE
      OBVIOUS
    <2>1. /\ row'[p] # None /\ row'[p].status \in Mutating
          /\ ~(cur'[Task] = p /\ pc'[Task] \in {"mutate", "end"})
      BY DEF Orphaned, Mutating
    <2>2. row[p] # None /\ row[p].status \in Mutating /\ ~(EndOne /\ cur[Task] = p)
      BY <2>1, BegunByTask
    <2>3. cur[Task] = p /\ pc[Task] \in {"mutate", "end"}
      BY <2>2 DEF Orphaned, Mutating
    <2> QED BY <2>1, <2>2, <2>3, TaskStays
  <1> QED BY <1>1, PackagesInductive, PTL DEF OrphanedOnlyByFaults, Spec
=============================================================================
