------------------------------ MODULE Metrics ------------------------------
(***************************************************************************)
(* The metrics task: every interval it records the host and the            *)
(* filesystems, reads the counters of the running containers of known      *)
(* deployments, turns them into traffic since the tick before, stores all  *)
(* of it and prunes what has expired.  Users create and delete             *)
(* deployments and containers start, stop and move bytes in between.       *)
(* Time is counted in ticks and kept as the age of each sample, so the     *)
(* task runs for ever; transmitted bytes are counted like received ones.   *)
(***************************************************************************)
EXTENDS MetricsWindow, Functions

CONSTANTS
    Deployment,
    Container,
    Owner,      \* the deployment in each container's label
    Retention,  \* ticks after which a sample has expired
    MaxEdits,   \* bound: traffic, containers and deployments that change
    MaxFaults   \* bound: faults of the database and of docker, restarts

ASSUME FiniteContainers == IsFiniteSet(Container)
ASSUME OwnerOfAll == Owner \in [Container -> Deployment]
ASSUME MetricsBounds == Retention \in Nat /\ MaxEdits \in Nat /\ MaxFaults \in Nat

VARIABLES
    deployments,  \* the rows of deployments
    counter,      \* per container: bytes since it was started, or Off
    totals,       \* Collector.container_totals
    samples,      \* per series: the ages of its rows
    at,           \* where run is
    known,        \* the deployments run has read
    waiting,      \* containers whose stats have been asked for
    stats,        \* what has been read of the others
    batch,        \* the samples of deployments to store
    unread,       \* history: what each container has moved since it was last counted
    missed,       \* history: deployments with a container the last count missed
    edits, faults

sampler == <<totals, at, known, waiting, stats, batch>>
world == <<deployments, counter>>
vars == <<deployments, counter, totals, samples, at, known, waiting, stats, batch,
          unread, missed, edits, faults>>

Off == -1
Host == "host"
Filesystems == "filesystems"
Series == {Host, Filesystems} \union Deployment
ASSUME HostIsNoDeployment == Host \notin Deployment /\ Filesystems \notin Deployment
Age == 0 .. Retention + 1
Expired(age) == age > Retention
Steps == {"idle", "filesystems", "known", "list", "read", "record", "prune"}

Running == {c \in Container : counter[c] # Off}
Of(d, containers) == {c \in containers : Owner[c] = d}

TypeOK ==
    /\ deployments \subseteq Deployment
    /\ counter \in [Container -> Nat \union {Off}]
    /\ DOMAIN totals \subseteq Deployment /\ \A d \in DOMAIN totals : totals[d] \in Nat
    /\ samples \in [Series -> SUBSET Age]
    /\ \A d \in Deployment : samples[d] # {} => d \in deployments
    /\ at \in Steps
    /\ known \subseteq Deployment
    /\ waiting \subseteq Container
    /\ DOMAIN stats \subseteq Container \ waiting /\ \A c \in DOMAIN stats : stats[c].total \in Nat
    /\ DOMAIN batch \subseteq known /\ \A d \in DOMAIN batch : batch[d] \in Nat
    /\ unread \in [Container -> Nat] /\ missed \subseteq Deployment
    /\ edits \in 0 .. MaxEdits /\ faults \in 0 .. MaxFaults

None == <<>>

\* The agent finds the deployments and containers of its last run.
Init ==
    /\ deployments = Deployment
    /\ counter = [c \in Container |-> 0]
    /\ totals = None /\ stats = None /\ batch = None
    /\ samples = [s \in Series |-> {}]
    /\ at = "idle" /\ known = {} /\ waiting = {}
    /\ unread = [c \in Container |-> 0] /\ missed = {}
    /\ edits = 0 /\ faults = 0

Fault == faults < MaxFaults /\ faults' = faults + 1
Edit == edits < MaxEdits /\ edits' = edits + 1

-----------------------------------------------------------------------------
(* One run of the task, an action per await                                *)

\* The run is over, whether it got to its end or left with an error.
Done == at' = "idle" /\ known' = {} /\ waiting' = {} /\ stats' = None /\ batch' = None

Keep == UNCHANGED <<deployments, counter, unread, edits>>
Older == [s \in Series |-> {IF Expired(a) THEN a ELSE a + 1 : a \in samples[s]}]

\* The next tick: the host's sample.
record_host ==
    /\ at = "idle"
    /\ \/ /\ samples' = [Older EXCEPT ![Host] = @ \union {0}]
          /\ at' = "filesystems"
          /\ UNCHANGED <<known, waiting, stats, batch, faults>>
       \/ Fault /\ samples' = Older /\ Done
    /\ Keep /\ UNCHANGED <<totals, missed>>

\* Without docker the run goes on to prune from here, as when listing fails.
record_filesystems ==
    /\ at = "filesystems"
    /\ \/ /\ samples' = [samples EXCEPT ![Filesystems] = @ \union {0}]
          /\ at' = "known"
          /\ UNCHANGED <<known, waiting, stats, batch, faults>>
       \/ Fault /\ UNCHANGED samples /\ Done
    /\ Keep /\ UNCHANGED <<totals, missed>>

\* Mutant: the containers of every deployment are sampled, deleted or not.
known_deployment_ids_All ==
    /\ at = "known"
    /\ known' = Deployment /\ at' = "list"
    /\ UNCHANGED <<waiting, stats, batch, faults, samples, totals, missed>> /\ Keep
known_deployment_ids ==
    /\ at = "known"
    /\ \/ known' = deployments /\ at' = "list" /\ UNCHANGED <<waiting, stats, batch, faults>>
       \/ Fault /\ Done
    /\ Keep /\ UNCHANGED <<totals, samples, missed>>

running_by_label ==
    /\ at = "list"
    /\ \/ /\ waiting' = {c \in Running : Owner[c] \in known}
          /\ at' = "read"
          /\ UNCHANGED faults
       \/ Fault /\ at' = "prune" /\ UNCHANGED waiting
    /\ Keep /\ UNCHANGED <<known, stats, batch, totals, samples, missed>>

\* What has been read, and container c's bytes as well.
Counting(c, bytes) ==
    [b \in DOMAIN stats \union {c} |->
        IF b = c THEN [total |-> bytes, credit |-> unread[c]] ELSE stats[b]]

\* One container's stats arrive.  One that is gone is skipped, one that is only
\* stopped counts nothing, and an error is logged.
usage(c) ==
    /\ at = "read" /\ c \in waiting
    /\ waiting' = waiting \ {c}
    /\ \/ /\ c \in Running
          /\ stats' = Counting(c, counter[c])
          /\ UNCHANGED faults
       \/ c \notin Running /\ UNCHANGED <<stats, faults>>
       \/ /\ c \notin Running
          /\ stats' = Counting(c, 0)
          /\ UNCHANGED faults
       \/ c \in Running /\ Fault /\ UNCHANGED stats
    /\ Keep /\ UNCHANGED <<at, known, batch, totals, samples, missed>>

\* METRICS_STATS_TIMEOUT: what was read is dropped.
StatsTimeout ==
    /\ at = "read" /\ waiting # {}
    /\ Fault
    /\ at' = "prune" /\ waiting' = {} /\ stats' = None
    /\ Keep /\ UNCHANGED <<known, batch, totals, samples, missed>>

Merged == {Owner[c] : c \in DOMAIN stats}
Total(d) == SumFunctionOnSet([c \in DOMAIN stats |-> stats[c].total], Of(d, DOMAIN stats))
Credit(d) == SumFunctionOnSet([c \in DOMAIN stats |-> stats[c].credit], Of(d, DOMAIN stats))
Sub(a, b) == IF a >= b THEN a - b ELSE 0

\* Mutant: what a deployment counted before it was first seen is its traffic.
Traffic_FromZero(d) == Sub(Total(d), IF d \in DOMAIN totals THEN totals[d] ELSE 0)
\* A first sample and a counter that has started anew report nothing.
Traffic(d) == Sub(Total(d), IF d \in DOMAIN totals THEN totals[d] ELSE Total(d))

\* Collector::deployments: the totals of this tick replace those of the last.
collect ==
    /\ at = "read" /\ waiting = {}
    /\ batch' = [d \in Merged |-> Traffic(d)]
    /\ totals' = [d \in Merged |-> Total(d)]
    /\ unread' = [c \in Container |->
                     IF c \in DOMAIN stats THEN unread[c] - stats[c].credit ELSE unread[c]]
    /\ missed' = {Owner[c] : c \in Running \ DOMAIN stats}
    /\ at' = "record" /\ stats' = None
    /\ UNCHANGED <<deployments, counter, edits, faults, known, waiting, samples>>

\* One transaction: a deployment deleted meanwhile takes the others' samples
\* with it, and the error ends the run before prune.
record_deployments ==
    /\ at = "record"
    /\ \/ /\ DOMAIN batch \subseteq deployments
          /\ samples' = [s \in Series |->
                            IF s \in DOMAIN batch THEN samples[s] \union {0} ELSE samples[s]]
          /\ at' = "prune" /\ batch' = None
          /\ UNCHANGED <<known, waiting, stats, faults>>
       \/ ~ DOMAIN batch \subseteq deployments /\ UNCHANGED <<samples, faults>> /\ Done
       \/ DOMAIN batch # {} /\ Fault /\ UNCHANGED samples /\ Done
    /\ Keep /\ UNCHANGED <<totals, missed>>

\* Mutant: the cutoff leaves the first expired sample.
Prunable_OneMore(age) == age > Retention + 1
Prunable(age) == age > Retention

\* Three deletes, the host's first; an error ends the run after some of them.
prune ==
    /\ at = "prune"
    /\ \E pruned \in {{}, {Host}, {Host, Filesystems}, Series} :
          /\ samples' = [s \in Series |-> IF s \in pruned THEN {a \in samples[s] : ~ Prunable(a)}
                                          ELSE samples[s]]
          /\ IF pruned = Series THEN UNCHANGED faults ELSE Fault
    /\ Done /\ Keep /\ UNCHANGED <<totals, missed>>

Sampler ==
    \/ record_host \/ record_filesystems \/ known_deployment_ids
    \/ running_by_label \/ (\E c \in Container : usage(c)) \/ StatsTimeout
    \/ collect \/ record_deployments \/ prune

-----------------------------------------------------------------------------
(* The rest of the agent and the host                                      *)

create_deployment(d) ==
    /\ Edit /\ d \notin deployments
    /\ deployments' = deployments \union {d}
    /\ UNCHANGED <<sampler, samples, counter, unread, missed, faults>>

\* Mutant: the samples do not refer to the row, and stay.
delete_deployment_NoCascade(d) ==
    /\ Edit /\ d \in deployments
    /\ deployments' = deployments \ {d}
    /\ UNCHANGED <<sampler, samples, counter, unread, missed, faults>>
\* The samples go with the row; the containers stay.
delete_deployment(d) ==
    /\ Edit /\ d \in deployments
    /\ deployments' = deployments \ {d}
    /\ samples' = [samples EXCEPT ![d] = {}]
    /\ UNCHANGED <<sampler, counter, unread, missed, faults>>

\* A container is started, with a new network, or stopped.
Switch(c) ==
    /\ Edit
    /\ counter' = [counter EXCEPT ![c] = IF @ = Off THEN 0 ELSE Off]
    /\ UNCHANGED <<sampler, samples, deployments, unread, missed, faults>>

Move(c) ==
    /\ Edit /\ c \in Running
    /\ counter' = [counter EXCEPT ![c] = @ + 1]
    /\ unread' = [unread EXCEPT ![c] = @ + 1]
    /\ UNCHANGED <<sampler, samples, deployments, missed, faults>>

\* The agent is restarted at any await: a new Collector has no totals.
Restart ==
    /\ Fault /\ Done
    /\ totals' = None
    /\ UNCHANGED <<world, samples, unread, missed, edits>>

World ==
    \/ \E d \in Deployment : create_deployment(d) \/ delete_deployment(d)
    \/ \E c \in Container : Switch(c) \/ Move(c)

Next == Sampler \/ World \/ Restart
Spec == Init /\ [][Next]_vars /\ WF_vars(Sampler)

-----------------------------------------------------------------------------
(* Properties                                                              *)

\* A deployment is not reported more traffic in a tick than its containers
\* have moved since the tick that counted them last (Collector::deployments),
\* whatever restarts, is replaced or runs side by side meanwhile.  A deployment is
\* excepted of which the count before missed a container that was running, its
\* stats having failed or its start having come after the listing: if another's of
\* the same deployment were read, it is left out of the total, and the next one
\* that has it exceeds that by its whole lifetime, which the code does not get right.
TrafficMoved ==
    [][collect => \A d \in DOMAIN batch' : batch'[d] <= Credit(d) \/ d \in missed]_vars

\* Whatever failed or was deleted before, a deployment that exists and has a
\* container running in the end is sampled again and again (known_deployment_ids
\* keeps those without a row out of the transaction they would break).
SampledInTheEnd ==
    \A d \in Deployment :
        <>[](d \in deployments /\ Of(d, Running) # {}) => []<>(0 \in samples[d])

\* What has expired goes in the end, although a run that fails in the middle
\* never gets to prune (run).
PrunedInTheEnd == \A s \in Series : []<>(\A a \in samples[s] : ~ Expired(a))

\* Whatever series has samples, its history can be drawn over every range and
\* with every step a request may name that overflows nothing, and over no other
\* (resolve): no window is wider than the retention or than MaxPoints
\* of its steps, none cuts samples apart.
HistoryGraphable == (\E s \in Series : samples[s] # {}) => WindowsGraphable
=============================================================================
