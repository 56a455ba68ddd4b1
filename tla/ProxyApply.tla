----------------------------- MODULE ProxyApply -----------------------------
(***************************************************************************)
(* How the proxy rows reach Caddy: apply() renders the rows, compares the  *)
(* result with the last applied revision, records a new one, loads it into *)
(* Caddy and marks it.  Every handler that writes a proxy host calls it    *)
(* afterwards, so do the deploys, and main before it serves the API; no    *)
(* lock orders them.                                                       *)
(*                                                                         *)
(* A step is the code between two awaits.  A configuration has two parts,  *)
(* because prepare() reads the table of hosts in one statement and what    *)
(* hangs on them, their domains and certificates, in later ones; writes    *)
(* of a host are one transaction.  A hash stands for its configuration.    *)
(* A load takes effect while its caller waits, or not at all.  The reverse *)
(* proxy service is enabled throughout, and SQLite calls do not fail.      *)
(***************************************************************************)
EXTENDS Naturals, Sequences

CONSTANTS
    Applier,    \* the callers of apply() that may overlap
    Main,       \* the one at startup, over before any other begins
    Part,       \* the contents of the hosts' part of the rows
    Rest,       \* the contents of the rest
    Empty,      \* those of a fresh database
    None,
    Faults,     \* the kinds of fault and of rare call that may happen
    MaxEdits,   \* bound: API calls
    MaxFaults   \* bound: faults

ASSUME MainApplies == Main \in Applier
ASSUME EmptyPart == Empty \in Part /\ Empty \in Rest
ASSUME FaultsKnown == Faults \subseteq {"refuse", "lost", "crash", "drop", "caddy", "secret"}
ASSUME Bounds == MaxEdits \in Nat /\ MaxFaults \in Nat

Config == [hosts : Part, rest : Rest]
ASSUME NoneIsNew == None \notin Config

VARIABLES
    rows,       \* the configuration the database asks for
    revisions,  \* proxy_config_revisions, in the order of their ids
    live,       \* what Caddy routes by; None is what it starts with
    pc,         \* per applier: the await it is at
    got,        \* per applier: what it has read of the rows
    rev,        \* per applier: the revision it has recorded
    behind,     \* history: appliers with a part they have read before it was written
    stale,      \* history: a load with the hosts of before has taken effect
    overtaken,  \* history: the last load that took effect was not of the newest revision
    edits,
    faults      \* the faults so far

vars == <<rows, revisions, live, pc, got, rev, behind, stale, overtaken, edits, faults>>

Revision == [config : Config, status : {"pending", "applied", "failed"}]

TypeOK ==
    /\ rows \in Config
    /\ revisions \in Seq(Revision)
    /\ live \in Config \union {None}
    /\ pc \in [Applier -> {"idle", "ready", "hosts", "rest", "hash", "record", "load", "mark", "fail"}]
    /\ got \in [Applier -> Config]
    /\ rev \in [Applier -> Nat]
    /\ \A a \in Applier : pc[a] \in {"load", "mark", "fail"} => rev[a] \in DOMAIN revisions
    /\ behind \subseteq Applier \X {"hosts", "rest"}
    /\ stale \in BOOLEAN /\ overtaken \in BOOLEAN
    /\ edits \in 0 .. MaxEdits
    /\ faults \in Seq(Faults) /\ Len(faults) <= MaxFaults

Fresh == [hosts |-> Empty, rest |-> Empty]
Booting == [a \in Applier |-> IF a = Main THEN "ready" ELSE "idle"]

Init ==
    /\ rows = Fresh
    /\ revisions = <<>>
    /\ live = None
    /\ pc = Booting
    /\ got = [a \in Applier |-> Fresh]
    /\ rev = [a \in Applier |-> 0]
    /\ behind = {} /\ stale = FALSE /\ overtaken = FALSE
    /\ edits = MaxEdits
    /\ faults = <<>>

-----------------------------------------------------------------------------

\* `where status = 'applied' order by id desc limit 1`
last_applied_hash ==
    LET applied == {i \in DOMAIN revisions : revisions[i].status = "applied"}
    IN  IF applied = {} THEN None
        ELSE revisions[CHOOSE i \in applied : \A j \in applied : j <= i].config

is_pending == last_applied_hash # rows

Fault(kind) == kind \in Faults /\ Len(faults) < MaxFaults /\ faults' = Append(faults, kind)
Edit == edits > 0 /\ edits' = edits - 1
At(a, p) == pc[a] = p
Begin(a) == pc' = [pc EXCEPT ![a] = "hosts"] /\ UNCHANGED <<got, rev>>
Goto(a, p) == pc' = [pc EXCEPT ![a] = p] /\ UNCHANGED <<got, rev, behind>>

\* The rows are written: appliers that have read what changes are behind.
Past(part) == {"hash", "record", "load", "mark", "fail"} \union (IF part = "hosts" THEN {"rest"} ELSE {})
Overtakes ==
    behind' = behind \union {w \in Applier \X {"hosts", "rest"} :
                                rows'[w[2]] # rows[w[2]] /\ pc[w[1]] \in Past(w[2])}

\* apply() returns; what it has read is dropped.
Return(a) ==
    /\ behind' = {w \in behind : w[1] # a}
    /\ pc' = [pc EXCEPT ![a] = "idle"]
    /\ got' = [got EXCEPT ![a] = Fresh]
    /\ rev' = [rev EXCEPT ![a] = 0]

\* The API is served, and the reconcilers run, once main has applied.
Free(a) == a # Main /\ At(a, "idle") /\ At(Main, "idle")

-----------------------------------------------------------------------------
(* What starts an apply, and what changes the rows                         *)

\* Creating, changing, deleting, enabling or disabling a host, and pointing it
\* at a new container: one transaction, then apply().
save(a) ==
    /\ Free(a)
    /\ Edit
    /\ rows' \in Config /\ Overtakes
    /\ Begin(a)
    /\ UNCHANGED <<revisions, live, stale, overtaken, faults>>

apply_proxy_config(a) ==
    /\ Free(a)
    /\ Edit
    /\ Begin(a)
    /\ UNCHANGED <<rows, revisions, live, behind, stale, overtaken, faults>>

\* A certificate that is put into the parameters is not applied.
put_parameter ==
    /\ At(Main, "idle")
    /\ Fault("secret")
    /\ \E r \in Rest : rows' = [rows EXCEPT !.rest = r]
    /\ Overtakes
    /\ UNCHANGED <<revisions, live, pc, got, rev, stale, overtaken, edits>>

-----------------------------------------------------------------------------
(* apply, by applier a                                                     *)

\* apply_when_ready, at startup: the admin API answers, or the wait times out.
wait_ready(a) ==
    /\ At(a, "ready")
    /\ \/ Goto(a, "hosts") /\ UNCHANGED faults
       \/ Fault("refuse") /\ Return(a)
    /\ UNCHANGED <<rows, revisions, live, stale, overtaken, edits>>

ReadHosts(a) ==
    /\ At(a, "hosts")
    /\ got' = [got EXCEPT ![a].hosts = rows.hosts]
    /\ pc' = [pc EXCEPT ![a] = "rest"]
    /\ UNCHANGED <<rows, revisions, live, rev, behind, stale, overtaken, edits, faults>>

ReadRest(a) ==
    /\ At(a, "rest")
    /\ got' = [got EXCEPT ![a].rest = rows.rest]
    /\ pc' = [pc EXCEPT ![a] = "hash"]
    /\ UNCHANGED <<rows, revisions, live, rev, behind, stale, overtaken, edits, faults>>

\* Nothing to do if that is what was applied last.
CompareHash(a) ==
    /\ At(a, "hash")
    /\ IF last_applied_hash = got[a] THEN Return(a) ELSE Goto(a, "record")
    /\ UNCHANGED <<rows, revisions, live, stale, overtaken, edits, faults>>

record_pending(a) ==
    /\ At(a, "record")
    /\ revisions' = Append(revisions, [config |-> got[a], status |-> "pending"])
    /\ rev' = [rev EXCEPT ![a] = Len(revisions) + 1]
    /\ pc' = [pc EXCEPT ![a] = "load"]
    /\ UNCHANGED <<rows, live, got, behind, stale, overtaken, edits, faults>>

TakesEffect(a) ==
    /\ live' = got[a]
    /\ stale' = (stale \/ <<a, "hosts">> \in behind)
    /\ overtaken' = (rev[a] # Len(revisions))

\* Mutant: an answer that is no success is not told from one.
load_StatusIgnored(a) ==
    /\ At(a, "load")
    /\ \/ TakesEffect(a) /\ Goto(a, "mark") /\ UNCHANGED faults
       \/ Fault("refuse") /\ Goto(a, "mark") /\ UNCHANGED <<live, stale, overtaken>>
    /\ UNCHANGED <<rows, revisions, edits>>

\* Caddy takes the configuration over or refuses it; or it takes it over and
\* the answer is lost.
load(a) ==
    /\ At(a, "load")
    /\ \/ TakesEffect(a) /\ Goto(a, "mark") /\ UNCHANGED faults
       \/ Fault("refuse") /\ Goto(a, "fail") /\ UNCHANGED <<live, stale, overtaken>>
       \/ Fault("lost") /\ Goto(a, "fail") /\ TakesEffect(a)
    /\ UNCHANGED <<rows, revisions, edits>>

\* `where id = revision`, whatever has been recorded and marked since.
Mark(a, p, status) ==
    /\ At(a, p)
    /\ revisions' = [revisions EXCEPT ![rev[a]].status = status]
    /\ Return(a)
    /\ UNCHANGED <<rows, live, stale, overtaken, edits, faults>>
mark_applied(a) == Mark(a, "mark", "applied")
mark_failed(a) == Mark(a, "fail", "failed")

apply(a) ==
    \/ wait_ready(a) \/ ReadHosts(a) \/ ReadRest(a) \/ CompareHash(a)
    \/ record_pending(a) \/ load(a) \/ mark_applied(a) \/ mark_failed(a)

-----------------------------------------------------------------------------
(* The end of a process                                                    *)

\* The client of a handler disconnects, and axum drops the handler at its await.
Dropped(a) ==
    /\ a # Main /\ ~At(a, "idle") /\ Fault("drop")
    /\ Return(a)
    /\ UNCHANGED <<rows, revisions, live, stale, overtaken, edits>>

\* Mutant: main does not apply.
Crash_NoStartupApply ==
    /\ Fault("crash")
    /\ pc' = [a \in Applier |-> "idle"]
    /\ got' = [a \in Applier |-> Fresh] /\ rev' = [a \in Applier |-> 0]
    /\ behind' = {}
    /\ UNCHANGED <<rows, revisions, live, stale, overtaken, edits>>

\* The agent dies and starts again; what Caddy routes by stays.
Crash ==
    /\ Fault("crash")
    /\ pc' = Booting
    /\ got' = [a \in Applier |-> Fresh] /\ rev' = [a \in Applier |-> 0]
    /\ behind' = {}
    /\ UNCHANGED <<rows, revisions, live, stale, overtaken, edits>>

\* Caddy starts again with the configuration of its image.
CaddyRestarts ==
    /\ Fault("caddy")
    /\ live' = None
    /\ UNCHANGED <<rows, revisions, pc, got, rev, behind, stale, overtaken, edits>>

Next ==
    \/ \E a \in Applier : save(a) \/ apply_proxy_config(a) \/ apply(a) \/ Dropped(a)
    \/ put_parameter \/ Crash \/ CaddyRestarts

Spec == Init /\ [][Next]_vars

\* The agent's tasks are scheduled, and Caddy answers.
LiveSpec == Spec /\ \A a \in Applier : WF_vars(apply(a))

-----------------------------------------------------------------------------
(* Properties                                                              *)

Quiet == \A a \in Applier : At(a, "idle")

\* When the newest revision says "applied", Caddy routes by it, or has been
\* restarted: although applies overlap, and each can be refused, be dropped or cut
\* off by a crash at any await, or take effect without anyone learning of it.  In
\* one case it does not: a load of an older revision came after that of the newest,
\* as nothing keeps applies from overtaking each other on their way to Caddy.
NewestAppliedIsLive ==
    revisions # <<>> /\ revisions[Len(revisions)].status = "applied"
    => live \in {revisions[Len(revisions)].config, None} \/ overtaken

\* A change of the rows reaches Caddy in the end, even if applies overlap and the
\* agent dies between any two of their steps: the apply at startup makes up for it.
\* Until the next change, nothing makes up for
\*   - a load that is refused or whose answer is lost,
\*   - a handler that is dropped after its write and before its load,
\*   - a Caddy that restarts, or a secret that is put,
\*   - a write while another apply is on its way between its read and its mark,
\*     which may load the older rows last, or have its own revision taken for the
\*     last one because it is not marked yet.
ChangesReachCaddy ==
    [](behind = {} /\ \A i \in DOMAIN faults : faults[i] = "crash") => <>[](live = rows)

\* What the status says of pending work: a configuration is pending until it
\* reaches Caddy, so when none is pending and no apply is under way, Caddy
\* routes as the rows ask.
PendingUntilLive == Quiet /\ ~is_pending => live = rows
=============================================================================
