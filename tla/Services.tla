------------------------------ MODULE Services ------------------------------
(***************************************************************************)
(* The two services the agent keeps in containers, the registry and the    *)
(* reverse proxy: bootstrap converges them at startup, a request toggles   *)
(* one and converges it, and the proxy's routes are applied afterwards.    *)
(* Nothing orders overlapping requests, and nothing but the next start     *)
(* looks at a service again.                                               *)
(*                                                                         *)
(* A step is the code between two awaits.  The proxy's rows do not change, *)
(* so that its last applied revision either has their hash or not, and     *)
(* Caddy either routes by them or by its image's configuration.            *)
(***************************************************************************)
EXTENDS Naturals

CONSTANTS
    Registry, Proxy,
    Main,       \* startup
    Toggle,     \* requests to enable or disable a service that may overlap
    None,
    Faults,     \* the kinds of fault that may happen
    MaxEdits,   \* bound: API calls
    MaxFaults   \* bound: faults

ASSUME ServicesDiffer == Registry # Proxy
ASSUME MainIsNoRequest == Main \notin Toggle
ASSUME Bounds == MaxEdits \in Nat /\ MaxFaults \in Nat

Service == {Registry, Proxy}
Actor == {Main} \union Toggle

VARIABLES
    setting,    \* settings: service.<id>.enabled
    container,  \* per service: its container
    applied,    \* the last applied revision has the hash of the rows
    routes,     \* Caddy routes by the rows
    serving,    \* main has come to serving the API
    boot,       \* what bootstrap::run returned
    pc,         \* per actor: the await it is at
    at,         \* per actor: the service it works on
    want,       \* per actor: what is_enabled said
    ask,        \* per request: whether it enables
    answer,     \* per request: the message of its last answer
    alone,      \* history, per request: no other works on the same service
    dirty,      \* history: services whose last converge failed or overlapped
    edits,
    faults

actors == <<pc, at, want, ask, answer, alone>>
svars == <<setting, container, applied, routes, serving, boot, actors, dirty, edits, faults>>

\* Whether it has what spec_matches compares, the spec's published ports, binds and
\* env, and whether it runs.  Its image, host ports, network and restart policy may
\* be an earlier version's either way: nothing in the code looks at them.
Container == [matches : BOOLEAN, running : BOOLEAN]
ASSUME ContainersAreNotNone == None \notin Container
Await == {"idle", "set", "read", "inspect", "stop", "remove", "create", "start",
          "undo_stop", "undo_remove", "status", "enabled", "wait", "compare", "load", "mark"}

TypeOK ==
    /\ setting \in [Service -> BOOLEAN]
    /\ container \in [Service -> Container \union {None}]
    /\ applied \in BOOLEAN /\ routes \in BOOLEAN /\ serving \in BOOLEAN
    /\ boot \in {"ok", "failed", None}
    /\ pc \in [Actor -> Await]
    /\ at \in [Actor -> Service]
    /\ want \in [Actor -> BOOLEAN]
    /\ ask \in [Toggle -> BOOLEAN]
    /\ answer \in [Toggle -> {"enabled", "disabled", "routes applied", "not applied", "error", None}]
    /\ alone \in [Toggle -> BOOLEAN]
    /\ dirty \subseteq Service
    /\ edits \in 0 .. MaxEdits /\ faults \in 0 .. MaxFaults

Init ==
    /\ setting = [s \in Service |-> TRUE]
    /\ container \in [Service -> {None, [matches |-> FALSE, running |-> TRUE]}]
    /\ applied = FALSE /\ routes = FALSE /\ serving = FALSE /\ boot = None
    /\ pc = [a \in Actor |-> "idle"]
    /\ at = [a \in Actor |-> Registry]
    /\ want = [a \in Actor |-> FALSE]
    /\ ask = [t \in Toggle |-> FALSE]
    /\ answer = [t \in Toggle |-> None]
    /\ alone = [t \in Toggle |-> FALSE]
    /\ dirty = Service
    /\ edits = 0 /\ faults = 0

Fault(kind) == kind \in Faults /\ faults < MaxFaults /\ faults' = faults + 1
Edit == edits < MaxEdits /\ edits' = edits + 1
Up(s) == container[s] # None /\ container[s].running
Matches(s) == IF setting[s] THEN Up(s) /\ container[s].matches ELSE container[s] = None

Goto(a, w) == pc' = [pc EXCEPT ![a] = w]

\* Actor a goes on to w with the same service; nothing else changes of it.
Onwards(a, w) == Goto(a, w) /\ UNCHANGED <<at, want, ask, answer, alone, serving, boot, dirty>>

\* A request ends with a message; main goes on to serve, whatever it was.
Return(a, message) ==
    /\ pc' = [pc EXCEPT ![a] = "idle"]
    /\ at' = [at EXCEPT ![a] = Registry]
    /\ want' = [want EXCEPT ![a] = FALSE]
    /\ IF a = Main
       THEN serving' = TRUE /\ UNCHANGED <<ask, answer, alone>>
       ELSE /\ ask' = [ask EXCEPT ![a] = FALSE]
            /\ answer' = [answer EXCEPT ![a] = message]
            /\ alone' = [alone EXCEPT ![a] = FALSE]
            /\ UNCHANGED serving
    /\ UNCHANGED <<boot, dirty>>

\* converge has returned Ok: main takes the next of ALL_SERVICES, or is done
\* with bootstrap.
Converged(a) ==
    /\ IF a = Main
       THEN IF at[a] = Registry
            THEN Goto(a, "read") /\ at' = [at EXCEPT ![a] = Proxy] /\ UNCHANGED <<boot, dirty>>
            ELSE Goto(a, "enabled") /\ boot' = "ok" /\ dirty' = {} /\ UNCHANGED at
       ELSE /\ Goto(a, "status")
            /\ dirty' = IF alone[a] THEN dirty \ {at[a]} ELSE dirty
            /\ UNCHANGED <<at, boot>>
    /\ UNCHANGED <<want, ask, answer, alone, serving>>

\* converge has failed: main only logs it, and leaves the services after this
\* one as they are.
Failed(a) ==
    IF a = Main
    THEN /\ Goto(a, "enabled") /\ boot' = "failed"
         /\ UNCHANGED <<at, want, ask, answer, alone, serving, dirty>>
    ELSE Return(a, "error")

-----------------------------------------------------------------------------
(* What starts a converge                                                  *)

\* Main gets to start_containers with docker there, and prepares the network:
\* bootstrap::run goes through all services.
start_containers ==
    /\ ~serving /\ pc[Main] = "idle"
    /\ \/ Goto(Main, "read") /\ boot' = None /\ UNCHANGED faults
       \/ Fault("docker") /\ Goto(Main, "enabled") /\ boot' = "failed"
    /\ dirty' = Service
    /\ UNCHANGED <<setting, container, applied, routes, serving, at, want, ask, answer, alone, edits>>

\* enable_service and disable_service.
set_enabled(t, s, enable) ==
    /\ serving /\ Edit
    /\ pc[t] = "idle"
    /\ Goto(t, "set")
    /\ at' = [at EXCEPT ![t] = s]
    /\ ask' = [ask EXCEPT ![t] = enable]
    /\ answer' = [answer EXCEPT ![t] = None]
    /\ LET others == {u \in Toggle \ {t} : pc[u] # "idle" /\ at[u] = s}
       IN  alone' = [u \in Toggle |-> IF u = t THEN others = {} ELSE alone[u] /\ u \notin others]
    /\ dirty' = dirty \union {s}
    /\ UNCHANGED <<setting, container, applied, routes, serving, boot, want, faults>>

set_bool(t) ==
    /\ pc[t] = "set"
    /\ setting' = [setting EXCEPT ![at[t]] = ask[t]]
    /\ Onwards(t, "read")
    /\ UNCHANGED <<container, applied, routes, edits, faults>>

-----------------------------------------------------------------------------
(* converge, by actor a                                                    *)

is_enabled(a) ==
    /\ pc[a] = "read"
    /\ want' = [want EXCEPT ![a] = setting[at[a]]]
    /\ Goto(a, IF setting[at[a]] THEN "inspect" ELSE "stop")
    /\ UNCHANGED <<setting, container, applied, routes, serving, boot, at, ask, answer, alone,
                   dirty, edits, faults>>

\* ensure_running: the container is as it should be, to be replaced, or missing.
\* Mutant: a container that exists is taken for one that runs.
inspect_ExistsIsEnough(a) ==
    /\ pc[a] = "inspect"
    /\ IF container[at[a]] # None THEN Converged(a) ELSE Onwards(a, "create")
    /\ UNCHANGED <<setting, container, applied, routes, edits, faults>>
inspect(a) ==
    /\ pc[a] = "inspect"
    /\ LET c == container[at[a]]
       IN  IF c # None /\ c.running /\ c.matches THEN Converged(a)
           ELSE Onwards(a, IF c = None THEN "create" ELSE "stop")
    /\ UNCHANGED <<setting, container, applied, routes, edits, faults>>

\* stop_and_remove, of a container that may be gone: for ensure_running, for a
\* service that is disabled, and after a start that has failed.
stop_container(a) ==
    /\ pc[a] \in {"stop", "undo_stop"}
    /\ container' = [container EXCEPT ![at[a]] =
                        IF @ = None THEN None ELSE [@ EXCEPT !.running = FALSE]]
    /\ routes' = (routes /\ at[a] # Proxy)
    /\ Onwards(a, IF pc[a] = "stop" THEN "remove" ELSE "undo_remove")
    /\ UNCHANGED <<setting, applied, edits, faults>>

remove_container(a) ==
    /\ pc[a] \in {"remove", "undo_remove"}
    /\ container' = [container EXCEPT ![at[a]] = None]
    /\ routes' = (routes /\ at[a] # Proxy)
    /\ IF pc[a] = "undo_remove" THEN Failed(a)
       ELSE IF want[a] THEN Onwards(a, "create") ELSE Converged(a)
    /\ UNCHANGED <<setting, applied, edits, faults>>

\* The name may have been taken meanwhile.
create_container(a) ==
    /\ pc[a] = "create"
    /\ IF container[at[a]] = None
       THEN /\ container' = [container EXCEPT ![at[a]] = [matches |-> TRUE, running |-> FALSE]]
            /\ Onwards(a, "start")
       ELSE Failed(a) /\ UNCHANGED container
    /\ UNCHANGED <<setting, applied, routes, edits, faults>>

\* By name, whoever created it; it may be gone.
start(a) ==
    /\ pc[a] = "start"
    /\ IF container[at[a]] # None
       THEN container' = [container EXCEPT ![at[a]].running = TRUE] /\ Converged(a)
       ELSE Onwards(a, "undo_stop") /\ UNCHANGED container
    /\ UNCHANGED <<setting, applied, routes, edits, faults>>

\* A call to docker, or the check for free ports, fails and changes nothing;
\* after a start that failed the errors of the clean-up are ignored, and without
\* the status of what has converged a request ends before it applies any routes.
CallFails(a) ==
    /\ pc[a] \in {"inspect", "stop", "remove", "create", "start", "undo_stop", "undo_remove",
                  "status"}
    /\ Fault("docker")
    /\ IF pc[a] = "start" THEN Onwards(a, "undo_stop") ELSE Failed(a)
    /\ UNCHANGED <<setting, container, applied, routes, edits>>

converge(a) ==
    \/ is_enabled(a) \/ inspect(a) \/ stop_container(a) \/ remove_container(a)
    \/ create_container(a) \/ start(a)

-----------------------------------------------------------------------------
(* The answer, and the proxy's routes                                      *)

\* A request that has enabled the proxy applies its routes.
status(t) ==
    /\ pc[t] = "status"
    /\ IF ask[t] /\ at[t] = Proxy THEN Onwards(t, "wait")
       ELSE Return(t, IF ask[t] THEN "enabled" ELSE "disabled")
    /\ UNCHANGED <<setting, container, applied, routes, edits, faults>>

\* And so does main, if the proxy is enabled.
apply_proxy_config ==
    /\ pc[Main] = "enabled"
    /\ IF setting[Proxy] THEN Onwards(Main, "wait") ELSE Return(Main, None)
    /\ UNCHANGED <<setting, container, applied, routes, edits, faults>>

\* The admin API answers in time, or does not; without a container it cannot.
wait_ready(a) ==
    /\ pc[a] = "wait"
    /\ \/ Up(Proxy) /\ Onwards(a, "compare") /\ UNCHANGED faults
       \/ ~Up(Proxy) /\ Return(a, "not applied") /\ UNCHANGED faults
       \/ Fault("timeout") /\ Return(a, "not applied")
    /\ UNCHANGED <<setting, container, applied, routes, edits>>

\* Ok(false) is answered like Ok(true).
CompareHash(a) ==
    /\ pc[a] = "compare"
    /\ IF applied THEN Return(a, "routes applied") ELSE Onwards(a, "load")
    /\ UNCHANGED <<setting, container, applied, routes, edits, faults>>

load(a) ==
    /\ pc[a] = "load"
    /\ IF Up(Proxy) THEN routes' = TRUE /\ Onwards(a, "mark")
       ELSE Return(a, "not applied") /\ UNCHANGED routes
    /\ UNCHANGED <<setting, container, applied, edits, faults>>

mark_applied(a) ==
    /\ pc[a] = "mark"
    /\ applied' = TRUE
    /\ Return(a, "routes applied")
    /\ UNCHANGED <<setting, container, routes, edits, faults>>

apply_when_ready(a) == wait_ready(a) \/ CompareHash(a) \/ load(a) \/ mark_applied(a)

-----------------------------------------------------------------------------
(* The environment                                                         *)

\* A container ends and docker starts it again: restart policy Always.
Restarts(s) ==
    /\ Up(s) /\ Fault("restart")
    /\ routes' = (routes /\ s # Proxy)
    /\ UNCHANGED <<setting, container, applied, serving, boot, actors, dirty, edits>>

\* The client disconnects, and axum drops the handler at its await.
Dropped(t) ==
    /\ pc[t] # "idle" /\ Fault("drop")
    /\ Return(t, None)
    /\ UNCHANGED <<setting, container, applied, routes, edits>>

\* The agent ends, at whatever await its actors are; what they did stays.
Down ==
    /\ serving' = FALSE /\ boot' = None
    /\ pc' = [a \in Actor |-> "idle"]
    /\ at' = [a \in Actor |-> Registry]
    /\ want' = [a \in Actor |-> FALSE]
    /\ ask' = [t \in Toggle |-> FALSE]
    /\ answer' = [t \in Toggle |-> None]
    /\ alone' = [t \in Toggle |-> FALSE]
    /\ UNCHANGED <<setting, container, applied, routes, dirty>>

Startup == start_containers \/ converge(Main) \/ apply_proxy_config \/ apply_when_ready(Main)

Request(t) == set_bool(t) \/ converge(t) \/ status(t) \/ apply_when_ready(t)

Requests ==
    \E t \in Toggle : \/ Request(t) \/ Dropped(t)
                      \/ \E s \in Service, enable \in BOOLEAN : set_enabled(t, s, enable)

Next ==
    \/ Startup \/ Requests
    \/ \E a \in Actor : CallFails(a)
    \/ \E s \in Service : Restarts(s)
    \/ Fault("crash") /\ Down /\ UNCHANGED edits

Spec == Init /\ [][Next]_svars

-----------------------------------------------------------------------------
(* Properties                                                              *)

\* A service is what its setting says, a container that runs and has the ports,
\* binds and env of the spec, or none at all, after every bootstrap that returned
\* Ok and after every request that was alone with its service and converged it:
\* whatever overlapping requests, dropped ones, failures and crashes at any await
\* left there before.  Of the image and the host ports nothing is promised: a
\* container that runs with older ones is left as it is (spec_matches).
ConvergedMatches == \A s \in Service \ dirty : Matches(s)

\* "service enabled and proxy routes applied" is answered only when Caddy
\* routes by the rows.
AppliedMeansRouted ==
    [][\A t \in Toggle : answer[t] # "routes applied" /\ answer'[t] = "routes applied"
                         => routes']_svars

=============================================================================
