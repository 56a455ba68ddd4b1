---------------------------- MODULE AgentProofs ----------------------------
(***************************************************************************)
(* Theorems about Services and about Agent, for any number of agents,      *)
(* requests and faults: their types, that a service whose last converge    *)
(* was alone and returned Ok is what its setting says, and that no agent   *)
(* takes the socket of one that listens.  The lemmas on services are about *)
(* single steps, so that they hold in Agent too, where these steps are     *)
(* composed with the socket.  The socket is safe because whoever is past   *)
(* acquire_lock has the lock (Holds), and so is alone.                     *)
(***************************************************************************)
EXTENDS Agent, TLAPS

-----------------------------------------------------------------------------
(* Types                                                                   *)

\* The host and the rows, and what belongs to the actors.
HostOK ==
    /\ setting \in [Service -> BOOLEAN]
    /\ container \in [Service -> Container \union {None}]
    /\ applied \in BOOLEAN /\ routes \in BOOLEAN

Answer == {"enabled", "disabled", "routes applied", "not applied", "error", None}
ActorsOK ==
    /\ serving \in BOOLEAN
    /\ boot \in {"ok", "failed", None}
    /\ pc \in [Actor -> Await]
    /\ at \in [Actor -> Service]
    /\ want \in [Actor -> BOOLEAN]
    /\ ask \in [Toggle -> BOOLEAN]
    /\ answer \in [Toggle -> Answer]
    /\ alone \in [Toggle -> BOOLEAN]
    /\ dirty \subseteq Service

CountersOK == edits \in 0 .. MaxEdits /\ faults \in 0 .. MaxFaults

LEMMA TypeParts == TypeOK <=> HostOK /\ ActorsOK /\ CountersOK
BY DEF TypeOK, HostOK, ActorsOK, CountersOK, Answer

LEMMA Counters ==
    ASSUME CountersOK, NEW kind
    PROVE  /\ Edit => edits' \in 0 .. MaxEdits
           /\ Fault(kind) => faults' \in 0 .. MaxFaults
BY Bounds DEF CountersOK, Edit, Fault

LEMMA OutcomeTypes ==
    ASSUME ActorsOK, NEW a \in Actor
    PROVE  /\ \A w \in Await : Onwards(a, w) => ActorsOK'
           /\ \A m \in Answer : Return(a, m) => ActorsOK'
           /\ Converged(a) => ActorsOK'
           /\ Failed(a) => ActorsOK'
<1>1. \A w \in Await : Onwards(a, w) => ActorsOK'
  BY DEF ActorsOK, Onwards, Goto
<1>2. ASSUME NEW m \in Answer, Return(a, m) PROVE ActorsOK'
  BY <1>2 DEF ActorsOK, Return, Await, Service, Actor
<1>3. ASSUME Converged(a) PROVE ActorsOK'
  BY <1>3 DEF ActorsOK, Converged, Goto, Await, Service
<1>4. ASSUME Failed(a) PROVE ActorsOK'
  <2>1. CASE a = Main
    BY <1>4, <2>1 DEF Failed, ActorsOK, Goto, Await
  <2> QED BY <1>2, <1>4, <2>1 DEF Failed, Answer
<1> QED BY <1>1, <1>2, <1>3, <1>4

LEMMA AwaitsKnown ==
    {"idle", "set", "read", "inspect", "stop", "remove", "create", "start", "undo_stop",
     "undo_remove", "status", "enabled", "wait", "compare", "load", "mark"} \subseteq Await
BY DEF Await

\* A step of an actor, which ends in one of the outcomes.
Act(a) ==
    \/ a \in Toggle /\ (set_bool(a) \/ status(a))
    \/ a = Main /\ apply_proxy_config
    \/ converge(a) \/ apply_when_ready(a) \/ CallFails(a)

LEMMA ActTypes == ASSUME TypeOK, NEW a \in Actor, Act(a) PROVE TypeOK'
<1>1. HostOK /\ ActorsOK /\ CountersOK
  BY TypeParts
<1>2. HostOK'
  <2>1. CASE UNCHANGED <<setting, container, applied, routes>>
    BY <1>1, <2>1 DEF HostOK
  <2>2. ASSUME set_bool(a), a \in Toggle PROVE HostOK'
    <3>1. at[a] \in Service /\ ask[a] \in BOOLEAN
      BY <1>1, <2>2 DEF ActorsOK, Actor
    <3> QED BY <1>1, <2>2, <3>1 DEF set_bool, HostOK
  <2>3. CASE stop_container(a) \/ remove_container(a) \/ create_container(a) \/ start(a)
    <3>1. at[a] \in Service
      BY <1>1 DEF ActorsOK
    <3>2. container' \in [Service -> Container \union {None}]
      <4>1. \E c \in Container \union {None} : container' = [container EXCEPT ![at[a]] = c]
        <5> DEFINE c == container[at[a]]
        <5>1. c \in Container \union {None} /\ container = [container EXCEPT ![at[a]] = c]
          BY <1>1, <3>1 DEF HostOK
        <5>2. c # None => \A r \in BOOLEAN : [c EXCEPT !.running = r] \in Container
          BY <5>1 DEF Container
        <5>3. [matches |-> TRUE, running |-> FALSE] \in Container
          BY DEF Container
        <5> QED BY <2>3, <3>1, <5>1, <5>2, <5>3
                DEF stop_container, remove_container, create_container, start
      <4> QED BY <1>1, <3>1, <4>1 DEF HostOK
    <3>3. applied' \in BOOLEAN /\ routes' \in BOOLEAN /\ UNCHANGED setting
      BY <1>1, <2>3 DEF HostOK, stop_container, remove_container, create_container, start
    <3> QED BY <1>1, <3>2, <3>3 DEF HostOK
  <2>4. CASE load(a) \/ mark_applied(a)
    BY <1>1, <2>4 DEF HostOK, load, mark_applied
  <2> QED BY <2>1, <2>2, <2>3, <2>4 DEF Act, status, apply_proxy_config, converge, is_enabled,
          inspect, apply_when_ready, wait_ready, CompareHash, CallFails
<1>3. CountersOK'
  BY <1>1, Counters DEF CountersOK, Act, set_bool, status, apply_proxy_config, converge,
     is_enabled, inspect, stop_container, remove_container, create_container, start,
     apply_when_ready, wait_ready, CompareHash, load, mark_applied, CallFails
<1>4. ActorsOK'
  <2>1. CASE is_enabled(a)
    BY <1>1, <2>1 DEF is_enabled, ActorsOK, HostOK, Goto, Await
  <2>2. ASSUME ~is_enabled(a)
        PROVE  \/ \E w \in Await : Onwards(a, w)
               \/ \E m \in Answer : Return(a, m)
               \/ Converged(a) \/ Failed(a)
    BY <2>2, AwaitsKnown DEF Act, set_bool, status, apply_proxy_config, converge, inspect,
       stop_container, remove_container, create_container, start, apply_when_ready,
       wait_ready, CompareHash, load, mark_applied, CallFails, Answer
  <2> QED BY <1>1, <2>1, <2>2, OutcomeTypes
<1> QED BY <1>2, <1>3, <1>4 DEF TypeOK, HostOK, ActorsOK, CountersOK, Answer

LEMMA DroppedTypes == ASSUME TypeOK, NEW t \in Toggle, Dropped(t) PROVE TypeOK'
<1>1. HostOK /\ ActorsOK /\ CountersOK
  BY TypeParts
<1>2. HostOK' /\ ActorsOK'
  BY <1>1, OutcomeTypes DEF Dropped, HostOK, Actor, Answer
<1>3. CountersOK'
  BY <1>1, Counters DEF CountersOK, Dropped
<1> QED BY <1>2, <1>3, TypeParts DEF TypeOK, HostOK, ActorsOK, CountersOK, Answer

LEMMA BeginTypes ==
    ASSUME TypeOK,
           \/ start_containers
           \/ \E t \in Toggle, s \in Service, enable \in BOOLEAN : set_enabled(t, s, enable)
    PROVE  TypeOK'
<1>1. HostOK /\ ActorsOK /\ CountersOK
  BY TypeParts
<1>2. CASE start_containers
  <2>1. faults' \in 0 .. MaxFaults
    BY <1>1, <1>2, Counters DEF start_containers, CountersOK
  <2> QED BY <1>2, <2>1 DEF TypeOK, start_containers, Goto, Await, Service, Actor
<1>3. ASSUME NEW t \in Toggle, NEW s \in Service, NEW enable \in BOOLEAN, set_enabled(t, s, enable)
      PROVE  TypeOK'
  <2>1. edits' \in 0 .. MaxEdits
    BY <1>1, <1>3, Counters DEF set_enabled
  <2>2. alone' \in [Toggle -> BOOLEAN]
    BY <1>3 DEF set_enabled, TypeOK
  <2> QED BY <1>3, <2>1, <2>2 DEF TypeOK, set_enabled, Goto, Await, Actor
<1> QED BY <1>2, <1>3

LEMMA DownTypes == ASSUME HostOK, ActorsOK, Down PROVE HostOK' /\ ActorsOK'
BY DEF Down, HostOK, ActorsOK, Await, Service, Actor, Answer

LEMMA RestartTypes == ASSUME TypeOK, NEW s \in Service, Restarts(s) PROVE TypeOK'
<1>1. faults' \in 0 .. MaxFaults
  BY TypeParts, Counters DEF Restarts
<1> QED BY <1>1 DEF Restarts, TypeOK, actors

LEMMA TypeInit == Init => TypeOK
<1> SUFFICES ASSUME Init PROVE TypeOK
  OBVIOUS
<1>1. HostOK
  <2>1. [matches |-> FALSE, running |-> TRUE] \in Container
    BY DEF Container
  <2>2. {None, [matches |-> FALSE, running |-> TRUE]} \subseteq Container \union {None}
    BY <2>1
  <2>3. container \in [Service -> Container \union {None}]
    BY <2>2 DEF Init
  <2> QED BY <2>3 DEF Init, HostOK
<1>2. "idle" \in Await /\ Registry \in Service
  BY DEF Await, Service
<1>3. ActorsOK
  BY <1>2 DEF Init, ActorsOK, Answer
<1>4. CountersOK
  BY Bounds DEF Init, CountersOK
<1> QED BY <1>1, <1>3, <1>4, TypeParts

-----------------------------------------------------------------------------
(* The inductive invariant                                                 *)

\* An actor from its write of the setting to the end of its converge.
Converging == {"set", "read", "inspect", "stop", "remove", "create", "start",
               "undo_stop", "undo_remove"}
Working(a, s) == pc[a] \in Converging /\ at[a] = s

\* Requests are handled only when main is through, and main starts only then.
Shift == IF serving THEN pc[Main] = "idle" ELSE \A t \in Toggle : pc[t] = "idle"

\* A request that is alone has its service to itself.
Apart ==
    \A t, u \in Toggle :
        t # u /\ alone[t] /\ pc[t] # "idle" /\ pc[u] # "idle" => at[u] # at[t]

\* What an actor that is alone goes by is still so.
Lone(a) == a = Main \/ (a \in Toggle /\ alone[a])
Intent(a) ==
    Lone(a) =>
        /\ pc[a] \in {"inspect", "stop", "remove", "create", "start"} => want[a] = setting[at[a]]
        /\ pc[a] \in {"inspect", "create", "start"} => want[a]
        /\ pc[a] = "start" /\ container[at[a]] # None => container[at[a]].matches

\* A clean service is as it should be, and nobody works on it.
Clean ==
    \A s \in Service \ dirty : Matches(s) /\ \A a \in Actor : ~Working(a, s)

\* During bootstrap every service counts as dirty; the registry comes first.
Boot ==
    /\ pc[Main] = "idle" => at[Main] = Registry
    /\ pc[Main] \in Converging => dirty = Service /\ (at[Main] = Proxy => Matches(Registry))

ServicesInv == Shift /\ Apart /\ (\A a \in Actor : Intent(a)) /\ Clean /\ Boot

LEMMA InvInit == Init => ServicesInv
BY MainIsNoRequest DEF Init, ServicesInv, Shift, Apart, Intent, Lone, Clean, Boot, Converging,
   Service, Actor

-----------------------------------------------------------------------------
(* Steps of one actor                                                      *)

\* What a step of actor a leaves alone: the other actors, and the other service.
Framed(a) ==
    /\ pc[a] # "idle"
    /\ \A b \in Actor \ {a} : pc'[b] = pc[b] /\ at'[b] = at[b] /\ want'[b] = want[b]
    /\ \A t \in Toggle : IF t = a THEN alone'[t] => alone[t] ELSE alone'[t] = alone[t]
    /\ \A s \in Service \ {at[a]} : setting'[s] = setting[s] /\ container'[s] = container[s]
    /\ IF a = Main THEN serving' <=> pc'[a] = "idle" ELSE UNCHANGED serving
    /\ IF pc'[a] = "idle" THEN at'[a] = Registry ELSE a \in Toggle => at'[a] = at[a]

LEMMA WhoseTurn ==
    ASSUME TypeOK, ServicesInv, NEW a \in Actor, pc[a] # "idle"
    PROVE  IF a = Main THEN ~serving /\ \A t \in Toggle : pc[t] = "idle"
           ELSE serving /\ pc[Main] = "idle" /\ a \in Toggle
BY DEF ServicesInv, Shift, TypeOK, Actor

LEMMA OthersKeep ==
    ASSUME TypeOK, TypeOK', ServicesInv, NEW a \in Actor, Framed(a)
    PROVE  /\ Shift' /\ Apart'
           /\ \A b \in Actor \ {a} : Intent(b)'
<1>1. IF a = Main THEN ~serving /\ \A t \in Toggle : pc[t] = "idle"
      ELSE serving /\ pc[Main] = "idle" /\ a \in Toggle
  BY WhoseTurn DEF Framed
<1>2. Shift'
  <2>1. CASE a = Main
    <3>1. \A t \in Toggle : pc'[t] = "idle"
      BY <1>1, <2>1, MainIsNoRequest DEF Framed, Actor
    <3>2. serving' => pc'[Main] = "idle"
      BY <2>1 DEF Framed
    <3> QED BY <3>1, <3>2 DEF Shift
  <2>2. CASE a # Main
    <3>1. serving' /\ pc'[Main] = "idle"
      BY <1>1, <2>2 DEF Framed, Actor
    <3> QED BY <3>1 DEF Shift
  <2> QED BY <2>1, <2>2
<1>3. Apart'
  <2> SUFFICES ASSUME NEW t \in Toggle, NEW u \in Toggle, t # u, alone'[t],
                      pc'[t] # "idle", pc'[u] # "idle"
               PROVE  at'[u] # at'[t]
    BY DEF Apart
  <2>1. a \in Toggle
    BY <1>1, <1>2, MainIsNoRequest DEF Framed, Actor
  <2>2. /\ alone[t] /\ pc[t] # "idle" /\ pc[u] # "idle"
        /\ at'[t] = at[t] /\ at'[u] = at[u]
    BY <2>1 DEF Framed, Actor
  <2> QED BY <2>2 DEF ServicesInv, Apart
<1>4. ASSUME NEW b \in Actor \ {a} PROVE Intent(b)'
  <2>1. pc'[b] = pc[b] /\ at'[b] = at[b] /\ want'[b] = want[b] /\ (Lone(b)' <=> Lone(b))
    BY MainIsNoRequest DEF Framed, Lone
  <2>2. CASE pc[b] = "idle" \/ ~Lone(b)
    BY <2>1, <2>2 DEF Intent
  <2>3. CASE pc[b] # "idle" /\ Lone(b)
    <3>1. at[b] # at[a] /\ at[b] \in Service
      BY <1>1, <2>3, MainIsNoRequest DEF Framed, ServicesInv, Apart, Lone, Actor, TypeOK
    <3>2. setting'[at[b]] = setting[at[b]] /\ container'[at[b]] = container[at[b]]
      BY <3>1 DEF Framed
    <3> QED BY <2>1, <3>2 DEF ServicesInv, Intent
  <2> QED BY <2>2, <2>3
<1> QED BY <1>2, <1>3, <1>4

\* Steps that finish no converge.
LEMMA QuietStep ==
    ASSUME TypeOK, TypeOK', ServicesInv, NEW a \in Actor, Framed(a), Intent(a)',
           UNCHANGED dirty,
           pc'[a] \in Converging => at'[a] = at[a] /\ pc[a] \in Converging,
           pc[a] \notin Converging => UNCHANGED <<setting, container>>
    PROVE  ServicesInv'
<1>1. /\ Shift' /\ Apart'
      /\ \A b \in Actor : Intent(b)'
  BY OthersKeep
<1>2. IF a = Main THEN ~serving /\ \A t \in Toggle : pc[t] = "idle"
      ELSE serving /\ pc[Main] = "idle" /\ a \in Toggle
  BY WhoseTurn DEF Framed
<1>3. ASSUME NEW s \in Service \ dirty' PROVE Matches(s)' /\ \A b \in Actor : ~Working(b, s)'
  <2>1. Matches(s) /\ \A b \in Actor : ~Working(b, s)
    BY <1>3 DEF ServicesInv, Clean
  <2>2. setting'[s] = setting[s] /\ container'[s] = container[s]
    BY <2>1 DEF Framed, Working
  <2>3. \A b \in Actor : ~Working(b, s)'
    BY <2>1 DEF Framed, Working
  <2> QED BY <2>1, <2>2, <2>3 DEF Matches, Up
<1>4. Boot'
  <2>0. pc'[Main] = "idle" => at'[Main] = Registry
    BY <1>2 DEF Framed, Actor, ServicesInv, Boot
  <2> SUFFICES ASSUME pc'[Main] \in Converging
               PROVE  dirty' = Service /\ (at'[Main] = Proxy => Matches(Registry)')
    BY <2>0 DEF Boot
  <2>1. a = Main
    BY <1>2 DEF Framed, Actor, Converging
  <2>2. dirty = Service /\ at'[Main] = at[Main] /\ (at[Main] = Proxy => Matches(Registry))
    BY <2>1 DEF ServicesInv, Boot
  <2>3. ASSUME at[Main] = Proxy PROVE Matches(Registry)'
    <3>1. setting'[Registry] = setting[Registry] /\ container'[Registry] = container[Registry]
      BY <2>1, <2>3, ServicesDiffer DEF Framed, Service
    <3> QED BY <2>2, <2>3, <3>1 DEF Matches, Up
  <2> QED BY <2>2, <2>3
<1> QED BY <1>1, <1>3, <1>4 DEF ServicesInv, Clean

-----------------------------------------------------------------------------
(* Outcomes                                                                *)

HostFramed(a) == \A s \in Service \ {at[a]} : setting'[s] = setting[s] /\ container'[s] = container[s]

LEMMA OutcomesFramed ==
    ASSUME TypeOK, ServicesInv, NEW a \in Actor, pc[a] # "idle", HostFramed(a)
    PROVE  /\ \A w \in Await \ {"idle"} :
                  Onwards(a, w) => /\ Framed(a) /\ UNCHANGED dirty
                                   /\ pc'[a] = w /\ at'[a] = at[a] /\ want'[a] = want[a]
           /\ \A m : Return(a, m) => Framed(a) /\ UNCHANGED dirty /\ pc'[a] = "idle"
           /\ Failed(a) => Framed(a) /\ UNCHANGED dirty /\ pc'[a] \in {"idle", "enabled"}
           /\ Converged(a) => Framed(a)
<1>1. IF a = Main THEN ~serving ELSE a \in Toggle
  BY WhoseTurn
<1>2. ASSUME NEW w \in Await \ {"idle"}, Onwards(a, w)
      PROVE  /\ Framed(a) /\ UNCHANGED dirty
             /\ pc'[a] = w /\ at'[a] = at[a] /\ want'[a] = want[a]
  BY <1>1, <1>2 DEF Onwards, Goto, Framed, HostFramed, TypeOK
<1>3. ASSUME NEW m, Return(a, m) PROVE Framed(a) /\ UNCHANGED dirty /\ pc'[a] = "idle"
  <2>1. /\ pc'[a] = "idle" /\ at'[a] = Registry
        /\ \A b \in Actor \ {a} : pc'[b] = pc[b] /\ at'[b] = at[b] /\ want'[b] = want[b]
        /\ UNCHANGED dirty
    BY <1>3 DEF Return, TypeOK
  <2>2. \A t \in Toggle : IF t = a THEN alone'[t] => alone[t] ELSE alone'[t] = alone[t]
    BY <1>1, <1>3 DEF Return, TypeOK
  <2>3. IF a = Main THEN serving' <=> pc'[a] = "idle" ELSE UNCHANGED serving
    BY <1>3, <2>1 DEF Return
  <2> QED BY <2>1, <2>2, <2>3 DEF Framed, HostFramed
<1>4. ASSUME Failed(a) PROVE Framed(a) /\ UNCHANGED dirty /\ pc'[a] \in {"idle", "enabled"}
  <2>1. CASE a = Main
    <3>1. pc' = [pc EXCEPT ![a] = "enabled"] /\ UNCHANGED <<at, want, alone, serving, dirty>>
      BY <1>4, <2>1 DEF Failed, Goto
    <3> QED BY <1>1, <2>1, <3>1 DEF Framed, HostFramed, TypeOK
  <2>2. CASE a # Main
    BY <1>3, <1>4, <2>2 DEF Failed
  <2> QED BY <2>1, <2>2
<1>5. ASSUME Converged(a) PROVE Framed(a)
  <2>1. CASE a = Main
    <3>1. /\ pc'[a] \in {"read", "enabled"}
          /\ \A b \in Actor \ {a} : pc'[b] = pc[b] /\ at'[b] = at[b] /\ want'[b] = want[b]
          /\ UNCHANGED <<alone, serving>>
      BY <1>5, <2>1 DEF Converged, Goto, TypeOK
    <3> QED BY <1>1, <2>1, <3>1, MainIsNoRequest DEF Framed, HostFramed
  <2>2. CASE a # Main
    BY <1>5, <2>2 DEF Converged, Goto, Framed, HostFramed, TypeOK
  <2> QED BY <2>1, <2>2
<1> QED BY <1>2, <1>3, <1>4, <1>5

\* A converge that returns Ok, if it leaves what the setting says.
LEMMA ConvergedStep ==
    ASSUME TypeOK, TypeOK', ServicesInv, NEW a \in Actor, Converged(a), Framed(a),
           Working(a, at[a]), Lone(a) => \A s \in Service : s = at[a] => Matches(s)'
    PROVE  ServicesInv'
<1>1. Shift' /\ Apart' /\ \A b \in Actor \ {a} : Intent(b)'
  BY OthersKeep
<1>2. IF a = Main THEN ~serving /\ \A t \in Toggle : pc[t] = "idle"
      ELSE serving /\ pc[Main] = "idle" /\ a \in Toggle
  BY WhoseTurn DEF Framed
<1>3. pc'[a] \in {"read", "enabled", "status"}
  BY DEF Converged, Goto, TypeOK
<1>4. Intent(a)'
  BY <1>3 DEF Intent
<1>5. /\ at[a] \in Service
      /\ \A s \in Service \ {at[a]} : Matches(s) => Matches(s)'
  BY DEF Framed, Matches, Up, TypeOK
<1>6. CASE a = Main
  <2>1. /\ dirty = Service /\ (at[Main] = Proxy => Matches(Registry))
        /\ \A s \in Service : s = at[Main] => Matches(s)'
    BY <1>6 DEF ServicesInv, Boot, Working, Lone
  <2>2. CASE at[Main] = Registry
    <3>1. dirty' = Service
      BY <1>6, <2>1, <2>2 DEF Converged
    <3>2. Matches(Registry)'
      BY <2>1, <2>2 DEF Service
    <3> QED BY <1>1, <1>3, <1>4, <1>6, <3>1, <3>2 DEF ServicesInv, Clean, Boot
  <2>3. CASE at[Main] # Registry
    <3>1. at[Main] = Proxy /\ pc'[Main] = "enabled"
      BY <1>5, <1>6, <2>3 DEF Converged, Goto, Service, TypeOK
    <3>2. Matches(Registry)' /\ Matches(Proxy)'
      BY <1>5, <1>6, <2>1, <3>1, ServicesDiffer DEF Service
    <3>3. \A t \in Toggle : pc'[t] = "idle"
      BY <1>2, <1>6, MainIsNoRequest DEF Framed, Actor
    <3>4. Clean'
      BY <3>1, <3>2, <3>3 DEF Clean, Working, Converging, Service, Actor
    <3>5. Boot'
      BY <3>1 DEF Boot, Converging
    <3> QED BY <1>1, <1>4, <3>4, <3>5 DEF ServicesInv
  <2> QED BY <2>2, <2>3
<1>7. CASE a # Main
  <2>1. a \in Toggle /\ pc[Main] = "idle" /\ pc'[Main] = "idle" /\ pc'[a] = "status"
    BY <1>2, <1>7 DEF Framed, Actor, Converged, Goto, TypeOK
  <2>2. ASSUME NEW s \in Service \ dirty' PROVE Matches(s)' /\ \A b \in Actor : ~Working(b, s)'
    <3>1. CASE s \notin dirty
      <4>1. Matches(s) /\ \A b \in Actor : ~Working(b, s)
        BY <2>2, <3>1 DEF ServicesInv, Clean
      <4>2. s # at[a]
        BY <4>1 DEF Working
      <4>3. \A b \in Actor : ~Working(b, s)'
        BY <2>1, <4>1 DEF Framed, Working, Converging
      <4> QED BY <1>5, <2>2, <4>1, <4>2, <4>3
    <3>2. CASE s \in dirty
      <4>1. alone[a] /\ s = at[a]
        BY <1>7, <2>2, <3>2 DEF Converged
      <4>2. ASSUME NEW b \in Actor, Working(b, s)' PROVE FALSE
        <5>1. b \in Toggle /\ b # a /\ pc[b] # "idle" /\ at[b] = s
          BY <2>1, <4>2 DEF Working, Converging, Framed, Actor
        <5> QED BY <2>1, <4>1, <5>1 DEF ServicesInv, Apart, Framed
      <4> QED BY <2>1, <4>1, <4>2 DEF Lone
    <3> QED BY <3>1, <3>2
  <2>3. Boot'
    <3>1. at'[Main] = at[Main] /\ at[Main] = Registry
      BY <1>7, <2>1 DEF Framed, Actor, ServicesInv, Boot
    <3> QED BY <2>1, <3>1 DEF Boot, Converging
  <2> QED BY <1>1, <1>4, <2>2, <2>3 DEF ServicesInv, Clean
<1> QED BY <1>6, <1>7

-----------------------------------------------------------------------------
(* Every step keeps the invariant                                          *)

\* A step that goes on to w, gives up or returns finishes no converge.
LEMMA OutcomeStep ==
    ASSUME TypeOK, TypeOK', ServicesInv, NEW a \in Actor, pc[a] # "idle", HostFramed(a),
           NEW w \in Await \ {"idle"}, NEW m,
           Onwards(a, w) \/ Return(a, m) \/ Failed(a),
           Onwards(a, w) => Intent(a)' /\ (w \in Converging => pc[a] \in Converging),
           pc[a] \notin Converging => UNCHANGED <<setting, container>>
    PROVE  ServicesInv'
<1>1. CASE Onwards(a, w)
  <2>1. /\ Framed(a) /\ UNCHANGED dirty /\ Intent(a)'
        /\ pc'[a] = w /\ at'[a] = at[a]
    BY <1>1, OutcomesFramed
  <2> QED BY <1>1, <2>1, QuietStep
<1>2. CASE Return(a, m) \/ Failed(a)
  <2>1. Framed(a) /\ UNCHANGED dirty /\ pc'[a] \in {"idle", "enabled"}
    BY <1>2, OutcomesFramed
  <2>2. Intent(a)' /\ pc'[a] \notin Converging
    BY <2>1 DEF Intent, Converging
  <2> QED BY <2>1, <2>2, QuietStep
<1> QED BY <1>1, <1>2

\* Steps before and after a converge, and failing calls.
LEMMA AroundStep ==
    ASSUME TypeOK, TypeOK', ServicesInv, NEW a \in Actor,
           \/ a \in Toggle /\ (set_bool(a) \/ status(a))
           \/ a = Main /\ apply_proxy_config
           \/ apply_when_ready(a) \/ CallFails(a)
    PROVE  ServicesInv'
<1>1. ASSUME set_bool(a), a \in Toggle PROVE ServicesInv'
  <2>1. pc[a] = "set" /\ Onwards(a, "read") /\ HostFramed(a) /\ "read" \in Await
    BY <1>1 DEF set_bool, HostFramed, TypeOK, Await
  <2>2. pc'[a] = "read"
    BY <2>1 DEF Onwards, Goto, TypeOK
  <2>3. Intent(a)'
    BY <2>2 DEF Intent
  <2> QED BY <2>1, <2>3, OutcomeStep DEF Converging
<1>2. CASE \/ a \in Toggle /\ status(a)
           \/ a = Main /\ apply_proxy_config
           \/ apply_when_ready(a)
  <2>1. /\ pc[a] \in {"status", "enabled", "wait", "compare", "load", "mark"}
        /\ UNCHANGED <<setting, container>> /\ HostFramed(a)
    BY <1>2 DEF status, apply_proxy_config, apply_when_ready, wait_ready, CompareHash, load,
       mark_applied, HostFramed
  <2>2. \E w \in {"wait", "compare", "load", "mark"} : \E m \in Answer :
            Onwards(a, w) \/ Return(a, m)
    BY <1>2 DEF status, apply_proxy_config, apply_when_ready, wait_ready, CompareHash, load,
       mark_applied, Answer
  <2>3. ASSUME NEW w \in {"wait", "compare", "load", "mark"}, NEW m \in Answer,
               Onwards(a, w) \/ Return(a, m)
        PROVE  ServicesInv'
    <3>1. w \in Await \ {"idle"} /\ w \notin Converging
      BY DEF Await, Converging
    <3>2. Onwards(a, w) => Intent(a)'
      BY DEF Onwards, Goto, Intent, TypeOK
    <3> QED BY <2>1, <2>3, <3>1, <3>2, OutcomeStep
  <2> QED BY <2>2, <2>3
<1>3. CASE pc[a] = "status" /\ CallFails(a)
  <2>1. Failed(a) /\ HostFramed(a) /\ UNCHANGED <<setting, container>> /\ pc[a] # "idle"
    BY <1>3 DEF CallFails, HostFramed
  <2>2. "mark" \in Await \ {"idle"} /\ "mark" \notin Converging
    BY DEF Await, Converging
  <2>3. Onwards(a, "mark") => Intent(a)'
    BY DEF Onwards, Goto, Intent, TypeOK
  <2> QED BY <2>1, <2>2, <2>3, OutcomeStep
<1>4. CASE pc[a] # "status" /\ CallFails(a)
  <2>1. pc[a] \in Converging /\ pc[a] # "idle" /\ HostFramed(a)
    BY <1>4 DEF CallFails, Converging, HostFramed
  <2>2. Onwards(a, "undo_stop") \/ Failed(a)
    BY <1>4 DEF CallFails
  <2>3. Onwards(a, "undo_stop") => Intent(a)'
    BY DEF Onwards, Goto, Intent, TypeOK
  <2>4. "undo_stop" \in Await \ {"idle"}
    BY DEF Await
  <2> QED BY <2>1, <2>2, <2>3, <2>4, OutcomeStep
<1> QED BY <1>1, <1>2, <1>3, <1>4

\* A request that is dropped keeps its service dirty.
LEMMA DroppedStep ==
    ASSUME TypeOK, TypeOK', ServicesInv, NEW t \in Toggle, Dropped(t)
    PROVE  ServicesInv'
<1>1. /\ t \in Actor /\ pc[t] # "idle" /\ Return(t, None)
      /\ UNCHANGED <<setting, container>>
  BY DEF Dropped, Actor
<1>2. "mark" \in Await \ {"idle"} /\ "mark" \notin Converging /\ HostFramed(t)
  BY <1>1 DEF Await, Converging, HostFramed
<1>3. Onwards(t, "mark") => Intent(t)'
  BY <1>1 DEF Onwards, Goto, Intent, TypeOK
<1> QED BY <1>1, <1>2, <1>3, OutcomeStep

LEMMA ReadStep ==
    ASSUME TypeOK, TypeOK', ServicesInv, NEW a \in Actor, is_enabled(a)
    PROVE  ServicesInv'
<1>1. /\ pc[a] = "read" /\ at[a] \in Service
      /\ pc'[a] = IF setting[at[a]] THEN "inspect" ELSE "stop"
      /\ want'[a] = setting[at[a]]
      /\ UNCHANGED <<setting, container, at, alone, serving, dirty>>
  BY DEF is_enabled, Goto, TypeOK
<1>2. Framed(a)
  <2>1. \A b \in Actor \ {a} : pc'[b] = pc[b] /\ want'[b] = want[b]
    BY DEF is_enabled, Goto, TypeOK
  <2>2. a = Main => ~serving /\ pc'[a] # "idle"
    BY <1>1, WhoseTurn
  <2> QED BY <1>1, <2>1, <2>2 DEF Framed
<1>3. Intent(a)'
  BY <1>1 DEF Intent
<1> QED BY <1>1, <1>2, <1>3, QuietStep DEF Converging

LEMMA InspectStep ==
    ASSUME TypeOK, TypeOK', ServicesInv, NEW a \in Actor, inspect(a)
    PROVE  ServicesInv'
<1>1. pc[a] = "inspect" /\ UNCHANGED <<setting, container>> /\ HostFramed(a) /\ Working(a, at[a])
  BY DEF inspect, HostFramed, Working, Converging
<1>2. Lone(a) => want[a] /\ want[a] = setting[at[a]]
  BY <1>1 DEF ServicesInv, Intent
<1>3. CASE Converged(a) /\ container[at[a]] # None /\ container[at[a]].running
           /\ container[at[a]].matches
  <2>1. Framed(a)
    BY <1>1, <1>3, OutcomesFramed
  <2>2. Lone(a) => \A s \in Service : s = at[a] => Matches(s)'
    BY <1>1, <1>2, <1>3 DEF Matches, Up
  <2> QED BY <1>1, <1>3, <2>1, <2>2, ConvergedStep
<1>4. ASSUME NEW w \in {"create", "stop"}, Onwards(a, w) PROVE ServicesInv'
  <2>1. pc'[a] = w /\ w \in Await \ {"idle"} /\ UNCHANGED <<at, want, alone>>
    BY <1>4 DEF Onwards, Goto, TypeOK, Await
  <2>2. Intent(a)'
    BY <1>1, <1>2, <2>1 DEF Intent, Lone
  <2> QED BY <1>1, <1>4, <2>1, <2>2, OutcomeStep DEF Working
<1> QED BY <1>3, <1>4 DEF inspect

LEMMA StopStep ==
    ASSUME TypeOK, TypeOK', ServicesInv, NEW a \in Actor, stop_container(a)
    PROVE  ServicesInv'
<1>1. /\ pc[a] \in {"stop", "undo_stop"} /\ UNCHANGED setting
      /\ HostFramed(a) /\ Working(a, at[a])
  BY DEF stop_container, HostFramed, Working, Converging, TypeOK
<1>2. PICK w \in {"remove", "undo_remove"} : Onwards(a, w) /\ (w = "remove" => pc[a] = "stop")
  BY DEF stop_container
<1>3. pc'[a] = w /\ w \in Await \ {"idle"} /\ UNCHANGED <<at, want, alone>>
  BY <1>2 DEF Onwards, Goto, TypeOK, Await
<1>4. Intent(a)'
  BY <1>1, <1>2, <1>3 DEF ServicesInv, Intent, Lone
<1> QED BY <1>1, <1>2, <1>3, <1>4, OutcomeStep DEF Working

LEMMA RemoveStep ==
    ASSUME TypeOK, TypeOK', ServicesInv, NEW a \in Actor, remove_container(a)
    PROVE  ServicesInv'
<1>1. /\ pc[a] \in {"remove", "undo_remove"} /\ UNCHANGED setting /\ at[a] \in Service
      /\ HostFramed(a) /\ Working(a, at[a]) /\ container'[at[a]] = None
  BY DEF remove_container, HostFramed, Working, Converging, TypeOK
<1>2. CASE Failed(a)
  <2>1. "stop" \in Await \ {"idle"} /\ ~Onwards(a, "stop")
    BY <1>1, <1>2, OutcomesFramed DEF Await
  <2> QED BY <1>1, <1>2, <2>1, OutcomeStep DEF Working, Converging
<1>3. CASE pc[a] = "remove" /\ want[a] /\ Onwards(a, "create")
  <2>1. pc'[a] = "create" /\ "create" \in Await \ {"idle"} /\ UNCHANGED <<at, want, alone>>
    BY <1>3 DEF Onwards, Goto, TypeOK, Await
  <2>2. Intent(a)'
    BY <1>1, <1>3, <2>1 DEF ServicesInv, Intent, Lone
  <2> QED BY <1>1, <1>3, <2>1, <2>2, OutcomeStep DEF Working
<1>4. CASE pc[a] = "remove" /\ ~want[a] /\ Converged(a)
  <2>1. Framed(a)
    BY <1>1, <1>4, OutcomesFramed
  <2>2. Lone(a) => ~setting[at[a]]
    BY <1>4 DEF ServicesInv, Intent
  <2>3. Lone(a) => \A s \in Service : s = at[a] => Matches(s)'
    BY <1>1, <2>2 DEF Matches
  <2> QED BY <1>1, <1>4, <2>1, <2>3, ConvergedStep
<1> QED BY <1>1, <1>2, <1>3, <1>4 DEF remove_container

LEMMA CreateStep ==
    ASSUME TypeOK, TypeOK', ServicesInv, NEW a \in Actor, create_container(a)
    PROVE  ServicesInv'
<1>1. /\ pc[a] = "create" /\ UNCHANGED setting /\ at[a] \in Service
      /\ HostFramed(a) /\ Working(a, at[a])
  BY DEF create_container, HostFramed, Working, Converging, TypeOK
<1>2. "start" \in Await \ {"idle"}
  BY DEF Await
<1>3. CASE Onwards(a, "start") /\ container'[at[a]] = [matches |-> TRUE, running |-> FALSE]
  <2>1. pc'[a] = "start" /\ UNCHANGED <<at, want, alone>>
    BY <1>3 DEF Onwards, Goto, TypeOK
  <2>2. Intent(a)'
    BY <1>1, <1>3, <2>1 DEF ServicesInv, Intent, Lone
  <2> QED BY <1>1, <1>2, <1>3, <2>2, OutcomeStep DEF Working
<1>4. CASE Failed(a)
  <2>1. ~Onwards(a, "start")
    BY <1>1, <1>2, <1>4, OutcomesFramed
  <2> QED BY <1>1, <1>2, <1>4, <2>1, OutcomeStep DEF Working
<1> QED BY <1>1, <1>3, <1>4 DEF create_container, TypeOK

LEMMA StartStep ==
    ASSUME TypeOK, TypeOK', ServicesInv, NEW a \in Actor, start(a)
    PROVE  ServicesInv'
<1>1. /\ pc[a] = "start" /\ UNCHANGED setting /\ at[a] \in Service
      /\ HostFramed(a) /\ Working(a, at[a])
  BY DEF start, HostFramed, Working, Converging, TypeOK
<1>2. CASE Onwards(a, "undo_stop") /\ UNCHANGED container
  <2>1. "undo_stop" \in Await \ {"idle"} /\ Intent(a)'
    BY <1>2 DEF Onwards, Goto, Intent, TypeOK, Await
  <2> QED BY <1>1, <1>2, <2>1, OutcomeStep DEF Working
<1>3. CASE /\ container[at[a]] # None /\ Converged(a)
           /\ container' = [container EXCEPT ![at[a]].running = TRUE]
  <2>1. Framed(a)
    BY <1>1, <1>3, OutcomesFramed
  <2>2. Lone(a) => setting[at[a]] /\ container[at[a]].matches
    BY <1>1, <1>3 DEF ServicesInv, Intent, TypeOK
  <2>3. /\ container'[at[a]] # None /\ container'[at[a]].running
        /\ container'[at[a]].matches = container[at[a]].matches
    <3>1. container[at[a]] \in Container
      BY <1>1, <1>3 DEF TypeOK
    <3>2. LET c == [container[at[a]] EXCEPT !.running = TRUE]
          IN  c \in Container /\ c.running /\ c.matches = container[at[a]].matches
      BY <3>1 DEF Container
    <3> QED BY <1>1, <1>3, <3>2, ContainersAreNotNone DEF TypeOK
  <2>4. Lone(a) => \A s \in Service : s = at[a] => Matches(s)'
    BY <1>1, <2>2, <2>3 DEF Matches, Up
  <2> QED BY <1>1, <1>3, <2>1, <2>4, ConvergedStep
<1> QED BY <1>2, <1>3 DEF start

LEMMA ActStep ==
    ASSUME TypeOK, TypeOK', ServicesInv, NEW a \in Actor, Act(a)
    PROVE  ServicesInv'
BY AroundStep, ReadStep, InspectStep, StopStep, RemoveStep, CreateStep, StartStep
   DEF Act, converge

-----------------------------------------------------------------------------
(* Beginnings and ends                                                     *)

LEMMA BootStep ==
    ASSUME TypeOK, ServicesInv, start_containers
    PROVE  ServicesInv'
<1>1. /\ pc'[Main] \in {"read", "enabled"} /\ \A t \in Toggle : pc'[t] = "idle"
      /\ ~serving' /\ dirty' = Service
      /\ UNCHANGED <<setting, container, at, want, alone>>
  BY MainIsNoRequest DEF start_containers, Goto, TypeOK, ServicesInv, Shift, Actor
<1>2. \A a \in Actor : Intent(a)'
  BY <1>1 DEF Intent, Actor
<1>3. at[Main] = Registry
  BY DEF start_containers, ServicesInv, Boot
<1>4. Boot'
  BY <1>1, <1>3, ServicesDiffer DEF Boot
<1> QED BY <1>1, <1>2, <1>4 DEF ServicesInv, Shift, Apart, Clean

\* A new request makes its service dirty, and takes it from those who were alone.
LEMMA RequestStep ==
    ASSUME TypeOK, ServicesInv, NEW t \in Toggle, NEW s \in Service, NEW enable \in BOOLEAN,
           set_enabled(t, s, enable)
    PROVE  ServicesInv'
<1>1. /\ serving /\ serving' /\ pc[t] = "idle" /\ pc'[t] = "set" /\ at'[t] = s
      /\ dirty' = dirty \union {s}
      /\ \A a \in Actor \ {t} : pc'[a] = pc[a] /\ at'[a] = at[a]
      /\ UNCHANGED <<setting, container, want>>
  BY DEF set_enabled, Goto, TypeOK, Actor
<1>2. /\ alone'[t] => \A u \in Toggle \ {t} : pc[u] = "idle" \/ at[u] # s
      /\ \A u \in Toggle \ {t} : alone'[u] => alone[u] /\ (pc[u] = "idle" \/ at[u] # s)
  BY DEF set_enabled, TypeOK
<1>3. pc[Main] = "idle" /\ pc'[Main] = "idle" /\ at'[Main] = at[Main]
  BY <1>1, MainIsNoRequest DEF ServicesInv, Shift, Actor
<1>4. Apart'
  <2> SUFFICES ASSUME NEW v \in Toggle, NEW u \in Toggle, v # u, alone'[v],
                      pc'[v] # "idle", pc'[u] # "idle"
               PROVE  at'[u] # at'[v]
    BY DEF Apart
  <2> QED BY <1>1, <1>2 DEF ServicesInv, Apart, Actor
<1>5. ASSUME NEW a \in Actor PROVE Intent(a)'
  <2>1. CASE a = t
    BY <1>1, <2>1 DEF Intent
  <2>2. CASE a # t
    <3>1. Lone(a)' => Lone(a)
      BY <1>2, <2>2 DEF Lone
    <3> QED BY <1>1, <2>2, <3>1 DEF ServicesInv, Intent
  <2> QED BY <2>1, <2>2
<1>6. Clean'
  BY <1>1 DEF ServicesInv, Clean, Matches, Up, Working
<1>7. Boot'
  BY <1>3 DEF ServicesInv, Boot, Converging
<1> QED BY <1>1, <1>3, <1>4, <1>5, <1>6, <1>7 DEF ServicesInv, Shift

\* The agent ends: nobody is at work, and what was dirty stays so.
LEMMA DownStep == ASSUME TypeOK, ServicesInv, Down PROVE ServicesInv'
<1>1. /\ \A a \in Actor : pc'[a] = "idle" /\ at'[a] = Registry
      /\ UNCHANGED <<setting, container, dirty>>
  BY DEF Down
<1>2. \A t \in Toggle : t \in Actor
  BY DEF Actor
<1>3. Shift' /\ Apart' /\ (\A a \in Actor : Intent(a)')
  BY <1>1, <1>2 DEF Down, Shift, Apart, Intent
<1>4. Main \in Actor
  BY DEF Actor
<1>5. Clean' /\ Boot'
  BY <1>1, <1>4 DEF ServicesInv, Clean, Boot, Matches, Up, Working, Converging
<1> QED BY <1>3, <1>5 DEF ServicesInv

\* Nothing the invariant is about changes when docker restarts a container.
LEMMA StillStep ==
    ASSUME ServicesInv, UNCHANGED <<setting, container, serving, actors, dirty>>
    PROVE  ServicesInv'
BY DEF actors, ServicesInv, Shift, Apart, Intent, Lone, Clean, Boot, Matches, Up, Working

-----------------------------------------------------------------------------
(* The theorems                                                            *)

LEMMA StartupActs ==
    /\ Startup => start_containers \/ Act(Main)
    /\ \A t \in Toggle : Request(t) => Act(t)
    /\ \A a \in Actor : CallFails(a) => Act(a)
BY DEF Startup, Request, Act

LEMMA TypeNext == ASSUME TypeOK, [Next]_svars PROVE TypeOK'
<1>1. CASE Startup \/ Requests \/ \E a \in Actor : CallFails(a)
  BY <1>1, ActTypes, BeginTypes, StartupActs, DroppedTypes DEF Requests, Actor
<1>2. ASSUME NEW s \in Service, Restarts(s) PROVE TypeOK'
  BY <1>2, RestartTypes
<1>3. CASE Fault("crash") /\ Down /\ UNCHANGED edits
  <2>1. HostOK' /\ ActorsOK' /\ faults' \in 0 .. MaxFaults
    BY <1>3, DownTypes, TypeParts, Counters
  <2> QED BY <1>3, <2>1 DEF TypeOK, HostOK, ActorsOK, Answer
<1>4. CASE UNCHANGED svars
  BY <1>4 DEF svars, actors, TypeOK
<1> QED BY <1>1, <1>2, <1>3, <1>4 DEF Next

LEMMA InvNext == ASSUME TypeOK, TypeOK', ServicesInv, [Next]_svars PROVE ServicesInv'
<1>1. CASE Startup \/ Requests \/ \E a \in Actor : CallFails(a)
  BY <1>1, ActStep, BootStep, RequestStep, StartupActs, DroppedStep DEF Requests, Actor
<1>2. ASSUME NEW s \in Service, Restarts(s) PROVE ServicesInv'
  BY <1>2, StillStep DEF Restarts
<1>3. CASE Down
  BY <1>3, DownStep
<1>4. CASE UNCHANGED svars
  BY <1>4, StillStep DEF svars
<1> QED BY <1>1, <1>2, <1>3, <1>4 DEF Next

\* The settings, the containers and the actors' locals keep their types.
THEOREM ServicesTypeCorrect == Spec => []TypeOK
BY TypeInit, TypeNext, PTL DEF Spec

\* After a bootstrap that returned Ok, and after every request that was alone
\* with its service and succeeded (converge), the service is what its setting
\* says, for any number of requests, failures and restarts.
THEOREM ConvergedIsRight == Spec => []ConvergedMatches
<1>1. ServicesInv => ConvergedMatches
  BY DEF ServicesInv, Clean, ConvergedMatches
<1> QED BY <1>1, InvInit, InvNext, ServicesTypeCorrect, PTL DEF Spec


-----------------------------------------------------------------------------
(* The lock                                                                *)

Holds == \A a \in Agent : phase[a] # "off" => lock = a

SocketInv == Socket!LockTypeOK /\ Holds

\* The steps of agent a on the lock and the socket.
SocketAct(a) ==
    \/ Socket!acquire_lock(a) \/ Socket!Claim(a) \/ Socket!serve(a)
    \/ Socket!shutdown_signal(a) \/ Socket!Leave(a)
    \/ Socket!Exit(a) /\ UNCHANGED <<path, alien>>

LEMMA SocketInit == Socket!LockInit => SocketInv
BY DEF Socket!LockInit, SocketInv, Socket!LockTypeOK, Socket!Phase, Holds

LEMMA ExitStep ==
    ASSUME SocketInv, NEW a \in Agent, Socket!Exit(a), path' \in Inode \union {None},
           UNCHANGED alien
    PROVE  SocketInv'
<1>1. Socket!LockTypeOK'
  BY DEF SocketInv, Socket!LockTypeOK, Socket!Exit, Socket!Phase
<1>2. Holds'
  BY NoneIsFresh DEF SocketInv, Socket!LockTypeOK, Holds, Socket!Exit
<1> QED BY <1>1, <1>2 DEF SocketInv

\* A step of an agent that is past acquire_lock: its phase, its listener and
\* what it reads change, and nobody else's.
LEMMA HeldStep ==
    ASSUME SocketInv, NEW a \in Agent, phase[a] # "off", lock' = lock,
           path' \in Inode \union {None}, UNCHANGED alien,
           NEW p \in Socket!Phase, phase' = [phase EXCEPT ![a] = p],
           NEW s \in Inode \union {None}, sock' = [sock EXCEPT ![a] = s],
           NEW i \in Inode \union {None}, ident' = [ident EXCEPT ![a] = i],
           s # None => p \in {"identity", "boot", "serving"}
    PROVE  SocketInv'
<1>1. Socket!LockTypeOK'
  BY DEF SocketInv, Socket!LockTypeOK
<1>2. Holds'
  BY DEF SocketInv, Socket!LockTypeOK, Holds
<1> QED BY <1>1, <1>2 DEF SocketInv

LEMMA PhasesKnown ==
    {"off", "stat", "probe", "clear", "bind", "identity", "boot", "serving", "leave", "remove"}
        \subseteq Socket!Phase
BY DEF Socket!Phase

LEMMA SocketStep ==
    ASSUME SocketInv, NEW a \in Agent, SocketAct(a)
    PROVE  SocketInv'
<1>1. /\ sock = [sock EXCEPT ![a] = sock[a]] /\ ident = [ident EXCEPT ![a] = ident[a]]
      /\ sock[a] \in Inode \union {None} /\ ident[a] \in Inode \union {None}
      /\ path \in Inode \union {None}
      /\ sock[a] # None => phase[a] \in {"identity", "boot", "serving"}
  BY DEF SocketInv, Socket!LockTypeOK
<1>2. CASE Socket!acquire_lock(a)
  <2>1. \A b \in Agent : phase[b] = "off"
    BY <1>2, NoneIsFresh DEF SocketInv, Holds, Socket!acquire_lock
  <2>2. \A b \in Agent : sock[b] = None
    BY <2>1 DEF SocketInv, Socket!LockTypeOK
  <2>3. /\ phase' = [phase EXCEPT ![a] = "stat"] /\ lock' = a
        /\ UNCHANGED <<path, alien, sock, ident>>
    BY <1>2 DEF Socket!acquire_lock, Socket!Step
  <2>4. Socket!LockTypeOK'
    BY <2>2, <2>3, PhasesKnown DEF SocketInv, Socket!LockTypeOK
  <2>5. Holds'
    BY <2>1, <2>3 DEF Holds, SocketInv, Socket!LockTypeOK
  <2> QED BY <2>4, <2>5 DEF SocketInv
<1>3. CASE Socket!Exit(a) /\ UNCHANGED <<path, alien>>
  BY <1>1, <1>3, ExitStep
<1>4. CASE Socket!Claim(a)
  <2>1. CASE Socket!stat(a) \/ Socket!probe(a) \/ Socket!clear(a)
    <3>1. ASSUME phase[a] \in {"stat", "probe", "clear"},
                 NEW p \in {"bind", "probe", "clear"}, phase' = [phase EXCEPT ![a] = p],
                 UNCHANGED <<lock, alien, sock, ident>>, path' \in {path, None}
          PROVE  SocketInv'
      <4>1. sock[a] = None /\ phase[a] # "off" /\ p \in Socket!Phase
        BY <1>1, <3>1, PhasesKnown
      <4>2. path' \in Inode \union {None} /\ lock' = lock
        BY <1>1, <3>1
      <4> QED BY <1>1, <3>1, <4>1, <4>2, HeldStep
    <3>2. \/ Socket!Exit(a) /\ UNCHANGED <<path, alien>>
          \/ /\ phase[a] \in {"stat", "probe", "clear"}
             /\ \E p \in {"bind", "probe", "clear"} : phase' = [phase EXCEPT ![a] = p]
             /\ UNCHANGED <<lock, alien, sock, ident>> /\ path' \in {path, None}
      BY <2>1 DEF Socket!stat, Socket!probe, Socket!clear, Socket!Step
    <3> QED BY <1>3, <3>1, <3>2
  <2>2. CASE Socket!bind(a)
    <3>1. CASE Socket!Exit(a) /\ UNCHANGED <<path, alien>>
      BY <1>3, <3>1
    <3>2. ASSUME NEW i \in Inode, path' = i, sock' = [sock EXCEPT ![a] = i],
                 Socket!Step(a, "bind", "identity"), UNCHANGED <<lock, alien, ident>>
          PROVE  SocketInv'
      BY <1>1, <3>2, PhasesKnown, HeldStep DEF Socket!Step
    <3> QED BY <2>2, <3>1, <3>2 DEF Socket!bind
  <2>3. CASE Socket!socket_identity(a)
    <3>1. CASE Socket!Exit(a) /\ UNCHANGED <<path, alien>>
      BY <1>3, <3>1
    <3>2. CASE /\ ident' = [ident EXCEPT ![a] = path]
               /\ Socket!Step(a, "identity", "boot") /\ UNCHANGED <<lock, sock, path, alien>>
      BY <1>1, <3>2, PhasesKnown, HeldStep DEF Socket!Step
    <3> QED BY <2>3, <3>1, <3>2 DEF Socket!socket_identity
  <2> QED BY <1>4, <2>1, <2>2, <2>3 DEF Socket!Claim
<1>5. CASE Socket!serve(a)
  BY <1>1, <1>5, PhasesKnown, HeldStep DEF Socket!serve, Socket!Step
<1>6. CASE Socket!shutdown_signal(a)
  BY <1>1, <1>6, PhasesKnown, HeldStep DEF Socket!shutdown_signal, Socket!Step
<1>7. CASE Socket!Leave(a)
  <2>1. CASE Socket!remove_file(a)
    BY <2>1, ExitStep DEF Socket!remove_file
  <2>2. CASE Socket!remove_socket(a)
    <3>1. CASE Socket!Exit(a) /\ UNCHANGED <<path, alien>>
      BY <1>3, <3>1
    <3>2. CASE Socket!Step(a, "leave", "remove") /\ UNCHANGED <<lock, sock, ident, path, alien>>
      <4>1. sock[a] = None /\ phase[a] = "leave"
        BY <1>1, <3>2 DEF Socket!Step
      <4> QED BY <1>1, <3>2, <4>1, PhasesKnown, HeldStep DEF Socket!Step
    <3> QED BY <2>2, <3>1, <3>2 DEF Socket!remove_socket
  <2> QED BY <1>7, <2>1, <2>2 DEF Socket!Leave
<1> QED BY <1>2, <1>3, <1>4, <1>5, <1>6, <1>7 DEF SocketAct

-----------------------------------------------------------------------------
(* The composition                                                         *)

\* Every step of Agent is one of these on the socket, and one on the services.
LEMMA SocketParts ==
    ASSUME [AgentNext]_vars
    PROVE  \/ \E a \in Agent : SocketAct(a)
           \/ Socket!PathChanges
           \/ UNCHANGED socket
<1>1. CASE Serves \/ ShutsDown \/ Leaves
  BY <1>1 DEF Serves, ShutsDown, Leaves, SocketAct
<1>2. ASSUME NEW a \in Agent, Claims(a) \/ Crash(a) \/ Terminated(a) PROVE SocketAct(a)
  BY <1>2 DEF Claims, Crash, Terminated, Dies, SocketAct
<1>3. CASE StartsServices \/ HandlesRequests \/ UNCHANGED vars
  BY <1>3 DEF StartsServices, HandlesRequests, vars
<1>4. CASE Environment
  BY <1>4 DEF Environment
<1> QED BY <1>1, <1>2, <1>3, <1>4 DEF AgentNext

LEMMA SocketNext == ASSUME SocketInv, [AgentNext]_vars PROVE SocketInv'
<1>1. CASE Socket!PathChanges
  BY <1>1 DEF Socket!PathChanges, SocketInv, Socket!LockTypeOK, Holds
<1>2. CASE UNCHANGED socket
  BY <1>2 DEF socket, SocketInv, Socket!LockTypeOK, Holds
<1> QED BY <1>1, <1>2, SocketParts, SocketStep

LEMMA ServicesParts ==
    ASSUME TypeOK, [AgentNext]_vars
    PROVE  \/ [Next]_svars
           \/ Down /\ edits' \in 0 .. MaxEdits /\ faults' \in 0 .. MaxFaults
           \/ /\ UNCHANGED <<setting, container, applied, routes, serving, boot, actors, dirty>>
              /\ edits' \in 0 .. MaxEdits /\ faults' \in 0 .. MaxFaults
<1>0. CountersOK
  BY TypeParts
<1>1. CASE (\E a \in Agent : Claims(a)) \/ Serves \/ Leaves \/ UNCHANGED vars
  BY <1>1 DEF Claims, Serves, Leaves, vars
<1>2. CASE StartsServices \/ HandlesRequests
  BY <1>2 DEF StartsServices, HandlesRequests, Next
<1>3. CASE ShutsDown
  BY <1>0, <1>3, Counters DEF ShutsDown, CountersOK
<1>4. ASSUME NEW a \in Agent, Crash(a) \/ Terminated(a)
      PROVE  \/ Down /\ edits' \in 0 .. MaxEdits /\ faults' \in 0 .. MaxFaults
             \/ /\ UNCHANGED <<setting, container, applied, routes, serving, boot, actors, dirty>>
                /\ edits' \in 0 .. MaxEdits /\ faults' \in 0 .. MaxFaults
  <2>1. edits' \in 0 .. MaxEdits /\ faults' \in 0 .. MaxFaults
    BY <1>0, <1>4, Counters DEF Crash, Terminated, CountersOK
  <2> QED BY <1>4, <2>1 DEF Crash, Terminated, Dies
<1>5. CASE Environment
  <2>1. CASE Fault("path") /\ UNCHANGED <<setting, container, applied, routes, serving, boot,
                                          actors, dirty, edits>>
    BY <1>0, <2>1, Counters DEF CountersOK
  <2> QED BY <1>5, <2>1 DEF Environment, Next
<1> QED BY <1>1, <1>2, <1>3, <1>4, <1>5 DEF AgentNext

LEMMA ServicesNext ==
    ASSUME TypeOK, ServicesInv, [AgentNext]_vars
    PROVE  TypeOK' /\ ServicesInv'
<1>1. CASE [Next]_svars
  BY <1>1, TypeNext, InvNext
<1>2. CASE Down /\ edits' \in 0 .. MaxEdits /\ faults' \in 0 .. MaxFaults
  <2>1. HostOK' /\ ActorsOK'
    BY <1>2, DownTypes, TypeParts
  <2> QED BY <1>2, <2>1, DownStep DEF TypeOK, HostOK, ActorsOK, Answer
<1>3. CASE /\ UNCHANGED <<setting, container, applied, routes, serving, boot, actors, dirty>>
           /\ edits' \in 0 .. MaxEdits /\ faults' \in 0 .. MaxFaults
  BY <1>3, StillStep DEF TypeOK, actors
<1> QED BY <1>1, <1>2, <1>3, ServicesParts

RetiredOK == retired \subseteq Agent

LEMMA RetiredNext == ASSUME RetiredOK, [AgentNext]_vars PROVE RetiredOK'
BY DEF RetiredOK, AgentNext, vars, StartsServices, Serves, HandlesRequests, ShutsDown, Leaves,
   Claims, Crash, Terminated, Environment

LEMMA AgentInvariant == AgentSpec => [](SocketInv /\ TypeOK /\ ServicesInv /\ RetiredOK)
<1>1. AgentInit => SocketInv /\ TypeOK /\ ServicesInv /\ RetiredOK
  BY SocketInit, TypeInit, InvInit DEF AgentInit, RetiredOK
<1> QED BY <1>1, SocketNext, ServicesNext, RetiredNext, PTL DEF AgentSpec

-----------------------------------------------------------------------------
(* The theorems                                                            *)

\* The lock, the socket and the services keep their types.
THEOREM AgentTypeCorrect == AgentSpec => []AgentTypeOK
<1>1. SocketInv /\ TypeOK /\ RetiredOK => AgentTypeOK
  BY DEF SocketInv, RetiredOK, AgentTypeOK
<1> QED BY <1>1, AgentInvariant, PTL

\* What is shown of the services holds with agents that race, crash and leave.
THEOREM AgentConvergedIsRight == AgentSpec => []ConvergedMatches
<1>1. ServicesInv => ConvergedMatches
  BY DEF ServicesInv, Clean, ConvergedMatches
<1> QED BY <1>1, AgentInvariant, PTL

\* While an agent listens at the path, no other agent's step takes the path
\* away (clear_socket_path, bind, remove_socket): any number of agents may race.
THEOREM SocketIsKept == AgentSpec => SocketStays
<1>1. ASSUME SocketInv, [AgentNext]_vars, NEW a \in Agent,
             sock[a] # None, path = sock[a], path' # path
      PROVE  UNCHANGED phase
  <2>1. ASSUME NEW b \in Agent, SocketAct(b) PROVE FALSE
    <3>1. phase[b] \in {"clear", "bind", "remove"}
      BY <1>1, <2>1 DEF SocketAct, Socket!acquire_lock, Socket!Claim, Socket!stat, Socket!probe,
         Socket!clear, Socket!bind, Socket!socket_identity, Socket!serve,
         Socket!shutdown_signal, Socket!Leave, Socket!remove_socket, Socket!remove_file
    <3>2. phase[a] \in {"identity", "boot", "serving"}
      BY <1>1 DEF SocketInv, Socket!LockTypeOK
    <3> QED BY <1>1, <3>1, <3>2 DEF SocketInv, Holds
  <2>2. CASE Socket!PathChanges
    BY <2>2 DEF Socket!PathChanges
  <2>3. CASE UNCHANGED socket
    BY <1>1, <2>3 DEF socket
  <2> QED BY <1>1, <2>1, <2>2, <2>3, SocketParts
<1>2. SocketInv /\ [AgentNext]_vars =>
          [\A a \in Agent : sock[a] # None /\ path = sock[a] /\ path' # path => UNCHANGED phase]_vars
  BY <1>1
<1> QED BY <1>2, AgentInvariant, PTL DEF AgentSpec, SocketStays

=============================================================================
