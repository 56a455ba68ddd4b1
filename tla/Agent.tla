------------------------------- MODULE Agent -------------------------------
(***************************************************************************)
(* main, of agents that are started one after the other or at the same     *)
(* time: the lock and the socket (SocketLock), then the services and the   *)
(* proxy's routes (Services), then serving until a signal or a crash.      *)
(* What the services are is on the host and outlives an agent; at most one *)
(* agent gets far enough to touch them, so Services has one Main.          *)
(***************************************************************************)
EXTENDS Services

CONSTANTS Agent, Inode

VARIABLES
    lock, path, alien, phase, sock, ident,
    retired     \* agents that have ended with success: nobody starts them again by himself

Socket == INSTANCE SocketLock

socket == <<lock, path, alien, phase, sock, ident>>
vars == <<svars, socket, retired>>

ASSUME NoneIsFresh == None \notin Agent \union Inode
ASSUME FaultsKnown == Faults \subseteq {"docker", "timeout", "restart", "crash", "boot", "path", "drop"}

AgentTypeOK == TypeOK /\ Socket!LockTypeOK /\ retired \subseteq Agent

AgentInit == Init /\ Socket!LockInit /\ retired = {}

Booting == \E a \in Agent : phase[a] = "boot"

\* main up to the socket, of an agent that systemd or somebody has started.
Claims(a) ==
    /\ Socket!acquire_lock(a) \/ Socket!Claim(a)
    /\ retired' = retired \ {a}
    /\ UNCHANGED svars

\* The services are seen to and the proxy's routes applied, by whoever boots.
StartsServices ==
    /\ Booting
    /\ Startup
    /\ UNCHANGED <<socket, retired>>

\* axum::serve is reached.
Serves ==
    /\ serving
    /\ \E a \in Agent : Socket!serve(a)
    /\ UNCHANGED <<svars, retired>>

HandlesRequests ==
    /\ \E a \in Agent : phase[a] = "serving"
    /\ Requests
    /\ UNCHANGED <<socket, retired>>

\* SIGTERM, graceful: no new request, and main goes on when none is left.
ShutsDown ==
    /\ \A t \in Toggle : pc[t] = "idle"
    /\ Edit
    /\ \E a \in Agent : Socket!shutdown_signal(a)
    /\ Down
    /\ UNCHANGED <<faults, retired>>

Leaves ==
    /\ \E a \in Agent :
        /\ Socket!Leave(a)
        /\ retired' = IF phase'[a] = "off" THEN retired \union {a} ELSE retired
    /\ UNCHANGED svars

\* The process ends: whatever was under way stops where it is.
Dies(a) ==
    /\ Socket!Exit(a)
    /\ IF phase[a] \in {"boot", "serving"} THEN Down
       ELSE UNCHANGED <<setting, container, applied, routes, serving, boot, actors, dirty>>
    /\ UNCHANGED <<path, alien>>

\* An agent is killed, or its boot fails.
Crash(a) ==
    /\ \/ phase[a] # "off" /\ Fault("crash")
       \/ phase[a] = "boot" /\ Fault("boot")
    /\ Dies(a)
    /\ UNCHANGED <<edits, retired>>

\* SIGTERM before shutdown_signal handles it: the process dies, which systemd
\* takes for a success.
Terminated(a) ==
    /\ phase[a] \notin {"off", "serving", "leave", "remove"}
    /\ Edit
    /\ Dies(a)
    /\ retired' = retired \union {a}
    /\ UNCHANGED faults

Environment ==
    \/ /\ \/ Booting \/ serving
       /\ \E a \in Actor : CallFails(a)
       /\ UNCHANGED <<socket, retired>>
    \/ (\E s \in Service : Restarts(s)) /\ UNCHANGED <<socket, retired>>
    \/ /\ Fault("path") /\ Socket!PathChanges
       /\ UNCHANGED <<retired, setting, container, applied, routes, serving, boot, actors, dirty, edits>>

AgentNext ==
    \/ StartsServices \/ Serves \/ HandlesRequests \/ ShutsDown \/ Leaves
    \/ \E a \in Agent : Claims(a) \/ Crash(a) \/ Terminated(a)
    \/ Environment

\* systemd starts the agents again that have failed (Restart=on-failure), and not
\* those that ended with success; processes are scheduled, docker and Caddy answer.
\* Users and faults owe nothing.
AgentSpec ==
    /\ AgentInit /\ [][AgentNext]_vars
    /\ \A a \in Agent : WF_vars(a \notin retired /\ Claims(a))
    /\ WF_vars(StartsServices) /\ WF_vars(Serves) /\ WF_vars(Leaves)
    /\ \A t \in Toggle : WF_vars(Request(t) /\ UNCHANGED <<socket, retired>>)

-----------------------------------------------------------------------------
(* Properties                                                              *)

\* While an agent listens at the path, no step of another agent puts anything
\* else or nothing there: not one that cleans up what it takes for stale, not
\* one that binds, not one that leaves late.  Only outsiders can.
SocketStays ==
    [][\A a \in Agent :
         sock[a] # None /\ path = sock[a] /\ path' # path => UNCHANGED phase]_vars

\* However agents were killed, left sockets behind, lost theirs or raced for
\* the lock, in the end one of them serves and has seen to the services; unless
\* all were told to end, or what is at the path is not theirs to remove.
OneServes ==
    <>[](\/ serving /\ \E a \in Agent : phase[a] = "serving"
         \/ retired = Agent \/ path \in alien)

=============================================================================
