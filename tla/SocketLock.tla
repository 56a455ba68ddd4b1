----------------------------- MODULE SocketLock -----------------------------
(***************************************************************************)
(* How an agent comes by its socket and leaves it: the lock file, the      *)
(* socket a dead agent has left behind, the bind, and the removal at the   *)
(* end.  A step is one system call; agents are processes.  An inode is     *)
(* free again once no path and no listener has it, and may be given to the *)
(* next socket.  The lock file itself stays in place.  Outsiders may put   *)
(* something else at the path, and listen there.                           *)
(***************************************************************************)
EXTENDS Naturals

CONSTANTS Agent, Inode, None

VARIABLES
    lock,   \* who holds the lock on the lock file
    path,   \* the inode at socket_path
    alien,  \* the inodes at which an outsider listens, or that are no sockets
    phase,  \* per agent: the call it is about to make
    sock,   \* per agent: the inode of its listener
    ident   \* per agent: socket_identity, read after the bind

lvars == <<lock, path, alien, phase, sock, ident>>

Phase == {"off", "stat", "probe", "clear", "bind", "identity", "boot", "serving",
          "leave", "remove"}

LockTypeOK ==
    /\ lock \in Agent \union {None}
    /\ path \in Inode \union {None}
    /\ alien \subseteq Inode
    /\ phase \in [Agent -> Phase]
    /\ sock \in [Agent -> Inode \union {None}]
    /\ ident \in [Agent -> Inode \union {None}]
    /\ \A a \in Agent : sock[a] # None => phase[a] \in {"identity", "boot", "serving"}

\* A socket may be left from an earlier life.
LockInit ==
    /\ lock = None
    /\ path \in Inode \union {None}
    /\ alien = {}
    /\ phase = [a \in Agent |-> "off"]
    /\ sock = [a \in Agent |-> None]
    /\ ident = [a \in Agent |-> None]

Step(a, from, to) == phase[a] = from /\ phase' = [phase EXCEPT ![a] = to]

\* The process ends, by an error, at its end or by a signal: the kernel closes
\* the listener and releases the lock, and the path stays.
Exit(a) ==
    /\ phase' = [phase EXCEPT ![a] = "off"]
    /\ lock' = IF lock = a THEN None ELSE lock
    /\ sock' = [sock EXCEPT ![a] = None]
    /\ ident' = [ident EXCEPT ![a] = None]

-----------------------------------------------------------------------------

\* Mutant: the lock is not insisted on.
acquire_lock_Unchecked(a) ==
    /\ Step(a, "off", "stat")
    /\ lock' = a
    /\ UNCHANGED <<path, alien, sock, ident>>
\* try_lock, which fails at once if another agent holds it.
acquire_lock(a) ==
    /\ lock = None
    /\ Step(a, "off", "stat")
    /\ lock' = a
    /\ UNCHANGED <<path, alien, sock, ident>>

\* clear_socket_path: what is at the path, does anyone answer, remove it.  What is
\* no socket ends the agent.
stat(a) ==
    /\ phase[a] = "stat"
    /\ \/ Step(a, "stat", IF path = None THEN "bind" ELSE "probe") /\ UNCHANGED <<lock, sock, ident>>
       \/ path \in alien /\ Exit(a)
    /\ UNCHANGED <<path, alien>>

Listened(i) == i \in alien \/ \E b \in Agent : sock[b] = i

\* Refused is the one answer that allows removing; any other ends the agent.
\* Mutant: an error of the probe ends the agent.
probe_RefusedIsAnError(a) ==
    /\ phase[a] = "probe"
    /\ Exit(a)
    /\ UNCHANGED <<path, alien>>
probe(a) ==
    /\ phase[a] = "probe"
    /\ IF path # None /\ ~Listened(path)
       THEN Step(a, "probe", "clear") /\ UNCHANGED <<lock, sock, ident>>
       ELSE Exit(a)
    /\ UNCHANGED <<path, alien>>

clear(a) ==
    /\ phase[a] = "clear"
    /\ IF path # None
       THEN /\ path' = None
            /\ Step(a, "clear", "bind")
            /\ UNCHANGED <<lock, sock, ident>>
       ELSE Exit(a) /\ UNCHANGED path
    /\ UNCHANGED alien

bind(a) ==
    /\ phase[a] = "bind"
    /\ IF path = None
       THEN \E i \in {j \in Inode : ~Listened(j)} :
                /\ path' = i
                /\ sock' = [sock EXCEPT ![a] = i]
                /\ Step(a, "bind", "identity")
                /\ UNCHANGED <<lock, ident>>
       ELSE Exit(a) /\ UNCHANGED path
    /\ UNCHANGED alien

\* set_permissions and socket_identity, both of the path.
socket_identity(a) ==
    /\ phase[a] = "identity"
    /\ IF path # None
       THEN /\ ident' = [ident EXCEPT ![a] = path]
            /\ Step(a, "identity", "boot")
            /\ UNCHANGED <<lock, sock>>
       ELSE Exit(a)
    /\ UNCHANGED <<path, alien>>

\* axum::serve takes the listener over; on a signal it is closed.
serve(a) == Step(a, "boot", "serving") /\ UNCHANGED <<lock, path, alien, sock, ident>>

\* Mutant: the listener is still open while the socket is removed.
shutdown_signal_KeepsListening(a) ==
    Step(a, "serving", "leave") /\ UNCHANGED <<lock, path, alien, sock, ident>>
shutdown_signal(a) ==
    /\ Step(a, "serving", "leave")
    /\ sock' = [sock EXCEPT ![a] = None]
    /\ UNCHANGED <<lock, path, alien, ident>>

\* remove_socket: only what is still the agent's own, as far as it can tell.
remove_socket(a) ==
    /\ phase[a] = "leave"
    /\ IF path # None /\ path = ident[a]
       THEN Step(a, "leave", "remove") /\ UNCHANGED <<lock, sock, ident>>
       ELSE Exit(a)
    /\ UNCHANGED <<path, alien>>

remove_file(a) ==
    /\ phase[a] = "remove"
    /\ path' = None
    /\ Exit(a)
    /\ UNCHANGED alien

Claim(a) == stat(a) \/ probe(a) \/ clear(a) \/ bind(a) \/ socket_identity(a)
Leave(a) == remove_socket(a) \/ remove_file(a)

\* Somebody removes the socket, or puts another one or something else at the
\* path, and listens there or not any more.
PathChanges ==
    /\ \/ \E i \in Inode \ {path} : ~Listened(i) /\ path' = i /\ alien' \in {alien, alien \union {i}}
       \/ path # None /\ path' = None /\ UNCHANGED alien
       \/ \E i \in alien : alien' = alien \ {i} /\ UNCHANGED path
    /\ \E i \in Inode : i \notin alien'    \* the file system has one to give
    /\ UNCHANGED <<lock, phase, sock, ident>>

=============================================================================
