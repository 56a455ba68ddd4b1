------------------------------ MODULE AgentLog ------------------------------
(***************************************************************************)
(* The agent's own log: threads push lines into a bounded buffer and a     *)
(* broadcast channel, in two steps, while a request for the log takes the  *)
(* buffer's tail and subscribes, in two more, and then streams both to a   *)
(* client that may read slowly.  A line is known by its thread and number. *)
(***************************************************************************)
EXTENDS Naturals, Sequences, FiniteSetsExt, Functions

CONSTANTS
    Thread,
    CAPACITY,          \* lines the buffer keeps
    CHANNEL_CAPACITY,  \* lines the channel keeps for a slow receiver
    MAX_TAIL,
    MaxLines           \* bound: lines per thread

ASSUME Capacities == CAPACITY \in Nat \ {0} /\ CHANNEL_CAPACITY \in Nat \ {0}
ASSUME LogBounds == MAX_TAIL \in Nat /\ MaxLines \in Nat

VARIABLES
    logged,    \* per thread: lines it has begun to push
    pushing,   \* per thread: what is left of its push
    recent,    \* AgentLog.recent
    sent,      \* all that was sent; the channel keeps the end of it
    call,      \* what is left of agent_logs, then Open until the client leaves
    backlog,   \* what is left of the replay
    position,  \* the receiver's: lines of sent it is past
    got,       \* history: what the client was sent, in order
    told,      \* history: lines a lagged event stands for
    begun,     \* history: lines whose push had begun when the tail was taken
    waived     \* history: lines the client has no claim to

log == <<logged, pushing, recent, sent>>
client == <<call, backlog, position, got, told, begun, waived>>
vars == <<log, client>>

Line == Thread \X (1 .. MaxLines)
Begun == {l \in Line : l[2] <= logged[l[1]]}
Buffered == {l \in Begun : l[2] = logged[l[1]] => "buffer" \notin Range(pushing[l[1]])}
Open == <<>>
Left == <<"left">>      \* the client closed the connection
Closed == <<"closed">>  \* the stream ended by itself

\* Mutant: a line is broadcast before it is in the buffer.
push_SendFirst == <<"send", "buffer">>
\* AgentLog::push lets go of the buffer before it sends.
push == <<"buffer", "send">>

\* Mutant: the stream is subscribed to first, so that nothing can be missed.
agent_logs_SubscribeFirst == <<"subscribe", "recent">>
agent_logs == <<"recent", "subscribe">>

TypeOK ==
    /\ logged \in [Thread -> 0 .. MaxLines]
    /\ pushing \in [Thread -> {<<>>, Tail(push)}]
    /\ recent \in Seq(Line) /\ Len(recent) <= CAPACITY
    /\ sent \in Seq(Line) /\ position \in 0 .. Len(sent)
    /\ call \in {agent_logs, Tail(agent_logs), Open, Left, Closed}
    /\ backlog \in Seq(Line) /\ Len(backlog) <= MAX_TAIL
    /\ got \in Seq(Line)
    /\ told \subseteq Line /\ begun \subseteq Line /\ waived \subseteq Line

Init ==
    /\ logged = [t \in Thread |-> 0]
    /\ pushing = [t \in Thread |-> <<>>]
    /\ recent = <<>> /\ sent = <<>>
    /\ call = agent_logs /\ backlog = <<>> /\ position = 0
    /\ got = <<>> /\ told = {} /\ begun = {} /\ waived = {}

-----------------------------------------------------------------------------
(* A thread that logs                                                      *)

\* Mutant: the bound is looked at after the line is in.
Bounded_OneMore(lines) == IF Len(lines) > CAPACITY + 1 THEN Tail(lines) ELSE lines
Bounded(lines) == IF Len(lines) > CAPACITY THEN Tail(lines) ELSE lines

Perform(step, line) ==
    \/ /\ step = "buffer"
       /\ recent' = Bounded(Append(recent, line))
       /\ UNCHANGED sent
    \/ /\ step = "send"
       /\ sent' = Append(sent, line)
       /\ UNCHANGED recent

on_event(t) ==
    /\ pushing[t] = <<>> /\ logged[t] < MaxLines
    /\ logged' = [logged EXCEPT ![t] = @ + 1]
    /\ Perform(Head(push), <<t, logged'[t]>>)
    /\ pushing' = [pushing EXCEPT ![t] = Tail(push)]
    /\ UNCHANGED client

\* The rest of push, with other threads between its two steps.
push_on(t) ==
    /\ pushing[t] # <<>>
    /\ Perform(Head(pushing[t]), <<t, logged[t]>>)
    /\ pushing' = [pushing EXCEPT ![t] = Tail(@)]
    /\ UNCHANGED <<logged, client>>

-----------------------------------------------------------------------------
(* A request for the log                                                   *)

Newest(tail, lines) == SubSeq(lines, Len(lines) - Min({tail, Len(lines)}) + 1, Len(lines))

\* Lines buffered before that are not in the tail were not asked for.
take_recent ==
    /\ call # Open /\ Head(call) = "recent"
    /\ \E tail \in 0 .. MAX_TAIL : backlog' = Newest(tail, recent)
    /\ begun' = Begun
    /\ waived' = waived \union (Buffered \ Range(backlog'))
    /\ call' = Tail(call)
    /\ UNCHANGED <<log, position, got, told>>

\* Lines logged wholly between the two calls are in neither.
subscribe ==
    /\ call # Open /\ Head(call) = "subscribe"
    /\ position' = Len(sent)
    /\ waived' = waived \union (Range(sent) \ begun)
    /\ call' = Tail(call)
    /\ UNCHANGED <<log, backlog, got, told, begun>>

Replay ==
    /\ call = Open /\ backlog # <<>>
    /\ got' = Append(got, Head(backlog)) /\ backlog' = Tail(backlog)
    /\ UNCHANGED <<log, call, position, told, begun, waived>>

Behind == Len(sent) - position > CHANNEL_CAPACITY
Oldest == Len(sent) - CHANNEL_CAPACITY

\* Mutant: any error ends the stream.
Lagged_EndsStream == call' = Closed /\ UNCHANGED <<position, told>>
\* The receiver is moved to the oldest line kept, and the client is told.
Lagged ==
    /\ position' = Oldest
    /\ told' = told \union {sent[i] : i \in position + 1 .. Oldest}
    /\ UNCHANGED call

recv ==
    /\ call = Open /\ backlog = <<>> /\ position < Len(sent)
    /\ \/ Behind /\ Lagged /\ UNCHANGED got
       \/ /\ ~ Behind
          /\ got' = Append(got, sent[position + 1]) /\ position' = position + 1
          /\ UNCHANGED <<call, told>>
    /\ UNCHANGED <<log, backlog, begun, waived>>

Leave ==
    /\ call = Open
    /\ call' = Left
    /\ UNCHANGED <<log, backlog, position, got, told, begun, waived>>

Stream == Replay \/ recv
Next ==
    \/ \E t \in Thread : on_event(t) \/ push_on(t)
    \/ take_recent \/ subscribe \/ Stream \/ Leave

\* The server polls the stream for as long as the client reads.
Spec == Init /\ [][Next]_vars /\ WF_vars(Stream)

-----------------------------------------------------------------------------
(* Properties                                                              *)

\* The only lines a client misses without being told are those a thread logged
\* wholly between the request's two calls (agent_logs), or lie beyond the tail it
\* asked for and were sent by the second.  Of what it asked for, what is half pushed
\* at either call is in the backlog or in the stream, or in both.  It takes push to
\* buffer before it sends.
LostOnlyBetween ==
    call = Open =>
        Range(sent) \subseteq Range(got) \union Range(backlog) \union told \union waived
                                  \union {sent[i] : i \in position + 1 .. Len(sent)}

\* A client never sees a thread go back: a line may come twice, in the backlog
\* and in the stream, but none that is older than one it has had.  Subscribing
\* first, to close the gap, would break it.
ThreadOrder ==
    \A i, j \in DOMAIN got : i < j /\ got[i][1] = got[j][1] => got[i][2] <= got[j][2]

\* However slowly it reads, a client that stays comes to the end of what was
\* sent: falling behind costs it lines, never the stream.
CatchesUp == call = Open ~> (call = Left \/ (call = Open /\ backlog = <<>> /\ position = Len(sent)))
=============================================================================
