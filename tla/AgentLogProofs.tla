--------------------------- MODULE AgentLogProofs ---------------------------
(***************************************************************************)
(* Theorems about AgentLog, for any number of threads, lines and           *)
(* capacities: its types, that a client misses without being told only     *)
(* lines logged wholly between the request's two calls, and that it never  *)
(* sees a thread go back.                                                  *)
(***************************************************************************)
EXTENDS AgentLog, SequenceTheorems, TLAPS

-----------------------------------------------------------------------------
(* The inductive invariants                                                *)

\* A push that is half done is that of a line.
TypeInv == TypeOK /\ \A t \in Thread : pushing[t] # <<>> => logged[t] # 0

Ahead == position + 1 .. Len(sent)

\* What had begun when the tail was taken is in the tail or was not asked for.
TailCovers == call = Tail(agent_logs) => begun \subseteq Range(backlog) \union waived

LossInv == TailCovers /\ LostOnlyBetween

\* Of one thread's lines, l does not come after m.
Before(l, m) == l[1] = m[1] => l[2] <= m[2]
InOrder(lines) == \A i, j \in DOMAIN lines : i < j => Before(lines[i], lines[j])
Logged(lines) == \A i \in DOMAIN lines : lines[i][2] <= logged[lines[i][1]]

\* Everywhere lines are kept a thread's are in the order it logged them,
LogInOrder == InOrder(recent) /\ Logged(recent) /\ InOrder(sent) /\ Logged(sent)
ClientInOrder == InOrder(backlog) /\ Logged(backlog) /\ InOrder(got) /\ Logged(got)

\* and what the client was sent comes before what it still will be.
Continues ==
    /\ \A i \in DOMAIN got, j \in DOMAIN backlog : Before(got[i], backlog[j])
    /\ call = Open =>
        \A k \in Ahead :
            /\ \A i \in DOMAIN got : Before(got[i], sent[k])
            /\ \A j \in DOMAIN backlog : Before(backlog[j], sent[k])
    /\ call \in {agent_logs, Tail(agent_logs)} => got = <<>>

OrderInv == LogInOrder /\ ClientInOrder /\ Continues

-----------------------------------------------------------------------------
(* Lemmas on sequences                                                     *)

LEMMA StepsOfPush ==
    /\ Head(push) = "buffer" /\ Tail(push) = <<"send">> /\ Tail(push) # <<>>
    /\ Head(Tail(push)) = "send" /\ Tail(Tail(push)) = <<>>
BY DEF push

LEMMA StepsOfCall ==
    /\ Head(agent_logs) = "recent" /\ Tail(agent_logs) = <<"subscribe">>
    /\ Head(Tail(agent_logs)) = "subscribe" /\ Tail(Tail(agent_logs)) = Open
    /\ agent_logs # Tail(agent_logs) /\ agent_logs # Open /\ Tail(agent_logs) # Open
    /\ Left \notin {agent_logs, Tail(agent_logs), Open}
    /\ Closed \notin {agent_logs, Tail(agent_logs), Open}
    /\ Head(Left) = "left" /\ Head(Closed) = "closed"
BY DEF agent_logs, Open, Left, Closed

LEMMA MinOfTwo ==
    ASSUME NEW m \in Nat, NEW n \in Nat
    PROVE  Min({m, n}) \in 0 .. n /\ Min({m, n}) <= m
<1>1. \E k \in {m, n} : \A l \in {m, n} : k <= l
  OBVIOUS
<1> QED BY <1>1 DEF Min

\* Every line of Bounded(lines) is one of lines, and they keep their order.
LEMMA BoundedIsTail ==
    ASSUME NEW lines \in Seq(Line), lines # <<>>
    PROVE  /\ Bounded(lines) \in Seq(Line)
           /\ Len(lines) <= CAPACITY + 1 => Len(Bounded(lines)) <= CAPACITY
           /\ \E d \in {0, 1} :
                 /\ Len(Bounded(lines)) = Len(lines) - d
                 /\ \A i \in 1 .. Len(Bounded(lines)) : Bounded(lines)[i] = lines[i + d]
<1>1. CAPACITY \in Nat /\ Len(lines) \in Nat
  BY Capacities, LenProperties
<1>2. /\ Tail(lines) \in Seq(Line) /\ Len(Tail(lines)) = Len(lines) - 1
      /\ \A i \in 1 .. Len(Tail(lines)) : Tail(lines)[i] = lines[i + 1]
  BY HeadTailProperties
<1>3. CASE Len(lines) > CAPACITY
  BY <1>1, <1>2, <1>3 DEF Bounded
<1>4. CASE ~(Len(lines) > CAPACITY)
  <2>1. Bounded(lines) = lines
    BY <1>4 DEF Bounded
  <2>2. /\ Len(Bounded(lines)) = Len(lines) - 0
        /\ \A i \in 1 .. Len(Bounded(lines)) : Bounded(lines)[i] = lines[i + 0]
    BY <2>1, <1>1
  <2> QED BY <2>1, <2>2, <1>1, <1>4
<1> QED BY <1>3, <1>4

\* The tail that is asked for is the end of the lines.
LEMMA NewestIsEnd ==
    ASSUME NEW lines \in Seq(Line), NEW tail \in Nat
    PROVE  /\ Newest(tail, lines) \in Seq(Line)
           /\ Len(Newest(tail, lines)) <= tail
           /\ \E d \in 0 .. Len(lines) :
                 /\ Len(Newest(tail, lines)) = Len(lines) - d
                 /\ \A i \in 1 .. Len(Newest(tail, lines)) : Newest(tail, lines)[i] = lines[i + d]
<1> DEFINE k == Min({tail, Len(lines)})  m == Len(lines) - k + 1
<1>1. Len(lines) \in Nat /\ \A i \in 1 .. Len(lines) : lines[i] \in Line
  BY LenProperties, ElementOfSeq
<1>2. k \in 0 .. Len(lines) /\ k <= tail
  BY <1>1, MinOfTwo
<1> HIDE DEF k
<1>3. m \in Int /\ Len(lines) \in Int /\ \A i \in m .. Len(lines) : lines[i] \in Line
  BY <1>1, <1>2
<1>4. Newest(tail, lines) = SubSeq(lines, m, Len(lines))
  BY DEF Newest, k
<1>5. /\ SubSeq(lines, m, Len(lines)) \in Seq(Line)
      /\ Len(SubSeq(lines, m, Len(lines))) = IF m <= Len(lines) THEN Len(lines) - m + 1 ELSE 0
      /\ \A i \in 1 .. Len(lines) - m + 1 : SubSeq(lines, m, Len(lines))[i] = lines[m + i - 1]
  BY <1>3, SubSeqProperties
<1>6. Len(lines) - k \in 0 .. Len(lines)
  BY <1>1, <1>2
<1>7. Len(Newest(tail, lines)) = k
  BY <1>1, <1>2, <1>4, <1>5
<1>8. \A i \in 1 .. k : Newest(tail, lines)[i] = lines[i + (Len(lines) - k)]
  BY <1>1, <1>2, <1>4, <1>5
<1>9. \E d \in 0 .. Len(lines) :
         /\ Len(Newest(tail, lines)) = Len(lines) - d
         /\ \A i \in 1 .. Len(Newest(tail, lines)) : Newest(tail, lines)[i] = lines[i + d]
  <2> WITNESS Len(lines) - k \in 0 .. Len(lines)
  <2> QED BY <1>1, <1>2, <1>7, <1>8
<1> QED BY <1>2, <1>4, <1>5, <1>7, <1>9

LEMMA RangeOfLines ==
    ASSUME NEW lines \in Seq(Line)
    PROVE  /\ Range(lines) \subseteq Line
           /\ Range(lines) = {lines[i] : i \in 1 .. Len(lines)}
           /\ DOMAIN lines = 1 .. Len(lines) /\ Len(lines) \in Nat
BY LenProperties, ElementOfSeq DEF Range

LEMMA RangeAppended ==
    ASSUME NEW lines \in Seq(Line), NEW line \in Line
    PROVE  Range(Append(lines, line)) = Range(lines) \union {line}
<1> DEFINE longer == Append(lines, line)
<1>1. /\ longer \in Seq(Line) /\ Len(longer) = Len(lines) + 1
      /\ \A i \in 1 .. Len(lines) : longer[i] = lines[i]
      /\ longer[Len(lines) + 1] = line
  BY AppendProperties
<1> HIDE DEF longer
<1>2. /\ Range(longer) = {longer[i] : i \in 1 .. Len(longer)}
      /\ Range(lines) = {lines[i] : i \in 1 .. Len(lines)} /\ Len(lines) \in Nat
  BY <1>1, RangeOfLines
<1>3. Range(longer) = Range(lines) \union {line}
  BY <1>1, <1>2
<1> QED BY <1>3 DEF longer

LEMMA RangeHeadTail ==
    ASSUME NEW lines \in Seq(Line), lines # <<>>
    PROVE  Range(lines) = {Head(lines)} \union Range(Tail(lines))
<1> DEFINE rest == Tail(lines)
<1>1. /\ rest \in Seq(Line) /\ Len(rest) = Len(lines) - 1
      /\ \A i \in 1 .. Len(rest) : rest[i] = lines[i + 1]
      /\ Head(lines) = lines[1] /\ Len(lines) \in Nat \ {0}
  BY HeadTailProperties, EmptySeq
<1> HIDE DEF rest
<1>2. \A i \in 2 .. Len(lines) : i - 1 \in 1 .. Len(rest) /\ lines[i] = rest[i - 1]
  BY <1>1
<1>3. /\ Range(rest) = {rest[i] : i \in 1 .. Len(rest)}
      /\ Range(lines) = {lines[i] : i \in 1 .. Len(lines)}
  BY <1>1, RangeOfLines
<1>4. \A i \in 1 .. Len(rest) : i + 1 \in 1 .. Len(lines)
  BY <1>1
<1>5. Range(lines) = {Head(lines)} \union Range(rest)
  BY <1>1, <1>2, <1>3, <1>4
<1> QED BY <1>5 DEF rest

-----------------------------------------------------------------------------
(* Types                                                                   *)

LEMMA PerformTypes ==
    ASSUME TypeOK, NEW step, NEW line \in Line, Perform(step, line)
    PROVE  /\ recent' \in Seq(Line) /\ Len(recent') <= CAPACITY
           /\ sent' \in Seq(Line) /\ position \in 0 .. Len(sent')
           /\ Len(sent) <= Len(sent') /\ \A i \in 1 .. Len(sent) : sent'[i] = sent[i]
<1>1. /\ recent \in Seq(Line) /\ Len(recent) <= CAPACITY /\ Len(recent) \in Nat
      /\ sent \in Seq(Line) /\ position \in 0 .. Len(sent) /\ Len(sent) \in Nat
      /\ CAPACITY \in Nat
  BY Capacities, LenProperties DEF TypeOK
<1>2. CASE step = "buffer" /\ recent' = Bounded(Append(recent, line)) /\ UNCHANGED sent
  <2>1. /\ Append(recent, line) \in Seq(Line) /\ Append(recent, line) # <<>>
        /\ Len(Append(recent, line)) = Len(recent) + 1
    BY <1>1, AppendProperties
  <2> DEFINE lines == Append(recent, line)
  <2>2. lines \in Seq(Line) /\ lines # <<>> /\ Len(lines) <= CAPACITY + 1
    BY <1>1, <2>1
  <2> HIDE DEF lines
  <2>3. Bounded(lines) \in Seq(Line) /\ Len(Bounded(lines)) <= CAPACITY
    BY <2>2, BoundedIsTail
  <2> QED BY <1>1, <1>2, <2>3 DEF lines
<1>3. CASE step = "send" /\ sent' = Append(sent, line) /\ UNCHANGED recent
  <2>1. /\ sent' \in Seq(Line) /\ Len(sent') = Len(sent) + 1
        /\ \A i \in 1 .. Len(sent) : sent'[i] = sent[i]
    BY <1>1, <1>3, AppendProperties
  <2> QED BY <1>1, <1>3, <2>1
<1> QED BY <1>2, <1>3 DEF Perform

LEMMA PushTypes ==
    ASSUME TypeInv, NEW t \in Thread, on_event(t) \/ push_on(t)
    PROVE  TypeInv'
<1>1. /\ logged \in [Thread -> 0 .. MaxLines] /\ MaxLines \in Nat
      /\ pushing \in [Thread -> {<<>>, Tail(push)}]
  BY LogBounds DEF TypeInv, TypeOK
<1>2. /\ logged' \in [Thread -> 0 .. MaxLines] /\ logged'[t] \in 1 .. MaxLines
      /\ pushing' \in [Thread -> {<<>>, Tail(push)}]
      /\ \A u \in Thread : pushing'[u] # <<>> => logged'[u] # 0
  <2>1. CASE on_event(t)
    BY <1>1, <2>1 DEF on_event, TypeInv
  <2>2. CASE push_on(t)
    BY <1>1, <2>2, StepsOfPush DEF push_on, TypeInv
  <2> QED BY <2>1, <2>2
<1>3. \E step : Perform(step, <<t, logged'[t]>>)
  BY <1>1 DEF on_event, push_on
<1>4. <<t, logged'[t]>> \in Line
  BY <1>2 DEF Line
<1>5. /\ recent' \in Seq(Line) /\ Len(recent') <= CAPACITY
      /\ sent' \in Seq(Line) /\ position \in 0 .. Len(sent')
  BY <1>3, <1>4, PerformTypes DEF TypeInv
<1>6. UNCHANGED client
  BY DEF on_event, push_on
<1> QED BY <1>2, <1>5, <1>6 DEF TypeInv, TypeOK, client

LEMMA RequestTypes ==
    ASSUME TypeInv, take_recent \/ subscribe \/ Leave
    PROVE  TypeInv'
<1>1. recent \in Seq(Line) /\ sent \in Seq(Line) /\ MAX_TAIL \in Nat /\ Len(sent) \in Nat
  BY LogBounds, LenProperties DEF TypeInv, TypeOK
<1>2. CASE take_recent
  <2>1. PICK tail \in 0 .. MAX_TAIL : backlog' = Newest(tail, recent)
    BY <1>2 DEF take_recent
  <2>2. backlog' \in Seq(Line) /\ Len(backlog') <= MAX_TAIL
    BY <1>1, <2>1, NewestIsEnd, LenProperties
  <2>3. begun' \subseteq Line /\ waived' \subseteq Line
    BY <1>2 DEF take_recent, Buffered, Begun, TypeInv, TypeOK
  <2>4. call' = Tail(agent_logs)
    BY <1>2, StepsOfCall DEF take_recent, TypeInv, TypeOK
  <2> QED BY <1>2, <2>2, <2>3, <2>4 DEF take_recent, TypeInv, TypeOK, log
<1>3. CASE subscribe
  <2>1. waived' \subseteq Line
    BY <1>1, <1>3, RangeOfLines DEF subscribe, TypeInv, TypeOK
  <2>2. call = Tail(agent_logs)
    BY <1>3, StepsOfCall DEF subscribe, TypeInv, TypeOK
  <2>3. call' = Open /\ position' \in 0 .. Len(sent)
    BY <1>1, <1>3, <2>2, StepsOfCall DEF subscribe
  <2> QED BY <1>3, <2>1, <2>3 DEF subscribe, TypeInv, TypeOK, log
<1>4. CASE Leave
  BY <1>4 DEF Leave, TypeInv, TypeOK, log
<1> QED BY <1>2, <1>3, <1>4

LEMMA StreamTypes ==
    ASSUME TypeInv, Stream
    PROVE  TypeInv'
<1>1. /\ sent \in Seq(Line) /\ got \in Seq(Line) /\ backlog \in Seq(Line)
      /\ Len(sent) \in Nat /\ position \in 0 .. Len(sent) /\ CHANNEL_CAPACITY \in Nat
      /\ Len(backlog) \in Nat /\ Len(backlog) <= MAX_TAIL
      /\ \A i \in 1 .. Len(sent) : sent[i] \in Line
  BY Capacities, LenProperties, ElementOfSeq DEF TypeInv, TypeOK
<1>2. CASE Replay
  <2>1. /\ Head(backlog) \in Line /\ Tail(backlog) \in Seq(Line)
        /\ Len(Tail(backlog)) <= MAX_TAIL
    BY <1>1, <1>2, HeadTailProperties, LogBounds DEF Replay
  <2>2. got' \in Seq(Line)
    BY <1>1, <1>2, <2>1, AppendProperties DEF Replay
  <2> QED BY <1>2, <2>1, <2>2 DEF Replay, TypeInv, TypeOK, log
<1>3. CASE recv /\ Behind /\ Lagged /\ UNCHANGED got
  <2>1. position' \in 0 .. Len(sent) /\ told' \subseteq Line
    BY <1>1, <1>3 DEF Behind, Lagged, Oldest, TypeInv, TypeOK
  <2> QED BY <1>3, <2>1 DEF recv, Lagged, TypeInv, TypeOK, log
<1>4. CASE recv /\ ~Behind /\ got' = Append(got, sent[position + 1])
           /\ position' = position + 1 /\ UNCHANGED <<call, told>>
  <2>1. position' \in 0 .. Len(sent) /\ sent[position + 1] \in Line
    BY <1>1, <1>4 DEF recv
  <2>2. got' \in Seq(Line)
    BY <1>1, <1>4, <2>1, AppendProperties
  <2> QED BY <1>4, <2>1, <2>2 DEF recv, TypeInv, TypeOK, log
<1> QED BY <1>2, <1>3, <1>4 DEF Stream, recv

LEMMA LogTypeInit == Init => TypeInv
BY Capacities, LogBounds, StepsOfPush, EmptySeq DEF Init, TypeInv, TypeOK

LEMMA LogTypeStep == TypeInv /\ [Next]_vars => TypeInv'
<1> SUFFICES ASSUME TypeInv, [Next]_vars PROVE TypeInv'
  OBVIOUS
<1>1. CASE UNCHANGED vars
  BY <1>1 DEF vars, log, client, TypeInv, TypeOK
<1> QED BY <1>1, PushTypes, RequestTypes, StreamTypes DEF Next

\* The log, the request and the stream are of their types (TypeOK).
THEOREM LogTypeCorrect == Spec => []TypeOK
<1>1. TypeInv => TypeOK
  BY DEF TypeInv
<1> QED BY <1>1, LogTypeInit, LogTypeStep, PTL DEF Spec

-----------------------------------------------------------------------------
(* What a client misses                                                    *)

\* A push buffers first, so that whatever has begun is buffered.
LEMMA BegunIsBuffered ==
    ASSUME TypeOK
    PROVE  Buffered = Begun
<1>1. "buffer" \notin Range(<<>>) /\ "buffer" \notin Range(Tail(push))
  BY StepsOfPush DEF Range
<1>2. \A l \in Begun : pushing[l[1]] \in {<<>>, Tail(push)}
  BY DEF TypeOK, Begun, Line
<1> QED BY <1>1, <1>2 DEF Buffered

LEMMA PushLoses ==
    ASSUME TypeInv, LossInv, NEW t \in Thread, on_event(t) \/ push_on(t)
    PROVE  LossInv'
<1>1. UNCHANGED client /\ \E step : Perform(step, <<t, logged'[t]>>)
  BY DEF TypeInv, TypeOK, on_event, push_on
<1>2. <<t, logged'[t]>> \in Line
  <2>1. TypeInv'
    BY PushTypes
  <2>2. logged'[t] # 0
    BY LogBounds DEF TypeInv, TypeOK, on_event, push_on
  <2> QED BY <2>1, <2>2, LogBounds DEF TypeInv, TypeOK, Line
<1>3. /\ sent \in Seq(Line) /\ sent' \in Seq(Line) /\ position \in 0 .. Len(sent)
      /\ Len(sent) <= Len(sent') /\ \A i \in 1 .. Len(sent) : sent'[i] = sent[i]
  BY <1>1, <1>2, PerformTypes DEF TypeInv, TypeOK
<1>4. Len(sent) \in Nat /\ Len(sent') \in Nat
  BY <1>3, LenProperties
<1>5. Range(sent') \subseteq Range(sent) \union {sent'[i] : i \in position + 1 .. Len(sent')}
  BY <1>3, <1>4, RangeOfLines
<1>6. {sent[i] : i \in position + 1 .. Len(sent)} \subseteq {sent'[i] : i \in position + 1 .. Len(sent')}
  BY <1>3, <1>4
<1> QED BY <1>1, <1>5, <1>6 DEF LossInv, TailCovers, LostOnlyBetween, client

LEMMA RequestLoses ==
    ASSUME TypeInv, LossInv, take_recent \/ subscribe \/ Leave
    PROVE  LossInv'
<1>1. CASE take_recent
  <2>1. call' = Tail(agent_logs)
    BY <1>1, StepsOfCall DEF take_recent, TypeInv, TypeOK
  <2>2. begun' \subseteq Range(backlog') \union waived'
    BY <1>1, BegunIsBuffered DEF take_recent, TypeInv
  <2> QED BY <2>1, <2>2, StepsOfCall DEF LossInv, TailCovers, LostOnlyBetween
<1>2. CASE subscribe
  <2>1. call = Tail(agent_logs) /\ call' = Open
    BY <1>2, StepsOfCall DEF subscribe, TypeInv, TypeOK
  <2>2. Range(sent) \subseteq Range(backlog) \union waived'
    BY <1>2, <2>1 DEF subscribe, LossInv, TailCovers
  <2>3. UNCHANGED <<backlog, sent>>
    BY <1>2 DEF subscribe, log
  <2> QED BY <2>1, <2>2, <2>3, StepsOfCall DEF LossInv, TailCovers, LostOnlyBetween
<1>3. CASE Leave
  BY <1>3, StepsOfCall DEF Leave, LossInv, TailCovers, LostOnlyBetween
<1> QED BY <1>1, <1>2, <1>3

LEMMA StreamLoses ==
    ASSUME TypeInv, LossInv, Stream
    PROVE  LossInv'
<1>1. /\ sent \in Seq(Line) /\ got \in Seq(Line) /\ backlog \in Seq(Line)
      /\ Len(sent) \in Nat /\ position \in 0 .. Len(sent) /\ CHANNEL_CAPACITY \in Nat
      /\ \A i \in 1 .. Len(sent) : sent[i] \in Line
  BY Capacities, LenProperties, ElementOfSeq DEF TypeInv, TypeOK
<1>2. /\ call = Open /\ UNCHANGED <<call, sent, waived>>
      /\ Range(sent) \subseteq Range(got) \union Range(backlog) \union told \union waived
                               \union {sent[i] : i \in position + 1 .. Len(sent)}
  BY DEF Stream, Replay, recv, Lagged, log, LossInv, LostOnlyBetween
<1>3. CASE Replay
  <2>1. Range(got') \union Range(backlog') = Range(got) \union Range(backlog)
    <3>1. backlog # <<>> /\ Head(backlog) \in Line
      BY <1>1, <1>3, HeadTailProperties DEF Replay
    <3> QED BY <1>1, <1>3, <3>1, RangeAppended, RangeHeadTail DEF Replay
  <2> QED BY <1>2, <1>3, <2>1, StepsOfCall DEF Replay, LossInv, TailCovers, LostOnlyBetween
<1>4. CASE recv /\ Behind /\ Lagged /\ UNCHANGED got
  <2>1. {sent[i] : i \in position + 1 .. Len(sent)} \subseteq
            told' \union {sent[i] : i \in position' + 1 .. Len(sent)}
    BY <1>1, <1>4 DEF Lagged, Oldest
  <2>2. told \subseteq told' /\ UNCHANGED <<got, backlog>>
    BY <1>4 DEF recv, Lagged
  <2> QED BY <1>2, <2>1, <2>2, StepsOfCall DEF LossInv, TailCovers, LostOnlyBetween
<1>5. CASE recv /\ ~Behind /\ got' = Append(got, sent[position + 1])
           /\ position' = position + 1 /\ UNCHANGED <<call, told>>
  <2>1. Range(got') = Range(got) \union {sent[position + 1]}
    BY <1>1, <1>5, RangeAppended DEF recv
  <2>2. {sent[i] : i \in position + 1 .. Len(sent)} \subseteq
            {sent[position + 1]} \union {sent[i] : i \in position' + 1 .. Len(sent)}
    BY <1>1, <1>5
  <2>3. UNCHANGED <<told, backlog>>
    BY <1>5 DEF recv
  <2>4. Range(sent) \subseteq Range(got') \union Range(backlog') \union told' \union waived'
                               \union {sent[i] : i \in position' + 1 .. Len(sent)}
    BY <1>2, <2>1, <2>2, <2>3
  <2> QED BY <1>2, <2>4, StepsOfCall DEF LossInv, TailCovers, LostOnlyBetween
<1> QED BY <1>3, <1>4, <1>5 DEF Stream, recv

\* A client misses without being told only lines logged wholly between the two
\* calls of agent_logs (LostOnlyBetween), however pushes interleave with them.
THEOREM LossIsBetween == Spec => []LostOnlyBetween
<1>1. Init => TypeInv /\ LossInv
  <2> SUFFICES ASSUME Init PROVE TypeInv /\ LossInv
    OBVIOUS
  <2>1. TypeInv
    BY LogTypeInit
  <2>2. call = agent_logs
    BY DEF Init
  <2> QED BY <2>1, <2>2, StepsOfCall DEF LossInv, TailCovers, LostOnlyBetween
<1>2. TypeInv /\ LossInv /\ [Next]_vars => (TypeInv /\ LossInv)'
  <2> SUFFICES ASSUME TypeInv, LossInv, [Next]_vars PROVE TypeInv' /\ LossInv'
    OBVIOUS
  <2>1. TypeInv'
    BY LogTypeStep
  <2>2. CASE UNCHANGED vars
    BY <2>1, <2>2 DEF vars, log, client, LossInv, TailCovers, LostOnlyBetween
  <2> QED BY <2>1, <2>2, PushLoses, RequestLoses, StreamLoses DEF Next
<1>3. LossInv => LostOnlyBetween
  BY DEF LossInv
<1> QED BY <1>1, <1>2, <1>3, PTL DEF Spec

-----------------------------------------------------------------------------
(* In which order a client sees a thread's lines                           *)

LEMMA InOrderOfPart ==
    ASSUME NEW lines \in Seq(Line), NEW part \in Seq(Line), NEW d \in Nat,
           Len(part) + d <= Len(lines), \A i \in 1 .. Len(part) : part[i] = lines[i + d]
    PROVE  /\ InOrder(lines) => InOrder(part)
           /\ Logged(lines) => Logged(part)
<1>1. /\ DOMAIN lines = 1 .. Len(lines) /\ DOMAIN part = 1 .. Len(part)
      /\ Len(lines) \in Nat /\ Len(part) \in Nat
  BY LenProperties
<1>2. \A i \in 1 .. Len(part) : i + d \in 1 .. Len(lines)
  BY <1>1
<1>3. ASSUME InOrder(lines), NEW i \in 1 .. Len(part), NEW j \in 1 .. Len(part), i < j
      PROVE  Before(part[i], part[j])
  <2>1. i + d \in DOMAIN lines /\ j + d \in DOMAIN lines /\ i + d < j + d
    BY <1>1, <1>2, <1>3
  <2>2. Before(lines[i + d], lines[j + d])
    BY <1>3, <2>1 DEF InOrder
  <2> QED BY <2>2
<1> QED BY <1>1, <1>2, <1>3 DEF InOrder, Logged

LEMMA InOrderAppended ==
    ASSUME NEW lines \in Seq(Line), NEW line \in Line, InOrder(lines),
           \A i \in 1 .. Len(lines) : Before(lines[i], line)
    PROVE  InOrder(Append(lines, line))
<1> DEFINE longer == Append(lines, line)
<1>1. /\ DOMAIN longer = 1 .. Len(lines) + 1 /\ DOMAIN lines = 1 .. Len(lines)
      /\ Len(lines) \in Nat
      /\ \A i \in 1 .. Len(lines) : longer[i] = lines[i]
      /\ longer[Len(lines) + 1] = line
  BY AppendProperties, LenProperties
<1> HIDE DEF longer
<1>2. ASSUME NEW i \in DOMAIN longer, NEW j \in DOMAIN longer, i < j
      PROVE  Before(longer[i], longer[j])
  <2>1. i \in 1 .. Len(lines) /\ longer[i] = lines[i]
    BY <1>1, <1>2
  <2>2. CASE j \in 1 .. Len(lines)
    BY <1>1, <1>2, <2>1, <2>2 DEF InOrder
  <2>3. CASE j = Len(lines) + 1
    BY <1>1, <2>1, <2>3
  <2> QED BY <1>1, <2>2, <2>3
<1>3. InOrder(longer)
  BY <1>2 DEF InOrder
<1> QED BY <1>3 DEF longer

LEMMA PushKeepsOrder ==
    ASSUME TypeInv, OrderInv, NEW t \in Thread, on_event(t) \/ push_on(t)
    PROVE  OrderInv'
<1> DEFINE line == <<t, logged'[t]>>
<1>1. UNCHANGED client /\ \E step : Perform(step, line)
  BY DEF TypeInv, TypeOK, on_event, push_on
<1>2. line \in Line /\ \A u \in Thread : logged[u] <= logged'[u] /\ logged'[u] \in Nat /\ logged[u] \in Nat
  <2>1. TypeInv'
    BY PushTypes
  <2>2. logged'[t] # 0
    BY LogBounds DEF TypeInv, TypeOK, on_event, push_on
  <2>3. line \in Line
    BY <2>1, <2>2, LogBounds DEF TypeInv, TypeOK, Line
  <2>4. \A u \in Thread : logged[u] \in Nat /\ logged'[u] \in Nat
    BY <2>1, LogBounds DEF TypeInv, TypeOK
  <2>5. \A u \in Thread : logged'[u] = logged[u] \/ logged'[u] = logged[u] + 1
    BY DEF TypeInv, TypeOK, on_event, push_on
  <2> HIDE DEF line
  <2> QED BY <2>3, <2>4, <2>5
<1>3. /\ sent \in Seq(Line) /\ recent \in Seq(Line) /\ got \in Seq(Line) /\ backlog \in Seq(Line)
      /\ Len(sent) \in Nat /\ Len(recent) \in Nat /\ position \in 0 .. Len(sent)
  BY LenProperties DEF TypeInv, TypeOK
<1> HIDE DEF line
\* What was logged before the line stays logged, and comes before it.
<1>4. ASSUME NEW lines \in Seq(Line), Logged(lines)
      PROVE  /\ \A i \in DOMAIN lines : lines[i][2] <= logged'[lines[i][1]]
             /\ \A i \in DOMAIN lines : Before(lines[i], line)
  <2> SUFFICES ASSUME NEW i \in DOMAIN lines
               PROVE  lines[i][2] <= logged'[lines[i][1]] /\ Before(lines[i], line)
    OBVIOUS
  <2>1. lines[i] \in Line
    BY LenProperties, ElementOfSeq
  <2>2. lines[i][1] \in Thread /\ lines[i][2] \in Nat /\ lines[i][2] <= logged[lines[i][1]]
    BY <2>1, <1>4, LogBounds DEF Line, Logged
  <2>3. lines[i][2] <= logged'[lines[i][1]]
    BY <1>2, <2>2
  <2> QED BY <2>2, <2>3 DEF Before, line
<1>5. \A lines \in Seq(Line) :
         InOrder(lines) /\ Logged(lines) =>
            /\ Append(lines, line) \in Seq(Line) /\ Append(lines, line) # <<>>
            /\ InOrder(Append(lines, line))
            /\ \A i \in DOMAIN Append(lines, line) :
                   Append(lines, line)[i][2] <= logged'[Append(lines, line)[i][1]]
  <2> SUFFICES ASSUME NEW lines \in Seq(Line), InOrder(lines), Logged(lines)
               PROVE  /\ Append(lines, line) \in Seq(Line) /\ Append(lines, line) # <<>>
                      /\ InOrder(Append(lines, line))
                      /\ \A i \in DOMAIN Append(lines, line) :
                             Append(lines, line)[i][2] <= logged'[Append(lines, line)[i][1]]
    OBVIOUS
  <2>1. DOMAIN lines = 1 .. Len(lines) /\ Len(lines) \in Nat
    BY LenProperties
  <2>2. /\ Append(lines, line) \in Seq(Line) /\ Append(lines, line) # <<>>
        /\ DOMAIN Append(lines, line) = 1 .. Len(lines) + 1
        /\ \A i \in 1 .. Len(lines) : Append(lines, line)[i] = lines[i]
        /\ Append(lines, line)[Len(lines) + 1] = line
    BY <1>2, AppendProperties, LenProperties
  <2>3. InOrder(Append(lines, line))
    BY <1>2, <1>4, <2>1, InOrderAppended
  <2>4. line[2] <= logged'[line[1]]
    BY <1>2 DEF line
  <2>5. \A i \in 1 .. Len(lines) + 1 : i \in 1 .. Len(lines) \/ i = Len(lines) + 1
    BY <2>1
  <2> HIDE DEF line
  <2> QED BY <1>4, <2>1, <2>2, <2>3, <2>4, <2>5
<1>6. LogInOrder'
  <2>1. CASE recent' = Bounded(Append(recent, line)) /\ UNCHANGED sent
    <3> DEFINE lines == Append(recent, line)
    <3>1. /\ lines \in Seq(Line) /\ lines # <<>> /\ InOrder(lines)
          /\ \A i \in DOMAIN lines : lines[i][2] <= logged'[lines[i][1]]
      BY <1>3, <1>5 DEF OrderInv, LogInOrder
    <3> HIDE DEF lines
    <3>2. PICK d \in {0, 1} :
             /\ Len(Bounded(lines)) = Len(lines) - d
             /\ \A i \in 1 .. Len(Bounded(lines)) : Bounded(lines)[i] = lines[i + d]
      BY <3>1, BoundedIsTail
    <3>3. Bounded(lines) \in Seq(Line) /\ Len(lines) \in Nat /\ d \in Nat
      BY <3>1, BoundedIsTail, LenProperties
    <3>4. InOrder(Bounded(lines))
      BY <3>1, <3>2, <3>3, InOrderOfPart
    <3>5. \A i \in DOMAIN Bounded(lines) :
             Bounded(lines)[i][2] <= logged'[Bounded(lines)[i][1]]
      <4>1. \A i \in DOMAIN Bounded(lines) : i + d \in DOMAIN lines /\ Bounded(lines)[i] = lines[i + d]
        BY <3>1, <3>2, <3>3, LenProperties
      <4> QED BY <3>1, <4>1
    <3>6. InOrder(recent') /\ Logged(recent)'
      BY <2>1, <3>4, <3>5 DEF lines, Logged
    <3> QED BY <1>3, <1>4, <2>1, <3>6 DEF OrderInv, LogInOrder, Logged
  <2>2. CASE sent' = Append(sent, line) /\ UNCHANGED recent
    <3>1. InOrder(sent') /\ Logged(sent)'
      BY <1>3, <1>5, <2>2 DEF OrderInv, LogInOrder, Logged
    <3> QED BY <1>3, <1>4, <2>2, <3>1 DEF OrderInv, LogInOrder, Logged
  <2> QED BY <1>1, <2>1, <2>2 DEF Perform
<1>7. ClientInOrder'
  BY <1>1, <1>3, <1>4 DEF client, OrderInv, ClientInOrder, Logged
<1>8. Continues'
  <2>1. \A k \in 1 .. Len(sent') : (k \in 1 .. Len(sent) /\ sent'[k] = sent[k]) \/ sent'[k] = line
    BY <1>1, <1>2, <1>3, AppendProperties DEF Perform
  <2>2. ASSUME NEW k \in position + 1 .. Len(sent'), call = Open,
               NEW lines \in Seq(Line), Logged(lines),
               \A j \in Ahead : \A i \in DOMAIN lines : Before(lines[i], sent[j])
        PROVE  \A i \in DOMAIN lines : Before(lines[i], sent'[k])
    <3>1. CASE k \in 1 .. Len(sent) /\ sent'[k] = sent[k]
      BY <1>3, <2>2, <3>1 DEF Ahead
    <3>2. CASE sent'[k] = line
      BY <1>4, <2>2, <3>2
    <3>3. k \in 1 .. Len(sent')
      BY <1>3, <1>1, <1>2, PerformTypes, LenProperties DEF TypeInv
    <3> QED BY <2>1, <3>1, <3>2, <3>3
  <2> QED BY <1>1, <1>3, <2>2 DEF client, OrderInv, ClientInOrder, Continues, Ahead
<1> QED BY <1>6, <1>7, <1>8 DEF OrderInv

LEMMA RequestKeepsOrder ==
    ASSUME TypeInv, OrderInv, take_recent \/ subscribe \/ Leave
    PROVE  OrderInv'
<1>1. UNCHANGED <<logged, recent, sent, got>>
  BY DEF take_recent, subscribe, Leave, log
<1>2. LogInOrder'
  BY <1>1 DEF OrderInv, LogInOrder, Logged
<1>3. recent \in Seq(Line) /\ got \in Seq(Line) /\ Len(sent) \in Nat
  BY LenProperties DEF TypeInv, TypeOK
<1>4. CASE take_recent
  <2>1. call' = Tail(agent_logs) /\ got' = <<>>
    BY <1>1, <1>4, StepsOfCall DEF take_recent, TypeInv, TypeOK, OrderInv, Continues
  <2>2. PICK tail \in 0 .. MAX_TAIL : backlog' = Newest(tail, recent)
    BY <1>4 DEF take_recent
  <2>3. tail \in Nat
    BY LogBounds
  <2>4. PICK d \in 0 .. Len(recent) :
           /\ Len(backlog') = Len(recent) - d
           /\ \A i \in 1 .. Len(backlog') : backlog'[i] = recent[i + d]
    BY <1>3, <2>2, <2>3, NewestIsEnd
  <2>5. backlog' \in Seq(Line)
    BY <1>3, <2>2, <2>3, NewestIsEnd
  <2>6. Len(recent) \in Nat /\ d \in Nat /\ Len(backlog') + d <= Len(recent)
    BY <1>3, <2>4, LenProperties
  <2>7. InOrder(backlog') /\ Logged(backlog')
    BY <1>3, <2>4, <2>5, <2>6, InOrderOfPart DEF OrderInv, LogInOrder
  <2>8. ClientInOrder'
    BY <1>1, <2>7 DEF OrderInv, ClientInOrder, Logged
  <2>9. Continues'
    BY <2>1, StepsOfCall DEF Continues
  <2> QED BY <1>2, <2>8, <2>9 DEF OrderInv
<1>5. CASE subscribe
  <2>1. call' = Open /\ position' = Len(sent') /\ UNCHANGED backlog
    BY <1>1, <1>5, StepsOfCall DEF subscribe, TypeInv, TypeOK
  <2>2. ClientInOrder'
    BY <1>1, <2>1 DEF OrderInv, ClientInOrder, Logged
  <2>3. Ahead' = {}
    BY <1>1, <1>3, <2>1 DEF Ahead
  <2>4. Continues'
    BY <1>1, <2>1, <2>3, StepsOfCall DEF OrderInv, Continues
  <2> QED BY <1>2, <2>2, <2>4 DEF OrderInv
<1>6. CASE Leave
  <2>1. call' = Left /\ UNCHANGED backlog
    BY <1>6 DEF Leave
  <2>2. ClientInOrder'
    BY <1>1, <2>1 DEF OrderInv, ClientInOrder, Logged
  <2>3. Continues'
    BY <1>1, <2>1, StepsOfCall DEF OrderInv, Continues
  <2> QED BY <1>2, <2>2, <2>3 DEF OrderInv
<1> QED BY <1>4, <1>5, <1>6

\* The client is sent a line that comes after all it has had.
LEMMA SentInOrder ==
    ASSUME TypeInv, OrderInv, NEW line \in Line, got' = Append(got, line), UNCHANGED logged,
           line[2] <= logged[line[1]], \A i \in DOMAIN got : Before(got[i], line)
    PROVE  /\ InOrder(got') /\ Logged(got)'
           /\ \A i \in DOMAIN got' : (i \in DOMAIN got /\ got'[i] = got[i]) \/ got'[i] = line
<1>1. got \in Seq(Line) /\ DOMAIN got = 1 .. Len(got) /\ Len(got) \in Nat
  BY LenProperties DEF TypeInv, TypeOK
<1>2. /\ DOMAIN got' = 1 .. Len(got) + 1
      /\ \A i \in 1 .. Len(got) : got'[i] = got[i]
      /\ got'[Len(got) + 1] = line
  BY <1>1, AppendProperties, LenProperties
<1>3. InOrder(got')
  BY <1>1, InOrderAppended DEF OrderInv, ClientInOrder
<1>4. \A i \in DOMAIN got' : (i \in DOMAIN got /\ got'[i] = got[i]) \/ got'[i] = line
  BY <1>1, <1>2
<1> QED BY <1>3, <1>4 DEF OrderInv, ClientInOrder, Logged

LEMMA StreamKeepsOrder ==
    ASSUME TypeInv, OrderInv, Stream
    PROVE  OrderInv'
<1>1. /\ sent \in Seq(Line) /\ got \in Seq(Line) /\ backlog \in Seq(Line)
      /\ Len(sent) \in Nat /\ position \in 0 .. Len(sent) /\ CHANNEL_CAPACITY \in Nat
      /\ DOMAIN sent = 1 .. Len(sent) /\ DOMAIN backlog = 1 .. Len(backlog) /\ Len(backlog) \in Nat
      /\ \A i \in 1 .. Len(sent) : sent[i] \in Line
  BY Capacities, LenProperties, ElementOfSeq DEF TypeInv, TypeOK
<1>2. call = Open /\ UNCHANGED <<call, logged, recent, sent>>
  BY DEF Stream, Replay, recv, Lagged, log
<1>3. LogInOrder'
  BY <1>2 DEF OrderInv, LogInOrder, Logged
<1>4. CASE Replay
  <2>1. /\ backlog # <<>> /\ Head(backlog) = backlog[1] /\ Head(backlog) \in Line
        /\ Tail(backlog) \in Seq(Line) /\ Len(Tail(backlog)) = Len(backlog) - 1
        /\ \A i \in 1 .. Len(Tail(backlog)) : Tail(backlog)[i] = backlog[i + 1]
        /\ Len(backlog) # 0
    BY <1>1, <1>4, HeadTailProperties, EmptySeq DEF Replay
  <2>2. /\ Head(backlog)[2] <= logged[Head(backlog)[1]]
        /\ \A i \in DOMAIN got : Before(got[i], Head(backlog))
        /\ \A k \in Ahead : Before(Head(backlog), sent[k])
        /\ \A j \in 2 .. Len(backlog) : Before(Head(backlog), backlog[j])
    BY <1>1, <1>2, <2>1 DEF OrderInv, ClientInOrder, Continues, Logged, InOrder
  <2>3. /\ got' = Append(got, Head(backlog)) /\ backlog' = Tail(backlog)
        /\ UNCHANGED position
    BY <1>4 DEF Replay
  <2> DEFINE line == Head(backlog)
  <2> HIDE DEF line
  <2>4. /\ InOrder(got') /\ Logged(got)'
        /\ \A i \in DOMAIN got' : (i \in DOMAIN got /\ got'[i] = got[i]) \/ got'[i] = line
    BY <1>2, <2>1, <2>2, <2>3, SentInOrder DEF line
  <2>5. \A j \in DOMAIN backlog' : j + 1 \in 2 .. Len(backlog) /\ backlog'[j] = backlog[j + 1]
    BY <1>1, <2>1, <2>3, LenProperties
  <2>6. InOrder(backlog') /\ Logged(backlog)
    <3>1. /\ backlog' \in Seq(Line) /\ Len(backlog') + 1 <= Len(backlog)
          /\ \A i \in 1 .. Len(backlog') : backlog'[i] = backlog[i + 1]
      BY <1>1, <2>1, <2>3
    <3>2. InOrder(backlog) /\ Logged(backlog) /\ 1 \in Nat
      BY DEF OrderInv, ClientInOrder
    <3> QED BY <1>1, <3>1, <3>2, InOrderOfPart
  <2>7. Logged(backlog)'
    BY <1>1, <1>2, <2>5, <2>6 DEF Logged
  <2>8. ClientInOrder'
    BY <2>4, <2>6, <2>7 DEF ClientInOrder
  <2>9. \A i \in DOMAIN got', j \in DOMAIN backlog' : Before(got'[i], backlog'[j])
    BY <1>1, <2>2, <2>4, <2>5 DEF OrderInv, Continues, line
  <2>10. \A k \in Ahead :
            /\ \A i \in DOMAIN got' : Before(got'[i], sent[k])
            /\ \A j \in DOMAIN backlog' : Before(backlog'[j], sent[k])
    BY <1>1, <1>2, <2>2, <2>4, <2>5 DEF OrderInv, Continues, line
  <2>11. Continues'
    BY <1>2, <2>3, <2>9, <2>10, StepsOfCall DEF Continues, Ahead
  <2> QED BY <1>3, <2>8, <2>11 DEF OrderInv
<1>5. CASE recv /\ Behind /\ Lagged /\ UNCHANGED got
  <2>1. Ahead' \subseteq Ahead /\ UNCHANGED backlog
    <3>1. position' = Len(sent) - CHANNEL_CAPACITY /\ Len(sent) - position > CHANNEL_CAPACITY
      BY <1>5 DEF Lagged, Behind, Oldest
    <3>2. position' > position /\ position' \in Int
      BY <1>1, <3>1
    <3>3. UNCHANGED backlog
      BY <1>5 DEF recv
    <3> QED BY <1>1, <1>2, <3>2, <3>3 DEF Ahead
  <2>2. ClientInOrder'
    BY <1>2, <1>5, <2>1 DEF OrderInv, ClientInOrder, Logged
  <2>3. Continues'
    BY <1>2, <1>5, <2>1, StepsOfCall DEF OrderInv, Continues
  <2> QED BY <1>3, <2>2, <2>3 DEF OrderInv
<1>6. CASE recv /\ ~Behind /\ got' = Append(got, sent[position + 1])
           /\ position' = position + 1 /\ UNCHANGED <<call, told>>
  <2> DEFINE line == sent[position + 1]
  <2>1. position + 1 \in DOMAIN sent /\ position + 1 \in Ahead /\ line \in Line
    BY <1>1, <1>6 DEF recv, Ahead
  <2>2. /\ line[2] <= logged[line[1]]
        /\ \A i \in DOMAIN got : Before(got[i], line)
    BY <1>2, <2>1 DEF OrderInv, LogInOrder, Logged, Continues
  <2>3. \A k \in position + 2 .. Len(sent) : k \in Ahead /\ Before(line, sent[k])
    BY <1>1, <2>1 DEF OrderInv, LogInOrder, InOrder, Ahead
  <2>4. backlog' = <<>> /\ UNCHANGED backlog
    BY <1>6 DEF recv
  <2> HIDE DEF line
  <2>5. /\ InOrder(got') /\ Logged(got)'
        /\ \A i \in DOMAIN got' : (i \in DOMAIN got /\ got'[i] = got[i]) \/ got'[i] = line
    BY <1>2, <1>6, <2>1, <2>2, SentInOrder DEF line
  <2>6. ClientInOrder'
    BY <1>2, <2>4, <2>5 DEF OrderInv, ClientInOrder, Logged
  <2>7. Ahead' = position + 2 .. Len(sent)
    BY <1>1, <1>2, <1>6 DEF Ahead
  <2>8. \A k \in Ahead' : \A i \in DOMAIN got' : Before(got'[i], sent'[k])
    BY <1>2, <2>3, <2>5, <2>7 DEF OrderInv, Continues
  <2>9. Continues'
    BY <1>2, <2>4, <2>8, StepsOfCall DEF Continues
  <2> QED BY <1>3, <2>6, <2>9 DEF OrderInv
<1> QED BY <1>4, <1>5, <1>6 DEF Stream, recv

\* Whatever the threads' pushes interleave with, a client sees no thread go back
\* (ThreadOrder): the tail is taken before the stream is subscribed to.
THEOREM ThreadsInOrder == Spec => []ThreadOrder
<1>1. Init => TypeInv /\ OrderInv
  <2> SUFFICES ASSUME Init PROVE TypeInv /\ OrderInv
    OBVIOUS
  <2>1. TypeInv
    BY LogTypeInit
  <2>2. recent = <<>> /\ sent = <<>> /\ backlog = <<>> /\ got = <<>> /\ call = agent_logs
    BY DEF Init
  <2> QED BY <2>1, <2>2, StepsOfCall
          DEF OrderInv, LogInOrder, ClientInOrder, Continues, InOrder, Logged
<1>2. TypeInv /\ OrderInv /\ [Next]_vars => (TypeInv /\ OrderInv)'
  <2> SUFFICES ASSUME TypeInv, OrderInv, [Next]_vars PROVE TypeInv' /\ OrderInv'
    OBVIOUS
  <2>1. TypeInv'
    BY LogTypeStep
  <2>2. CASE UNCHANGED vars
    BY <2>1, <2>2 DEF vars, log, client, OrderInv, LogInOrder, ClientInOrder, Continues, Logged, Ahead
  <2> QED BY <2>1, <2>2, PushKeepsOrder, RequestKeepsOrder, StreamKeepsOrder DEF Next
<1>3. OrderInv => ThreadOrder
  BY DEF OrderInv, ClientInOrder, InOrder, Before, ThreadOrder
<1> QED BY <1>1, <1>2, <1>3, PTL DEF Spec

=============================================================================
