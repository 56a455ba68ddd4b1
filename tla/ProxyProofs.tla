----------------------------- MODULE ProxyProofs -----------------------------
(* Theorems about ProxyApply and Cutover, for every value of the constants,  *)
(* however many applies overlap: their types, that the newest revision tells *)
(* what Caddy routes by unless an older one was loaded after it, and that a  *)
(* release becomes active only when Caddy routes to it unless a handler has  *)
(* loaded the upstream of before.                                            *)
EXTENDS Cutover, SequenceTheorems, TLAPS

-----------------------------------------------------------------------------
(* Types                                                                   *)

\* A revision that is marked stays a revision of its configuration, and the
\* others stay as they are.
LEMMA MarkedRevisions ==
  ASSUME NEW s \in Seq(Revision), NEW i \in DOMAIN s, NEW status \in {"applied", "failed"},
         NEW t, t = [s EXCEPT ![i].status = status]
  PROVE  /\ t \in Seq(Revision)
         /\ Len(t) = Len(s) /\ DOMAIN t = DOMAIN s
         /\ t[i].config = s[i].config /\ t[i].status = status
  <1> DEFINE e == [s[i] EXCEPT !.status = status]
  <1>1. i \in 1 .. Len(s) /\ DOMAIN s = 1 .. Len(s)
    BY LenProperties
  <1>2. s[i] \in Revision
    BY <1>1, ElementOfSeq
  <1>3. e \in Revision /\ e.config = s[i].config /\ e.status = status
    BY <1>2 DEF Revision
  <1>4. t = [s EXCEPT ![i] = e]
    OBVIOUS
  <1> HIDE DEF e
  <1>5. /\ [s EXCEPT ![i] = e] \in Seq(Revision)
        /\ Len([s EXCEPT ![i] = e]) = Len(s)
        /\ [s EXCEPT ![i] = e][i] = e
    BY <1>1, <1>3, ExceptSeq
  <1>6. DOMAIN [s EXCEPT ![i] = e] = DOMAIN s
    OBVIOUS
  <1> QED BY <1>3, <1>4, <1>5, <1>6

\* A recorded revision becomes the last one, and its id is the new length.
LEMMA RecordedRevisions ==
  ASSUME NEW s \in Seq(Revision), NEW c \in Config
  PROVE  LET t == Append(s, [config |-> c, status |-> "pending"])
         IN  /\ t \in Seq(Revision) /\ t # <<>>
             /\ Len(t) = Len(s) + 1 /\ Len(s) + 1 \in DOMAIN t
             /\ DOMAIN s \subseteq DOMAIN t
             /\ t[Len(s) + 1] = [config |-> c, status |-> "pending"]
  <1> DEFINE e == [config |-> c, status |-> "pending"]
  <1>1. e \in Revision
    BY DEF Revision
  <1> HIDE DEF e
  <1>2. /\ Append(s, e) \in Seq(Revision) /\ Append(s, e) # <<>>
        /\ Len(Append(s, e)) = Len(s) + 1 /\ Append(s, e)[Len(s) + 1] = e
    BY <1>1, AppendProperties
  <1>3. DOMAIN Append(s, e) = 1 .. Len(s) + 1 /\ DOMAIN s = 1 .. Len(s) /\ Len(s) \in Nat
    BY <1>2, LenProperties
  <1> QED BY <1>2, <1>3 DEF e

Pairs == Applier \X {"hosts", "rest"}

\* main starts on an empty database, with its own apply ahead.
LEMMA TypeInit == Init => TypeOK
  <1> SUFFICES ASSUME Init PROVE TypeOK
    OBVIOUS
  <1>1. Fresh \in Config
    BY EmptyPart DEF Fresh, Config
  <1>2. revisions \in Seq(Revision)
    BY EmptySeq DEF Init
  <1>3. behind \subseteq Pairs /\ stale \in BOOLEAN /\ overtaken \in BOOLEAN
    BY DEF Init, Pairs
  <1>4. /\ rows \in Config /\ live \in Config \union {None}
        /\ pc \in [Applier -> {"idle", "ready", "hosts", "rest", "hash", "record", "load", "mark", "fail"}]
        /\ got \in [Applier -> Config] /\ rev \in [Applier -> Nat]
        /\ \A a \in Applier : pc[a] \notin {"load", "mark", "fail"}
    BY <1>1 DEF Init, Booting
  <1>5. edits \in 0 .. MaxEdits /\ faults \in Seq(Faults) /\ Len(faults) <= MaxFaults
    <2>1. faults = <<>> /\ Len(<<>>) = 0
      BY EmptySeq DEF Init
    <2>2. faults \in Seq(Faults)
      BY <2>1, EmptySeq
    <2> QED BY <2>1, <2>2, Bounds DEF Init
  <1> QED BY <1>2, <1>3, <1>4, <1>5 DEF TypeOK, Pairs

\* One more fault is within the bound.
LEMMA FaultType ==
  ASSUME TypeOK, NEW kind, Fault(kind)
  PROVE  faults' \in Seq(Faults) /\ Len(faults') <= MaxFaults
  <1>1. faults \in Seq(Faults) /\ Len(faults) < MaxFaults /\ kind \in Faults
    BY DEF TypeOK, Fault
  <1>2. Append(faults, kind) \in Seq(Faults) /\ Len(Append(faults, kind)) = Len(faults) + 1
    BY <1>1, AppendProperties
  <1>3. Len(faults) \in Nat
    BY <1>1, LenProperties
  <1> QED BY <1>1, <1>2, <1>3, Bounds DEF Fault

\* An applier that returns, or moves to an await before its record, keeps the
\* types of the appliers' locals.
LEMMA LocalsType ==
  ASSUME TypeOK, NEW a \in Applier, UNCHANGED revisions,
         Return(a) \/ Goto(a, "hosts") \/ Goto(a, "record") \/ Begin(a)
  PROVE  /\ pc' \in [Applier -> {"idle", "ready", "hosts", "rest", "hash", "record",
                                "load", "mark", "fail"}]
         /\ got' \in [Applier -> Config]
         /\ rev' \in [Applier -> Nat]
         /\ \A b \in Applier : pc'[b] \in {"load", "mark", "fail"} => rev'[b] \in DOMAIN revisions'
  <1>1. Fresh \in Config
    BY EmptyPart DEF Fresh, Config
  <1>2. CASE Return(a)
    BY <1>1, <1>2 DEF TypeOK, Return
  <1>3. CASE Goto(a, "hosts")
    BY <1>3 DEF TypeOK, Goto
  <1>4. CASE Goto(a, "record")
    BY <1>4 DEF TypeOK, Goto
  <1>5. CASE Begin(a)
    BY <1>5 DEF TypeOK, Begin
  <1> QED BY <1>2, <1>3, <1>4, <1>5

\* Who has fallen behind is an applier with one of the parts.
LEMMA BehindType ==
  ASSUME TypeOK, NEW a \in Applier,
         Overtakes \/ Return(a) \/ (\E p : Goto(a, p)) \/ UNCHANGED behind
  PROVE  behind' \subseteq Pairs
  BY DEF TypeOK, Overtakes, Return, Goto, Pairs

\* Marking a revision keeps the types.
LEMMA MarkType ==
  ASSUME TypeOK, NEW a \in Applier, NEW p \in {"mark", "fail"},
         NEW status \in {"applied", "failed"}, Mark(a, p, status)
  PROVE  TypeOK'
  <1>1. revisions \in Seq(Revision) /\ rev[a] \in DOMAIN revisions
    BY DEF TypeOK, Mark, At
  <1>2. revisions' = [revisions EXCEPT ![rev[a]].status = status]
    BY DEF Mark
  <1>3. revisions' \in Seq(Revision) /\ DOMAIN revisions' = DOMAIN revisions
    BY <1>1, <1>2, MarkedRevisions
  <1>4. Fresh \in Config
    BY EmptyPart DEF Fresh, Config
  <1>5. behind' \subseteq Pairs
    BY BehindType DEF Mark
  <1> QED BY <1>3, <1>4, <1>5 DEF TypeOK, Mark, Return, Pairs

\* Every step keeps the types: in particular an applier that loads or marks has
\* the id of a revision that exists.
LEMMA TypeNext == TypeOK /\ [Next]_vars => TypeOK'
  <1> SUFFICES ASSUME TypeOK, [Next]_vars PROVE TypeOK'
    OBVIOUS
  <1> USE DEF TypeOK, Pairs
  <1>1. Fresh \in Config
    BY EmptyPart DEF Fresh, Config
  <1>2. ASSUME NEW a \in Applier, save(a) PROVE TypeOK'
    <2>1. behind' \subseteq Pairs
      BY <1>2, BehindType DEF save
    <2> QED BY <1>2, <2>1, Bounds, LocalsType DEF save, Edit
  <1>3. ASSUME NEW a \in Applier, apply_proxy_config(a) PROVE TypeOK'
    BY <1>3, Bounds, LocalsType DEF apply_proxy_config, Edit
  <1>4. CASE put_parameter
    <2>1. rows' \in Config
      BY <1>4 DEF put_parameter, Config
    <2>2. UNCHANGED <<revisions, live, pc, got, rev, stale, overtaken, edits>> /\ Fault("secret")
      BY <1>4 DEF put_parameter
    <2>3. behind' \subseteq Pairs
      BY <1>4, MainApplies, BehindType DEF put_parameter
    <2> QED BY <2>1, <2>2, <2>3, FaultType
  <1>5. ASSUME NEW a \in Applier, wait_ready(a) PROVE TypeOK'
    <2>1. (Return(a) \/ Goto(a, "hosts")) /\ UNCHANGED revisions
      BY <1>5 DEF wait_ready
    <2>2. /\ faults' = faults \/ Fault("refuse")
          /\ UNCHANGED <<rows, live, stale, overtaken, edits>>
      BY <1>5 DEF wait_ready
    <2>3. behind' \subseteq Pairs
      BY <2>1, BehindType
    <2> QED BY <2>1, <2>2, <2>3, LocalsType, FaultType
  <1>6. ASSUME NEW a \in Applier, ReadHosts(a) PROVE TypeOK'
    <2>1. got' \in [Applier -> Config]
      BY <1>6 DEF ReadHosts, Config
    <2>2. /\ pc' = [pc EXCEPT ![a] = "rest"]
          /\ UNCHANGED <<rows, revisions, live, rev, behind, stale, overtaken, edits, faults>>
      BY <1>6 DEF ReadHosts
    <2> QED BY <2>1, <2>2
  <1>7. ASSUME NEW a \in Applier, ReadRest(a) PROVE TypeOK'
    <2>1. got' \in [Applier -> Config]
      BY <1>7 DEF ReadRest, Config
    <2>2. /\ pc' = [pc EXCEPT ![a] = "hash"]
          /\ UNCHANGED <<rows, revisions, live, rev, behind, stale, overtaken, edits, faults>>
      BY <1>7 DEF ReadRest
    <2> QED BY <2>1, <2>2
  <1>8. ASSUME NEW a \in Applier, CompareHash(a) PROVE TypeOK'
    <2>1. /\ Return(a) \/ Goto(a, "record")
          /\ UNCHANGED <<rows, revisions, live, stale, overtaken, edits, faults>>
      BY <1>8 DEF CompareHash
    <2>2. behind' \subseteq Pairs
      BY <2>1, BehindType
    <2> QED BY <2>1, <2>2, LocalsType
  <1>9. ASSUME NEW a \in Applier, record_pending(a) PROVE TypeOK'
    <2>1. /\ revisions' \in Seq(Revision) /\ Len(revisions) + 1 \in DOMAIN revisions'
          /\ DOMAIN revisions \subseteq DOMAIN revisions'
      BY <1>9, RecordedRevisions DEF record_pending
    <2>2. Len(revisions) + 1 \in Nat
      BY LenProperties
    <2> QED BY <1>9, <2>1, <2>2 DEF record_pending, At
  <1>10. ASSUME NEW a \in Applier, load(a) PROVE TypeOK'
    <2>1. faults' = faults \/ Fault("refuse") \/ Fault("lost")
      BY <1>10 DEF load
    <2>2. faults' \in Seq(Faults) /\ Len(faults') <= MaxFaults
      BY <2>1, FaultType
    <2>3. /\ live' \in Config \union {None}
          /\ \E p \in {"mark", "fail"} : pc' = [pc EXCEPT ![a] = p]
          /\ UNCHANGED <<rows, revisions, got, rev, behind, edits>>
      BY <1>10 DEF load, Goto, TakesEffect
    <2>5. stale' \in BOOLEAN /\ overtaken' \in BOOLEAN
      BY <1>10 DEF load, TakesEffect
    <2>4. rev[a] \in DOMAIN revisions
      BY <1>10 DEF load, At
    <2> QED BY <2>2, <2>3, <2>4, <2>5
  <1>11. ASSUME NEW a \in Applier, mark_applied(a) \/ mark_failed(a) PROVE TypeOK'
    BY <1>11, MarkType DEF mark_applied, mark_failed
  <1>12. CASE Crash
    <2>1. faults' \in Seq(Faults) /\ Len(faults') <= MaxFaults
      BY <1>12, FaultType DEF Crash
    <2> QED BY <1>1, <1>12, <2>1 DEF Crash, Booting
  <1>15. ASSUME NEW a \in Applier, Dropped(a) PROVE TypeOK'
    <2>1. Return(a) /\ Fault("drop") /\ UNCHANGED <<rows, revisions, live, stale, overtaken, edits>>
      BY <1>15 DEF Dropped
    <2>2. behind' \subseteq Pairs
      BY <2>1, BehindType
    <2> QED BY <2>1, <2>2, LocalsType, FaultType
  <1>13. CASE CaddyRestarts
    <2>1. faults' \in Seq(Faults) /\ Len(faults') <= MaxFaults
      BY <1>13, FaultType DEF CaddyRestarts
    <2> QED BY <1>13, <2>1 DEF CaddyRestarts
  <1>14. CASE UNCHANGED vars
    BY <1>14 DEF vars
  <1> QED BY <1>2, <1>3, <1>4, <1>5, <1>6, <1>7, <1>8, <1>9, <1>10, <1>11, <1>12, <1>13, <1>14, <1>15
          DEF Next, apply

\* The rows, the revisions and every applier's locals keep their types.
THEOREM ProxyTypeCorrect == Spec => []TypeOK
  <1> QED BY TypeInit, TypeNext, PTL DEF Spec

-----------------------------------------------------------------------------
(* The newest revision                                                     *)

\* The awaits from the record of a revision to its mark.
Owning == {"load", "mark", "fail"}

\* From its record to its mark an apply owns a revision of what it has read, which
\* nobody else marks.
Owned ==
    \A a \in Applier : pc[a] \in Owning =>
        /\ revisions[rev[a]].config = got[a] /\ revisions[rev[a]].status = "pending"
        /\ \A b \in Applier : b # a /\ pc[b] \in Owning => rev[b] # rev[a]

\* Whoever is to mark the newest revision has loaded it, and so Caddy routes by it,
\* unless an older one came after it.
LoadedNewest ==
    \A a \in Applier :
        pc[a] = "mark" /\ rev[a] = Len(revisions) => live \in {got[a], None} \/ overtaken

ProxyInv == Owned /\ LoadedNewest /\ NewestAppliedIsLive

\* On a fresh database nothing is applied, and main has recorded nothing.
LEMMA ProxyInit == Init => ProxyInv
  BY DEF Init, Booting, ProxyInv, Owned, Owning, LoadedNewest, NewestAppliedIsLive

\* A step that records, loads and marks nothing; Caddy may start again.
LEMMA PlainStep ==
  ASSUME ProxyInv, UNCHANGED <<revisions, overtaken>>, live' \in {live, None},
         \A a \in Applier : pc'[a] \in Owning =>
             /\ pc[a] \in Owning /\ (pc'[a] = "mark" => pc[a] = "mark")
             /\ got'[a] = got[a] /\ rev'[a] = rev[a]
  PROVE  ProxyInv'
  BY DEF ProxyInv, Owned, Owning, LoadedNewest, NewestAppliedIsLive

\* Owners stay in the revisions there are.
LEMMA OwnersIds ==
  ASSUME TypeOK
  PROVE  /\ Len(revisions) \in Nat /\ DOMAIN revisions = 1 .. Len(revisions)
         /\ \A a \in Applier : pc[a] \in Owning => rev[a] \in 1 .. Len(revisions)
  <1>1. Len(revisions) \in Nat /\ DOMAIN revisions = 1 .. Len(revisions)
    BY LenProperties DEF TypeOK
  <1> QED BY <1>1 DEF TypeOK, Owning

\* What a record, a load and a mark do to the one who takes them.
LEMMA OneMoves ==
  ASSUME TypeOK, NEW a \in Applier, NEW p, pc' = [pc EXCEPT ![a] = p]
  PROVE  pc'[a] = p /\ \A b \in Applier \ {a} : pc'[b] = pc[b]
  BY DEF TypeOK

\* The revision it records is the newest, and pending.
LEMMA RecordStep ==
  ASSUME TypeOK, ProxyInv, NEW a \in Applier, record_pending(a) PROVE ProxyInv'
  <1> DEFINE n == Len(revisions) + 1
  <1>1. /\ Len(revisions') = n
        /\ revisions'[n].config = got[a] /\ revisions'[n].status = "pending"
        /\ \A i \in 1 .. Len(revisions) : revisions'[i] = revisions[i]
    <2>1. revisions \in Seq(Revision) /\ got[a] \in Config
      BY DEF TypeOK
    <2> DEFINE e == [config |-> got[a], status |-> "pending"]
    <2>2. revisions' = Append(revisions, e) /\ e \in Revision
      BY <2>1 DEF record_pending, Revision
    <2>3. e.config = got[a] /\ e.status = "pending"
      OBVIOUS
    <2> HIDE DEF e
    <2> QED BY <2>1, <2>2, <2>3, AppendProperties
  <1>2. /\ pc'[a] = "load" /\ rev'[a] = n /\ got' = got /\ UNCHANGED <<live, overtaken>>
        /\ \A b \in Applier \ {a} : pc'[b] = pc[b] /\ rev'[b] = rev[b]
        /\ pc[a] = "record"
    BY DEF TypeOK, record_pending, At
  <1>3. Len(revisions) \in Nat /\ \A b \in Applier : pc[b] \in Owning => rev[b] \in 1 .. Len(revisions)
    BY OwnersIds
  <1>4. Owned'
    <2> SUFFICES ASSUME NEW b \in Applier, pc'[b] \in Owning
                 PROVE  /\ revisions'[rev'[b]].config = got'[b]
                        /\ revisions'[rev'[b]].status = "pending"
                        /\ \A c \in Applier : c # b /\ pc'[c] \in Owning => rev'[c] # rev'[b]
      BY DEF Owned
    <2>1. CASE b = a
      <3>1. \A c \in Applier : c # a /\ pc'[c] \in Owning => rev'[c] # n
        BY <1>2, <1>3
      <3> QED BY <1>1, <1>2, <2>1, <3>1
    <2>2. CASE b # a
      <3>1. pc[b] \in Owning /\ rev'[b] = rev[b] /\ rev[b] \in 1 .. Len(revisions)
        BY <1>2, <1>3, <2>2
      <3>2. /\ revisions[rev[b]].config = got[b] /\ revisions[rev[b]].status = "pending"
            /\ \A c \in Applier : c # b /\ pc[c] \in Owning => rev[c] # rev[b]
        BY <3>1 DEF ProxyInv, Owned
      <3>3. \A c \in Applier : c # b /\ pc'[c] \in Owning => rev'[c] # rev[b]
        BY <1>2, <1>3, <3>1, <3>2
      <3> QED BY <1>1, <1>2, <3>1, <3>2, <3>3
    <2> QED BY <2>1, <2>2
  <1>5. LoadedNewest'
    BY <1>1, <1>2, <1>3 DEF LoadedNewest, Owning
  <1>6. NewestAppliedIsLive'
    BY <1>1 DEF NewestAppliedIsLive
  <1> QED BY <1>4, <1>5, <1>6 DEF ProxyInv

\* A load that takes effect is of the newest revision, which is still pending, or
\* overtakes it.
LEMMA LoadStep ==
  ASSUME TypeOK, ProxyInv, NEW a \in Applier, load(a) PROVE ProxyInv'
  <1>1. PICK p \in {"mark", "fail"} : pc' = [pc EXCEPT ![a] = p]
    BY DEF load, Goto
  <1>2. pc[a] = "load" /\ pc'[a] = p /\ \A b \in Applier \ {a} : pc'[b] = pc[b]
    BY <1>1, OneMoves DEF load, At
  <1>3. UNCHANGED <<revisions, got, rev>>
    BY DEF load, Goto
  <1>4. CASE TakesEffect(a)
    <2>1. live' = got[a] /\ (overtaken' <=> rev[a] # Len(revisions))
      BY <1>4 DEF TakesEffect
    <2>2. Owned'
      BY <1>2, <1>3 DEF ProxyInv, Owned, Owning
    <2>3. \A b \in Applier : b # a /\ pc[b] = "mark" => rev[b] # rev[a]
      BY <1>2 DEF ProxyInv, Owned, Owning
    <2>4. LoadedNewest'
      BY <1>2, <1>3, <2>1, <2>3 DEF LoadedNewest
    <2>5. rev[a] = Len(revisions) => revisions[Len(revisions)].status = "pending"
      BY <1>2 DEF ProxyInv, Owned, Owning
    <2>6. NewestAppliedIsLive'
      BY <1>3, <2>1, <2>5 DEF NewestAppliedIsLive
    <2> QED BY <2>2, <2>4, <2>6 DEF ProxyInv
  <1>5. CASE ~TakesEffect(a)
    <2>1. Goto(a, "fail") /\ UNCHANGED <<live, overtaken>>
      BY <1>5 DEF load
    <2>2. pc'[a] = "fail"
      BY <2>1, OneMoves DEF Goto
    <2> QED BY <1>2, <1>3, <2>1, <2>2, PlainStep DEF Owning
  <1> QED BY <1>4, <1>5

\* If the newest revision says "applied" now, that is so.
LEMMA MarkStep ==
  ASSUME TypeOK, ProxyInv, NEW a \in Applier, mark_applied(a) \/ mark_failed(a)
  PROVE  ProxyInv'
  <1>1. PICK p \in {"mark", "fail"}, status \in {"applied", "failed"} :
          Mark(a, p, status) /\ (status = "applied" => p = "mark")
    BY DEF mark_applied, mark_failed
  <1>2. /\ pc[a] = p /\ pc' = [pc EXCEPT ![a] = "idle"]
        /\ \A b \in Applier \ {a} : got'[b] = got[b] /\ rev'[b] = rev[b]
        /\ UNCHANGED <<live, overtaken>>
    BY <1>1 DEF Mark, At, Return, TypeOK
  <1>3. pc'[a] = "idle" /\ \A b \in Applier \ {a} : pc'[b] = pc[b]
    BY <1>2, OneMoves
  <1>4. rev[a] \in DOMAIN revisions /\ revisions[rev[a]].config = got[a]
    BY <1>2 DEF ProxyInv, Owned, Owning, TypeOK
  <1>5. /\ Len(revisions') = Len(revisions)
        /\ revisions'[rev[a]].config = got[a] /\ revisions'[rev[a]].status = status
        /\ \A i \in DOMAIN revisions : i # rev[a] => revisions'[i] = revisions[i]
    <2>1. revisions \in Seq(Revision) /\ revisions' = [revisions EXCEPT ![rev[a]].status = status]
      BY <1>1 DEF TypeOK, Mark
    <2>2. /\ Len(revisions') = Len(revisions)
          /\ revisions'[rev[a]].config = revisions[rev[a]].config
          /\ revisions'[rev[a]].status = status
      BY <1>4, <2>1, MarkedRevisions
    <2> QED BY <1>4, <2>1, <2>2
  <1>6. Owned'
    <2> SUFFICES ASSUME NEW b \in Applier, pc'[b] \in Owning
                 PROVE  /\ revisions'[rev'[b]].config = got'[b]
                        /\ revisions'[rev'[b]].status = "pending"
                        /\ \A c \in Applier : c # b /\ pc'[c] \in Owning => rev'[c] # rev'[b]
      BY DEF Owned
    <2>1. b # a /\ pc[b] \in Owning /\ pc[a] \in Owning
      BY <1>2, <1>3 DEF Owning
    <2>2. /\ revisions[rev[b]].config = got[b] /\ revisions[rev[b]].status = "pending"
          /\ rev[b] # rev[a] /\ rev[b] \in DOMAIN revisions
          /\ \A c \in Applier : c # b /\ pc[c] \in Owning => rev[c] # rev[b]
      BY <2>1 DEF ProxyInv, Owned, TypeOK, Owning
    <2>3. \A c \in Applier : c # b /\ pc'[c] \in Owning => c # a /\ pc[c] \in Owning
      BY <1>3 DEF Owning
    <2> QED BY <1>2, <1>5, <2>1, <2>2, <2>3
  <1>7. LoadedNewest'
    BY <1>2, <1>3, <1>5 DEF ProxyInv, LoadedNewest
  <1>8. NewestAppliedIsLive'
    <2>1. CASE rev[a] = Len(revisions)
      <3>1. status = "applied" => live \in {got[a], None} \/ overtaken
        BY <1>1, <1>2, <2>1 DEF ProxyInv, LoadedNewest
      <3> QED BY <1>2, <1>5, <2>1, <3>1 DEF NewestAppliedIsLive
    <2>2. CASE rev[a] # Len(revisions)
      <3>1. Len(revisions) \in DOMAIN revisions /\ revisions # <<>>
        BY <1>4, OwnersIds
      <3> QED BY <1>2, <1>5, <2>2, <3>1 DEF ProxyInv, NewestAppliedIsLive
    <2> QED BY <2>1, <2>2
  <1> QED BY <1>6, <1>7, <1>8 DEF ProxyInv

\* An applier that returns, or begins, owns nothing.
LEMMA ReturnStep ==
  ASSUME TypeOK, ProxyInv, NEW a \in Applier, UNCHANGED <<revisions, live, overtaken>>,
         Return(a) \/ Begin(a) \/ \E p \in {"hosts", "record"} : Goto(a, p)
  PROVE  ProxyInv'
  <1>1. \A b \in Applier \ {a} : pc'[b] = pc[b] /\ got'[b] = got[b] /\ rev'[b] = rev[b]
    BY DEF TypeOK, Return, Begin, Goto
  <1>2. pc'[a] \notin Owning
    BY DEF TypeOK, Return, Begin, Goto, Owning
  <1> QED BY <1>1, <1>2, PlainStep

\* Every step keeps the invariant, and so does standing still.
LEMMA ProxyNext == TypeOK /\ ProxyInv /\ [Next]_vars => ProxyInv'
  <1> SUFFICES ASSUME TypeOK, ProxyInv, [Next]_vars PROVE ProxyInv'
    OBVIOUS
  <1>1. ASSUME NEW a \in Applier,
               save(a) \/ apply_proxy_config(a) \/ wait_ready(a) \/ CompareHash(a) \/ Dropped(a)
        PROVE  ProxyInv'
    BY <1>1, ReturnStep DEF save, apply_proxy_config, wait_ready, CompareHash, Dropped
  <1>2. CASE put_parameter \/ CaddyRestarts \/ UNCHANGED vars
    BY <1>2, PlainStep DEF put_parameter, CaddyRestarts, vars
  <1>3. ASSUME NEW a \in Applier, ReadHosts(a) \/ ReadRest(a) PROVE ProxyInv'
    <2>1. UNCHANGED <<revisions, live, rev, overtaken>>
      BY <1>3 DEF ReadHosts, ReadRest
    <2>2. \E p \in {"rest", "hash"} : pc' = [pc EXCEPT ![a] = p]
      BY <1>3 DEF ReadHosts, ReadRest
    <2>3. pc'[a] \notin Owning /\ \A b \in Applier \ {a} : pc'[b] = pc[b] /\ got'[b] = got[b]
      BY <1>3, <2>2 DEF ReadHosts, ReadRest, TypeOK, Owning
    <2> QED BY <2>1, <2>3, PlainStep
  <1>4. CASE Crash
    <2>1. (\A a \in Applier : pc'[a] \notin Owning) /\ UNCHANGED <<revisions, live, overtaken>>
      BY <1>4 DEF Crash, Booting, Owning
    <2> QED BY <2>1, PlainStep
  <1> QED BY <1>1, <1>2, <1>3, <1>4, RecordStep, LoadStep, MarkStep DEF Next, apply

\* However many applies overlap, and whatever is refused, lost, dropped or cut off
\* by a crash, a newest revision that says "applied" is what Caddy routes by, unless
\* Caddy was restarted or an older one was loaded after it.
THEOREM NewestIsLive == Spec => []NewestAppliedIsLive
  <1>1. ProxyInv => NewestAppliedIsLive
    BY DEF ProxyInv
  <1> QED BY <1>1, ProxyInit, ProxyNext, ProxyTypeCorrect, PTL DEF Spec

-----------------------------------------------------------------------------
(* Deploys that go through the proxy                                       *)

Unspoilt == ~Suffered({"refuse", "lost", "caddy"}) /\ ~stale

\* The hosts have been written since it read them.
Late(a) == <<a, "hosts">> \in behind

\* The revisions that say so, and the configuration of the last of them.
Among(s, i) == i \in DOMAIN s /\ s[i].status = "applied"
HashOf(s) ==
    LET applied == {i \in DOMAIN s : s[i].status = "applied"}
    IN  IF applied = {} THEN None
        ELSE s[CHOOSE i \in applied : \A j \in applied : j <= i].config
Applied(i) == Among(revisions, i)

\* What Caddy routes by, or was told last, names the container the rows name.
Routed == live # None /\ live.hosts = rows.hosts
AppliedAlike == last_applied_hash # None /\ last_applied_hash.hosts = rows.hosts

\* A revision after its own has been applied: its mark will change nothing.
Outdone(a) == \E i \in Nat : Applied(i) /\ rev[a] < i

\* Only handlers are late: nothing writes the hosts while a deploy or main applies.
Lateness ==
    \A a \in Applier : Late(a) => /\ pc[a] \in Past("hosts")
                                  /\ At(Main, "idle") /\ using # a

\* Whoever is not late has the hosts as they are, and has loaded them when it comes
\* to its mark; its revision is newer than those that late ones are about to mark.
InTime ==
    \A a \in Applier : ~Late(a) =>
        /\ pc[a] \in {"rest", "hash", "record", "load", "mark"} => got[a].hosts = rows.hosts
        /\ pc[a] = "mark" => Routed
        /\ pc[a] \in {"load", "mark"} =>
               /\ \A b \in Applier : Late(b) /\ pc[b] = "mark" => rev[b] < rev[a]
               /\ Outdone(a) => AppliedAlike

\* Only a startup, or a deploy that has just written the upstream, may find the
\* applied revision with another upstream than the rows.
UpToDate == At(Main, "idle") /\ using = None => AppliedAlike

\* When the applied revision has the rows' upstream, so has Caddy, and the marks of
\* the late change nothing; nor does that of one that is late with this upstream,
\* which was another in between.
Settled ==
    /\ AppliedAlike => Routed
    /\ \A b \in Applier : Late(b) /\ pc[b] = "mark" /\ (AppliedAlike \/ got[b].hosts = rows.hosts)
                          => Outdone(b)

\* Of the revisions that were applied one is the last.
LastApplied ==
    (\E i \in Nat : Applied(i)) => \E i \in Nat : Applied(i) /\ \A j \in Nat : Applied(j) => j <= i

NoneFails == \A a \in Applier : pc[a] # "fail"

RouteInv == Unspoilt => NoneFails /\ LastApplied /\ InTime /\ UpToDate /\ Settled

\* No deploy begins before the apply at startup is over; it writes an upstream that
\* is not there yet, and one that has passed point_proxy_at, or waits for its apply,
\* has its container in the rows.
DeployInv ==
    /\ ~At(Main, "idle") => step = "idle"
    /\ step = "point" => rows.hosts # target
    /\ step \in {"apply", "activate"} => rows.hosts = target

\* What a step of apply leaves alone.
LEMMA ApplyEffect ==
  ASSUME TypeOK, NEW a \in Applier, apply(a)
  PROVE  /\ pc[a] # "idle" /\ \A b \in Applier \ {a} : pc'[b] = pc[b]
         /\ UNCHANGED <<rows, edits>>
  <1>1. \E p : pc' = [pc EXCEPT ![a] = p]
    BY DEF apply, wait_ready, ReadHosts, ReadRest, CompareHash, record_pending, load,
           mark_applied, mark_failed, Mark, Return, Goto
  <1>2. pc[a] # "idle" /\ UNCHANGED <<rows, edits>>
    BY DEF apply, wait_ready, ReadHosts, ReadRest, CompareHash, record_pending, load,
           mark_applied, mark_failed, Mark, At
  <1> QED BY <1>1, <1>2 DEF TypeOK

\* An applier that returns is no longer late; the others stay as they are.
LEMMA ReturnEffect ==
  ASSUME TypeOK, NEW a \in Applier, Return(a)
  PROVE  /\ pc'[a] = "idle" /\ ~Late(a)'
         /\ \A b \in Applier \ {a} : /\ pc'[b] = pc[b] /\ got'[b] = got[b] /\ rev'[b] = rev[b]
                                     /\ Late(b)' <=> Late(b)
  <1>1. behind' = {w \in behind : w[1] # a}
    BY DEF Return
  <1>2. ~Late(a)' /\ \A b \in Applier \ {a} : Late(b)' <=> Late(b)
    BY <1>1 DEF Late
  <1> QED BY <1>2 DEF TypeOK, Return

\* Within apply no one becomes late, and whoever is late stays so until it returns.
LEMMA LateWithin ==
  ASSUME TypeOK, NEW a \in Applier, apply(a)
  PROVE  /\ pc'[a] = "idle" => ~Late(a)'
         /\ pc'[a] # "idle" => (Late(a)' <=> Late(a))
         /\ \A b \in Applier \ {a} : /\ got'[b] = got[b] /\ rev'[b] = rev[b]
                                     /\ Late(b)' <=> Late(b)
  <1>1. CASE Return(a)
    BY <1>1, ReturnEffect
  <1>2. CASE UNCHANGED behind /\ pc'[a] # "idle" /\ \A b \in Applier \ {a} : got'[b] = got[b] /\ rev'[b] = rev[b]
    BY <1>2 DEF Late
  <1>3. Return(a) \/ \E p \in {"hosts", "rest", "hash", "record", "load", "mark", "fail"} :
                       pc' = [pc EXCEPT ![a] = p] /\ UNCHANGED behind
    BY DEF apply, wait_ready, ReadHosts, ReadRest, CompareHash, record_pending, load,
           mark_applied, mark_failed, Mark, Goto
  <1>4. Return(a) \/ \A b \in Applier \ {a} : got'[b] = got[b] /\ rev'[b] = rev[b]
    BY DEF apply, wait_ready, ReadHosts, ReadRest, CompareHash, record_pending, load,
           mark_applied, mark_failed, Mark, Goto, TypeOK
  <1>5. Return(a) \/ (UNCHANGED behind /\ pc'[a] # "idle")
    BY <1>3 DEF TypeOK
  <1> QED BY <1>1, <1>2, <1>4, <1>5

\* A handler, or a deploy, that begins an apply moves one applier that was idle.
LEMMA BeginEffect ==
  ASSUME TypeOK, NEW a \in Applier, Free(a), Begin(a)
  PROVE  /\ pc[a] = "idle" /\ pc'[a] = "hosts" /\ \A b \in Applier \ {a} : pc'[b] = pc[b]
         /\ a # Main /\ pc[Main] = "idle" /\ pc'[Main] = "idle" /\ UNCHANGED <<got, rev>>
  BY MainApplies DEF TypeOK, Free, At, Begin

\* Who has read the hosts is late once they are written; a write of the rest makes
\* no one late.
LEMMA WriteEffect ==
  ASSUME TypeOK, Overtakes, NEW b \in Applier
  PROVE  /\ rows'.hosts = rows.hosts => (Late(b)' <=> Late(b))
         /\ rows'.hosts # rows.hosts => (Late(b)' <=> Late(b) \/ pc[b] \in Past("hosts"))
  <1>1. <<b, "hosts">> \in Applier \X {"hosts", "rest"} /\ <<b, "hosts">>[1] = b /\ <<b, "hosts">>[2] = "hosts"
    OBVIOUS
  <1>2. <<b, "hosts">> \in behind'
        <=> \/ <<b, "hosts">> \in behind
            \/ rows'["hosts"] # rows["hosts"] /\ pc[b] \in Past("hosts")
    BY <1>1 DEF Overtakes
  <1> QED BY <1>2 DEF Late

-----------------------------------------------------------------------------
(* Types of Cutover                                                        *)

LEMMA CutoverTypeInit == CutoverInit => TypeOK /\ DeployTypeOK
  BY TypeInit DEF CutoverInit, DeployTypeOK

\* The steps of Cutover that are no steps of ProxyApply keep its types.
LEMMA ProxyPartTypes ==
  ASSUME TypeOK, DeployTypeOK, [CutoverNext]_cvars
  PROVE  TypeOK'
  <1>1. ASSUME NEW a \in Applier, Handler(a) \/ Applies(a) PROVE TypeOK'
    <2>1. Next
      BY <1>1 DEF Handler, Applies, Next
    <2> QED BY <2>1, TypeNext
  <1>2. ASSUME NEW r \in Release, set_desired_release(r) PROVE TypeOK'
    BY <1>2, Bounds DEF set_desired_release, proxy, Edit, TypeOK
  <1>3. CASE Deploy
    <2>1. ASSUME NEW a \in Applier, set_upstream_container(a) PROVE TypeOK'
      <3>1. target \in Part
        BY <2>1 DEF DeployTypeOK, Release, set_upstream_container
      <3>2. rows' \in Config /\ UNCHANGED <<revisions, live, stale, overtaken, edits, faults>>
        BY <2>1, <3>1 DEF set_upstream_container, TypeOK, Config
      <3>3. behind' \subseteq Pairs
        BY <2>1, BehindType DEF set_upstream_container
      <3> QED BY <2>1, <3>2, <3>3, LocalsType DEF set_upstream_container, TypeOK, Pairs
    <2>2. CASE UNCHANGED vars
      BY <2>2 DEF vars, TypeOK
    <2> QED BY <1>3, <2>1, <2>2 DEF Deploy, Healthy, fetch, set_active_release
  <1>4. CASE clear_active
    BY <1>4, Bounds DEF clear_active, proxy, Edit, TypeOK
  <1>5. CASE put_parameter \/ CaddyRestarts \/ Crash
    BY <1>5, TypeNext DEF Next
  <1>6. CASE UNCHANGED cvars
    BY <1>6 DEF cvars, vars, TypeOK
  <1> QED BY <1>1, <1>2, <1>3, <1>4, <1>5, <1>6 DEF CutoverNext

LEMMA DeployPartTypes ==
  ASSUME TypeOK, DeployTypeOK, [CutoverNext]_cvars
  PROVE  DeployTypeOK'
  <1> USE DEF DeployTypeOK
  <1>1. ASSUME NEW a \in Applier, Handler(a) PROVE DeployTypeOK'
    <2>1. UNCHANGED <<desired, active, deploying>>
      BY <1>1 DEF Handler
    <2>2. CASE save(a) \/ apply_proxy_config(a)
      <3>1. pc'[a] = "hosts" /\ \A b \in Applier \ {a} : pc'[b] = pc[b]
        BY <2>2, BeginEffect DEF save, apply_proxy_config
      <3> QED BY <2>1, <3>1 DEF deploying, At
    <2>3. CASE Dropped(a) /\ using # a
      <3>1. \A b \in Applier \ {a} : pc'[b] = pc[b]
        BY <2>3, ReturnEffect DEF Dropped
      <3> QED BY <2>1, <2>3, <3>1 DEF deploying, At
    <2> QED BY <1>1, <2>2, <2>3 DEF Handler
  <1>2. ASSUME NEW a \in Applier, Applies(a) PROVE DeployTypeOK'
    <2>1. (\A b \in Applier \ {a} : pc'[b] = pc[b]) /\ UNCHANGED <<desired, active>>
      BY <1>2, ApplyEffect DEF Applies
    <2>2. CASE using = a
      <3>1. Follow(a) /\ step = "apply" /\ target # None
        BY <1>2, <2>2, NoneIsNothing DEF Applies
      <3>2. CASE pc'[a] # "idle"
        BY <2>1, <2>2, <3>1, <3>2, NoneIsNothing DEF Follow, deploying, At
      <3>3. CASE pc'[a] = "idle" /\ pc[a] = "fail"
        <4>1. step' = "idle" /\ target' = None /\ using' = None
          BY <3>1, <3>3 DEF Follow
        <4> QED BY <2>1, <4>1
      <3>4. CASE pc'[a] = "idle" /\ pc[a] # "fail"
        <4>1. step' = "activate" /\ target' = target /\ using' = None
          BY <3>1, <3>4 DEF Follow
        <4> QED BY <2>1, <3>1, <4>1
      <3> QED BY <3>2, <3>3, <3>4
    <2>3. CASE using # a
      BY <1>2, <2>1, <2>3 DEF Applies, deploying, At
    <2> QED BY <2>2, <2>3
  <1>3. ASSUME NEW r \in Release, set_desired_release(r) PROVE DeployTypeOK'
    BY <1>3 DEF set_desired_release, proxy, deploying, At
  <1>4. CASE Healthy \/ fetch \/ set_active_release
    BY <1>4, NoneIsNothing DEF Healthy, fetch, set_active_release, Proceed, End, vars, At, Release
  <1>5. ASSUME NEW a \in Applier, set_upstream_container(a) PROVE DeployTypeOK'
    <2>1. pc'[a] = "hosts"
      BY <1>5, BeginEffect DEF set_upstream_container
    <2> QED BY <1>5, <2>1, NoneIsNothing DEF set_upstream_container, At
  <1>6. CASE clear_active
    BY <1>6 DEF clear_active, proxy, deploying, At
  <1>7. CASE (put_parameter \/ CaddyRestarts) /\ UNCHANGED <<desired, active, deploying>>
    BY <1>7 DEF put_parameter, CaddyRestarts, deploying, At
  <1>8. CASE Crash /\ End /\ UNCHANGED active
    BY <1>8 DEF End
  <1>9. CASE UNCHANGED cvars
    BY <1>9 DEF cvars, vars, deploying, At
  <1> QED BY <1>1, <1>2, <1>3, <1>4, <1>5, <1>6, <1>7, <1>8, <1>9 DEF CutoverNext, Deploy

LEMMA CutoverTypes == CutoverSpec => [](TypeOK /\ DeployTypeOK)
  <1>1. TypeOK /\ DeployTypeOK /\ [CutoverNext]_cvars => (TypeOK /\ DeployTypeOK)'
    BY ProxyPartTypes, DeployPartTypes
  <1> QED BY <1>1, CutoverTypeInit, PTL DEF CutoverSpec

\* With deploys next to the handlers the proxy keeps its types; a deploy has a
\* container as long as it runs, and an applier that is at work while it applies.
THEOREM CutoverTypeCorrect == CutoverSpec => []CutoverTypeOK
  <1> QED BY CutoverTypes, PTL DEF CutoverTypeOK

-----------------------------------------------------------------------------
(* What was applied last                                                   *)

\* A fault is remembered, and so is a load with the hosts of before.
LEMMA FaultSpoils ==
  ASSUME TypeOK, NEW kind, Fault(kind), stale => stale'
  PROVE  Unspoilt' => Unspoilt /\ kind \notin {"refuse", "lost", "caddy"}
  <1>1. faults \in Seq(Faults) /\ kind \in Faults /\ faults' = Append(faults, kind)
    BY DEF TypeOK, Fault
  <1>2. /\ Len(faults') = Len(faults) + 1 /\ faults'[Len(faults) + 1] = kind
        /\ \A i \in 1 .. Len(faults) : faults'[i] = faults[i]
        /\ DOMAIN faults' = 1 .. Len(faults) + 1 /\ DOMAIN faults = 1 .. Len(faults)
        /\ Len(faults) \in Nat
    BY <1>1, AppendProperties, LenProperties
  <1>3. DOMAIN faults \subseteq DOMAIN faults' /\ Len(faults) + 1 \in DOMAIN faults'
    BY <1>2
  <1> QED BY <1>2, <1>3 DEF Unspoilt, Suffered

\* The largest of a set is the one chosen.
LEMMA LargestChosen ==
  ASSUME NEW S \in SUBSET Nat, NEW i \in S, \A j \in S : j <= i
  PROVE  (CHOOSE k \in S : \A j \in S : j <= k) = i
  <1>1. PICK k \in S : k = CHOOSE l \in S : \A j \in S : j <= l
    OBVIOUS
  <1>2. \A j \in S : j <= k
    BY <1>1
  <1> QED BY <1>1, <1>2

\* The last of the applied revisions is the one whose configuration was applied last.
LEMMA HashOfLast ==
  ASSUME NEW s \in Seq(Revision), NEW i \in Nat, Among(s, i),
         \A j \in Nat : Among(s, j) => j <= i
  PROVE  HashOf(s) = s[i].config
  <1> DEFINE applied == {k \in DOMAIN s : s[k].status = "applied"}
  <1>1. DOMAIN s \subseteq Nat
    BY LenProperties
  <1>2. applied \in SUBSET Nat /\ i \in applied /\ \A j \in applied : j <= i
    BY <1>1 DEF Among
  <1>3. HashOf(s) = IF applied = {} THEN None ELSE s[CHOOSE k \in applied : \A j \in applied : j <= k].config
    BY DEF HashOf
  <1> HIDE DEF applied
  <1>4. (CHOOSE k \in applied : \A j \in applied : j <= k) = i
    BY <1>2, LargestChosen
  <1> QED BY <1>2, <1>3, <1>4

\* No revision has been applied, and nothing was applied last.
LEMMA HashOfNone ==
  ASSUME NEW s \in Seq(Revision), \A i \in Nat : ~Among(s, i)
  PROVE  HashOf(s) = None
  <1>1. DOMAIN s \subseteq Nat
    BY LenProperties
  <1>2. {k \in DOMAIN s : s[k].status = "applied"} = {}
    BY <1>1 DEF Among
  <1> QED BY <1>2 DEF HashOf

\* A revision that is recorded changes nothing about what was applied.
LEMMA RecordKeepsHash ==
  ASSUME TypeOK, LastApplied, NEW a \in Applier, record_pending(a)
  PROVE  /\ last_applied_hash' = last_applied_hash /\ LastApplied'
         /\ \A i \in Nat : Applied(i)' <=> Applied(i)
         /\ \A i \in Nat : Applied(i) => i <= Len(revisions)
  <1>1. revisions \in Seq(Revision) /\ DOMAIN revisions = 1 .. Len(revisions) /\ Len(revisions) \in Nat
    BY LenProperties DEF TypeOK
  <1>2. got[a] \in Config
    BY DEF TypeOK
  <1> DEFINE e == [config |-> got[a], status |-> "pending"]
  <1>3. revisions' = Append(revisions, e) /\ e \in Revision /\ e.status = "pending"
    BY <1>2 DEF record_pending, Revision
  <1> HIDE DEF e
  <1>4. /\ DOMAIN revisions' = 1 .. Len(revisions) + 1 /\ revisions' \in Seq(Revision)
        /\ revisions'[Len(revisions) + 1].status = "pending"
        /\ \A i \in 1 .. Len(revisions) : revisions'[i] = revisions[i]
    BY <1>1, <1>3, AppendProperties, LenProperties
  <1>5. \A i \in Nat : Among(revisions', i) <=> Among(revisions, i)
    BY <1>1, <1>4 DEF Among
  <1>6. \A i \in Nat : Among(revisions, i) => i <= Len(revisions)
    BY <1>1 DEF Among
  <1>7. HashOf(revisions') = HashOf(revisions)
    <2>1. CASE \A i \in Nat : ~Among(revisions, i)
      BY <1>1, <1>4, <1>5, <2>1, HashOfNone
    <2>2. CASE \E i \in Nat : Among(revisions, i)
      <3>1. PICK i \in Nat : Among(revisions, i) /\ \A j \in Nat : Among(revisions, j) => j <= i
        BY <2>2 DEF LastApplied, Applied
      <3>2. HashOf(revisions) = revisions[i].config
        BY <1>1, <3>1, HashOfLast
      <3>3. HashOf(revisions') = revisions'[i].config
        BY <1>4, <1>5, <3>1, HashOfLast
      <3>4. i \in 1 .. Len(revisions)
        BY <1>1, <3>1 DEF Among
      <3> QED BY <1>4, <3>2, <3>3, <3>4
    <2> QED BY <2>1, <2>2
  <1>8. last_applied_hash' = last_applied_hash
    BY <1>7 DEF last_applied_hash, HashOf
  <1>9. LastApplied'
    BY <1>5 DEF LastApplied, Applied
  <1> QED BY <1>5, <1>6, <1>8, <1>9 DEF Applied

\* A mark makes its configuration the one that was applied last, unless a revision
\* after its own has been applied.
LEMMA MarkMakesLast ==
  ASSUME TypeOK, Owned, LastApplied, NEW a \in Applier, mark_applied(a)
  PROVE  /\ LastApplied'
         /\ \A i \in Nat : Applied(i)' <=> Applied(i) \/ i = rev[a]
         /\ Outdone(a) => last_applied_hash' = last_applied_hash
         /\ ~Outdone(a) => last_applied_hash' = got[a]
  <1> DEFINE r == rev[a]
  <1>1. revisions \in Seq(Revision) /\ DOMAIN revisions = 1 .. Len(revisions) /\ Len(revisions) \in Nat
    BY LenProperties DEF TypeOK
  <1>2. r \in DOMAIN revisions /\ revisions[r].config = got[a]
    BY DEF TypeOK, Owned, Owning, mark_applied, Mark, At
  <1>3. revisions' = [revisions EXCEPT ![r].status = "applied"]
    BY DEF mark_applied, Mark
  <1>4. /\ DOMAIN revisions' = DOMAIN revisions /\ revisions' \in Seq(Revision)
        /\ revisions'[r].config = got[a] /\ revisions'[r].status = "applied"
    <2>1. revisions \in Seq(Revision) /\ rev[a] \in DOMAIN revisions
      BY <1>1, <1>2
    <2>2. revisions' = [revisions EXCEPT ![rev[a]].status = "applied"]
      BY DEF mark_applied, Mark
    <2>3. /\ revisions' \in Seq(Revision) /\ DOMAIN revisions' = DOMAIN revisions
          /\ revisions'[rev[a]].config = revisions[rev[a]].config
          /\ revisions'[rev[a]].status = "applied"
      BY <2>1, <2>2, MarkedRevisions
    <2> QED BY <1>2, <2>3
  <1>5. \A i \in DOMAIN revisions : i # r => revisions'[i] = revisions[i]
    BY <1>1, <1>2, <1>3
  <1> HIDE DEF r
  <1>6. \A i \in Nat : Among(revisions', i) <=> Among(revisions, i) \/ i = r
    BY <1>2, <1>4, <1>5 DEF Among
  <1>7. r \in Nat
    BY <1>1, <1>2
  <1>8. CASE \E i \in Nat : Among(revisions, i) /\ r < i
    <2>1. PICK m \in Nat : Among(revisions, m) /\ \A j \in Nat : Among(revisions, j) => j <= m
      BY <1>8 DEF LastApplied, Applied
    <2>2. r < m
      BY <1>7, <1>8, <2>1
    <2>3. Among(revisions', m) /\ \A j \in Nat : Among(revisions', j) => j <= m
      BY <1>6, <1>7, <2>1, <2>2
    <2>4. HashOf(revisions) = revisions[m].config
      BY <1>1, <2>1, HashOfLast
    <2>5. HashOf(revisions') = revisions'[m].config
      BY <1>4, <2>3, HashOfLast
    <2>6. revisions'[m] = revisions[m]
      BY <1>5, <1>7, <2>1, <2>2 DEF Among
    <2>7. last_applied_hash' = last_applied_hash
      BY <2>4, <2>5, <2>6 DEF last_applied_hash, HashOf
    <2>8. LastApplied'
      BY <2>3 DEF LastApplied, Applied
    <2> QED BY <1>6, <1>8, <2>7, <2>8 DEF Applied, Outdone, r
  <1>9. CASE ~\E i \in Nat : Among(revisions, i) /\ r < i
    <2>1. Among(revisions', r) /\ \A j \in Nat : Among(revisions', j) => j <= r
      BY <1>6, <1>7, <1>9
    <2>2. HashOf(revisions') = revisions'[r].config
      BY <1>4, <1>7, <2>1, HashOfLast
    <2>3. last_applied_hash' = got[a]
      BY <1>4, <2>2 DEF last_applied_hash, HashOf
    <2>4. LastApplied'
      BY <1>7, <2>1 DEF LastApplied, Applied
    <2> QED BY <1>6, <1>9, <2>3, <2>4 DEF Applied, Outdone, r
  <1> QED BY <1>8, <1>9

-----------------------------------------------------------------------------
(* What a deploy relies on                                                 *)

LEMMA RouteInit == CutoverInit => RouteInv /\ DeployInv /\ Lateness
  <1> SUFFICES ASSUME CutoverInit PROVE RouteInv /\ DeployInv /\ Lateness
    OBVIOUS
  <1>1. \A a \in Applier : pc[a] \in {"ready", "idle"}
    BY DEF CutoverInit, Init, Booting
  <1>2. revisions = <<>> /\ step = "idle" /\ pc[Main] = "ready" /\ behind = {}
    BY MainApplies DEF CutoverInit, Init, Booting
  <1>3. DOMAIN revisions = {}
    BY <1>2
  <1>4. last_applied_hash = None
    BY <1>3 DEF last_applied_hash
  <1> QED BY <1>1, <1>2, <1>3, <1>4 DEF RouteInv, DeployInv, InTime, UpToDate, LastApplied, NoneFails,
                            Lateness, Late, Settled, AppliedAlike, Applied, Among, At

\* The steps of Cutover keep what ProxyApply's have been shown to keep.
LEMMA ProxyInvNext ==
  ASSUME TypeOK, ProxyInv, [CutoverNext]_cvars PROVE ProxyInv'
  <1>1. ASSUME NEW a \in Applier, Handler(a) \/ Applies(a) PROVE ProxyInv'
    <2>1. Next
      BY <1>1 DEF Handler, Applies, Next
    <2> QED BY <2>1, ProxyNext
  <1>2. ASSUME UNCHANGED <<revisions, live, pc, got, rev, overtaken>> PROVE ProxyInv'
    BY <1>2, PlainStep
  <1>3. ASSUME NEW a \in Applier, set_upstream_container(a) PROVE ProxyInv'
    BY <1>3, ReturnStep DEF set_upstream_container
  <1>4. CASE put_parameter \/ CaddyRestarts \/ Crash
    BY <1>4, ProxyNext DEF Next
  <1>5. CASE \/ \E r \in Release : set_desired_release(r)
             \/ Healthy \/ fetch \/ set_active_release \/ clear_active \/ UNCHANGED cvars
    BY <1>2, <1>5 DEF set_desired_release, Healthy, fetch, set_active_release, clear_active,
                      cvars, vars, proxy
  <1> QED BY <1>1, <1>3, <1>4, <1>5 DEF CutoverNext, Deploy

\* An applier that returns, or goes on, leaves others as late as they were.
LEMMA LatenessNext ==
  ASSUME TypeOK, DeployTypeOK, Lateness, [CutoverNext]_cvars PROVE Lateness'
  <1>1. ASSUME NEW a \in Applier, Handler(a) PROVE Lateness'
    <2>1. UNCHANGED using
      BY <1>1 DEF Handler, deploying
    <2>2. CASE save(a) /\ rows'.hosts = rows.hosts
      <3>1. \A b \in Applier : Late(b)' <=> Late(b)
        BY <2>2, WriteEffect DEF save
      <3>2. /\ pc[a] = "idle" /\ pc'[Main] = pc[Main]
            /\ \A b \in Applier \ {a} : pc'[b] = pc[b]
        BY <2>2, BeginEffect DEF save
      <3>3. pc[a] \notin Past("hosts")
        BY <3>2 DEF Past
      <3> QED BY <2>1, <3>1, <3>2, <3>3 DEF Lateness, At
    <2>3. CASE apply_proxy_config(a)
      <3>1. UNCHANGED behind
        BY <2>3 DEF apply_proxy_config
      <3>2. /\ pc[a] = "idle" /\ pc'[Main] = pc[Main]
            /\ \A b \in Applier \ {a} : pc'[b] = pc[b]
        BY <2>3, BeginEffect DEF apply_proxy_config
      <3>3. pc[a] \notin Past("hosts")
        BY <3>2 DEF Past
      <3> QED BY <2>1, <3>1, <3>2, <3>3 DEF Lateness, Late, At
    <2>4. CASE Dropped(a)
      <3>1. /\ ~Late(a)' /\ a # Main
            /\ \A b \in Applier \ {a} : pc'[b] = pc[b] /\ (Late(b)' <=> Late(b))
        BY <2>4, ReturnEffect DEF Dropped
      <3> QED BY <2>1, <3>1, MainApplies DEF Lateness, At
    <2> QED BY <1>1, <2>2, <2>3, <2>4 DEF Handler
  <1>2. ASSUME NEW a \in Applier, Applies(a) PROVE Lateness'
    <2>1. /\ pc[a] # "idle" /\ \A b \in Applier \ {a} : pc'[b] = pc[b]
          /\ pc'[a] = "idle" => ~Late(a)'
          /\ pc'[a] # "idle" => (Late(a)' <=> Late(a))
          /\ \A b \in Applier \ {a} : Late(b)' <=> Late(b)
      BY <1>2, ApplyEffect, LateWithin DEF Applies
    <2>2. using' \in {using, None}
      BY <1>2 DEF Applies, Follow, deploying
    <2>3. pc[a] \in Past("hosts") => pc'[a] \in Past("hosts") \union {"idle"}
      BY <1>2 DEF Past, Applies, apply, wait_ready, ReadHosts, ReadRest, CompareHash,
                  record_pending, load, mark_applied, mark_failed, Mark, Return, Goto, At, TypeOK
    <2> QED BY <2>1, <2>2, <2>3, MainApplies, NoneIsNothing DEF Lateness, At
  <1>3. ASSUME NEW a \in Applier, set_upstream_container(a) PROVE Lateness'
    <2>1. /\ pc[a] = "idle" /\ pc'[Main] = "idle" /\ pc[Main] = "idle"
          /\ \A b \in Applier \ {a} : pc'[b] = pc[b]
      BY <1>3, BeginEffect DEF set_upstream_container
    <2>2. using' = a
      BY <1>3 DEF set_upstream_container
    <2>3. \A b \in Applier : Late(b)' => Late(b) \/ pc[b] \in Past("hosts")
      BY <1>3, WriteEffect DEF set_upstream_container
    <2>4. pc[a] \notin Past("hosts")
      BY <2>1 DEF Past
    <2> QED BY <2>1, <2>2, <2>3, <2>4 DEF Lateness, At
  <1>4. CASE put_parameter /\ UNCHANGED <<desired, active, deploying>>
    <2>1. rows'.hosts = rows.hosts
      BY <1>4 DEF put_parameter, TypeOK, Config
    <2>2. \A b \in Applier : Late(b)' <=> Late(b)
      BY <1>4, <2>1, WriteEffect DEF put_parameter
    <2> QED BY <1>4, <2>2 DEF Lateness, put_parameter, deploying, At
  <1>5. CASE Crash
    BY <1>5 DEF Crash, Lateness, Late
  <1>6. CASE \/ CaddyRestarts /\ UNCHANGED <<desired, active, deploying>>
             \/ \E r \in Release : set_desired_release(r)
             \/ Healthy \/ fetch \/ set_active_release \/ clear_active \/ UNCHANGED cvars
    <2>1. UNCHANGED <<behind, pc>>
      BY <1>6 DEF CaddyRestarts, set_desired_release, Healthy, fetch, set_active_release,
                  clear_active, proxy, cvars, vars
    <2>2. using' = using
      BY <1>6 DEF CaddyRestarts, set_desired_release, Healthy, fetch, set_active_release, clear_active,
                  cvars, deploying, Proceed, End, DeployTypeOK
    <2> QED BY <2>1, <2>2 DEF Lateness, Late, At
  <1> QED BY <1>1, <1>2, <1>3, <1>4, <1>5, <1>6 DEF CutoverNext, Deploy

\* A step that leaves the upstream, the revisions and Caddy alone keeps what was
\* applied last and how it is routed.
LEMMA RouteKept ==
  ASSUME rows'.hosts = rows.hosts, UNCHANGED <<revisions, live>>
  PROVE  /\ AppliedAlike' <=> AppliedAlike
         /\ Routed' <=> Routed
         /\ LastApplied' <=> LastApplied
         /\ \A i : Applied(i)' <=> Applied(i)
  BY DEF AppliedAlike, Routed, LastApplied, last_applied_hash, Applied

\* So does the invariant, if whoever then loads or marks does so already, and
\* whoever has read the hosts without being late has read them as they are.
LEMMA QuietStep ==
  ASSUME NoneFails, LastApplied, InTime, Settled,
         rows'.hosts = rows.hosts, UNCHANGED <<revisions, live>>,
         \A b \in Applier : pc'[b] \in Owning =>
             /\ pc'[b] = pc[b] /\ got'[b] = got[b] /\ rev'[b] = rev[b]
             /\ Late(b)' <=> Late(b),
         \A b \in Applier : ~Late(b)' /\ pc'[b] \in {"rest", "hash", "record"}
                            => got'[b].hosts = rows.hosts
  PROVE  (NoneFails /\ LastApplied /\ InTime /\ Settled)'
  <1>1. /\ AppliedAlike' <=> AppliedAlike
        /\ Routed' <=> Routed
        /\ LastApplied'
        /\ \A i \in Nat : Applied(i)' <=> Applied(i)
    BY RouteKept
  <1>2. \A b \in Applier : pc'[b] \in Owning => (Outdone(b)' <=> Outdone(b))
    BY <1>1 DEF Outdone
  <1>3. NoneFails'
    BY DEF NoneFails, Owning
  <1>4. InTime'
    <2> SUFFICES ASSUME NEW a \in Applier, ~Late(a)'
                 PROVE  /\ pc'[a] \in {"rest", "hash", "record", "load", "mark"}
                             => got'[a].hosts = rows'.hosts
                        /\ pc'[a] = "mark" => Routed'
                        /\ pc'[a] \in {"load", "mark"} =>
                             /\ \A b \in Applier : Late(b)' /\ pc'[b] = "mark" => rev'[b] < rev'[a]
                             /\ Outdone(a)' => AppliedAlike'
      BY DEF InTime
    <2>1. CASE pc'[a] \in {"load", "mark"}
      <3>1. pc'[a] = pc[a] /\ got'[a] = got[a] /\ rev'[a] = rev[a] /\ ~Late(a)
        BY <2>1 DEF Owning
      <3>2. /\ got[a].hosts = rows.hosts
            /\ pc[a] = "mark" => Routed
            /\ \A b \in Applier : Late(b) /\ pc[b] = "mark" => rev[b] < rev[a]
            /\ Outdone(a) => AppliedAlike
        BY <2>1, <3>1 DEF InTime
      <3>3. \A b \in Applier : Late(b)' /\ pc'[b] = "mark" => rev'[b] < rev'[a]
        BY <3>1, <3>2 DEF Owning
      <3>4. Outdone(a)' => AppliedAlike'
        BY <1>1, <1>2, <2>1, <3>2 DEF Owning
      <3> QED BY <1>1, <3>1, <3>2, <3>3, <3>4
    <2>2. CASE pc'[a] \notin {"load", "mark"}
      BY <2>2
    <2> QED BY <2>1, <2>2
  <1>5. Settled'
    <2> SUFFICES ASSUME NEW b \in Applier, Late(b)', pc'[b] = "mark",
                        AppliedAlike' \/ got'[b].hosts = rows'.hosts
                 PROVE  Outdone(b)'
      BY <1>1 DEF Settled
    <2>1. Late(b) /\ pc[b] = "mark" /\ got'[b] = got[b]
      BY DEF Owning
    <2>2. Outdone(b)
      BY <1>1, <2>1 DEF Settled
    <2> QED BY <1>2, <2>2 DEF Owning
  <1> QED BY <1>1, <1>3, <1>4, <1>5

\* An apply that goes on to its next await lets no deploy go on.
LEMMA AppliesWithin ==
  ASSUME TypeOK, NEW a \in Applier, Applies(a), pc'[a] # "idle"
  PROVE  UNCHANGED using /\ (At(Main, "idle")' => At(Main, "idle"))
  <1>1. pc[a] # "idle" /\ \A b \in Applier \ {a} : pc'[b] = pc[b]
    BY ApplyEffect DEF Applies
  <1>2. UNCHANGED using
    BY DEF Applies, Follow, deploying
  <1>3. At(Main, "idle")' => At(Main, "idle")
    BY <1>1, MainApplies DEF At
  <1> QED BY <1>2, <1>3

\* When main, or the apply of a deploy, returns, it was not late; another apply that
\* returns lets no deploy go on either.
LEMMA ReturnsInTime ==
  ASSUME TypeOK, DeployTypeOK, Lateness, UpToDate, NEW a \in Applier, Applies(a),
         At(Main, "idle")', using' = None
  PROVE  AppliedAlike \/ ~Late(a)
  <1>1. pc[a] # "idle" /\ \A b \in Applier \ {a} : pc'[b] = pc[b]
    BY ApplyEffect DEF Applies
  <1>2. CASE using = a
    BY <1>2 DEF Lateness
  <1>3. CASE using # a
    <2>1. using = None
      BY <1>3 DEF Applies, deploying
    <2>2. CASE a = Main
      BY <1>1, <2>2 DEF Lateness, At
    <2>3. CASE a # Main
      BY <1>1, <2>1, <2>3, MainApplies DEF UpToDate, At
    <2> QED BY <2>2, <2>3
  <1> QED BY <1>2, <1>3

\* The mark of an apply: that of one that is not late gives the revision with the
\* rows' upstream, that of a late one takes it away from no one.
LEMMA RouteMarks ==
  ASSUME TypeOK, DeployTypeOK, ProxyInv, Lateness, NEW a \in Applier, Applies(a), mark_applied(a),
         NoneFails, LastApplied, InTime, UpToDate, Settled
  PROVE  (NoneFails /\ LastApplied /\ InTime /\ UpToDate /\ Settled)'
  <1>1. /\ pc[a] = "mark" /\ pc'[a] = "idle" /\ ~Late(a)' /\ UNCHANGED <<live, rows>>
        /\ \A b \in Applier \ {a} : /\ pc'[b] = pc[b] /\ got'[b] = got[b] /\ rev'[b] = rev[b]
                                    /\ Late(b)' <=> Late(b)
    BY ReturnEffect DEF mark_applied, Mark, At
  <1>2. /\ LastApplied'
        /\ \A i \in Nat : Applied(i)' <=> Applied(i) \/ i = rev[a]
        /\ Outdone(a) => last_applied_hash' = last_applied_hash
        /\ ~Outdone(a) => last_applied_hash' = got[a]
    BY MarkMakesLast DEF ProxyInv
  <1>3. rev \in [Applier -> Nat] /\ got[a] # None
    BY NoneIsNew DEF TypeOK
  <1>4. Routed' <=> Routed
    BY <1>1 DEF Routed
  <1>5. \A b \in Applier \ {a} : /\ Outdone(b) => Outdone(b)'
                                 /\ Outdone(b)' => Outdone(b) \/ rev[b] < rev[a]
                                 /\ rev[b] < rev[a] => Outdone(b)'
    BY <1>1, <1>2, <1>3 DEF Outdone
  <1>6. NoneFails'
    BY <1>1 DEF NoneFails
  <1>7. \A b \in Applier : ~Late(b)' /\ pc'[b] \in {"rest", "hash", "record", "load", "mark"} =>
            /\ b # a /\ ~Late(b) /\ pc'[b] = pc[b]
            /\ got'[b].hosts = rows'.hosts
            /\ pc'[b] = "mark" => Routed'
            /\ pc'[b] \in {"load", "mark"} =>
                 /\ Outdone(b) => AppliedAlike
                 /\ \A c \in Applier : Late(c) /\ pc[c] = "mark" => rev[c] < rev[b]
                 /\ \A c \in Applier : Late(c)' /\ pc'[c] = "mark" => rev'[c] < rev'[b]
    BY <1>1, <1>4 DEF InTime
  <1>8. ASSUME \A b \in Applier : ~Late(b)' /\ pc'[b] \in {"load", "mark"} => (Outdone(b)' => AppliedAlike')
        PROVE  InTime'
    BY <1>7, <1>8 DEF InTime
  <1>9. CASE Outdone(a)
    <2>1. AppliedAlike' <=> AppliedAlike
      BY <1>1, <1>2, <1>9 DEF AppliedAlike
    <2>2. \A b \in Applier \ {a} : Outdone(b)' => Outdone(b)
      <3> SUFFICES ASSUME NEW b \in Applier \ {a}, rev[b] < rev[a] PROVE Outdone(b)
        BY <1>5
      <3> QED BY <1>3, <1>9 DEF Outdone
    <2>3. InTime'
      BY <1>7, <1>8, <2>1, <2>2
    <2>4. Settled'
      BY <1>1, <1>4, <1>5, <2>1 DEF Settled
    <2>5. UpToDate'
      <3> SUFFICES ASSUME At(Main, "idle")', using' = None PROVE AppliedAlike
        BY <2>1 DEF UpToDate
      <3>1. ~Late(a) => AppliedAlike
        BY <1>1, <1>9 DEF InTime
      <3> QED BY <3>1, ReturnsInTime
    <2> QED BY <1>2, <1>6, <2>3, <2>4, <2>5
  <1>10. CASE ~Outdone(a) /\ ~Late(a)
    <2>1. got[a].hosts = rows.hosts /\ Routed
      BY <1>1, <1>10 DEF InTime
    <2>2. AppliedAlike'
      BY <1>1, <1>2, <1>3, <1>10, <2>1 DEF AppliedAlike
    <2>3. InTime'
      BY <1>8, <2>2
    <2>4. Settled'
      <3>1. \A b \in Applier : Late(b) /\ pc[b] = "mark" => rev[b] < rev[a]
        BY <1>1, <1>10 DEF InTime
      <3>2. \A b \in Applier : Late(b)' /\ pc'[b] = "mark" => Outdone(b)'
        BY <1>1, <1>5, <3>1
      <3> QED BY <1>4, <2>1, <3>2 DEF Settled
    <2> QED BY <1>2, <1>6, <2>2, <2>3, <2>4 DEF UpToDate
  <1>11. CASE ~Outdone(a) /\ Late(a)
    <2>1. ~AppliedAlike /\ got[a].hosts # rows.hosts
      BY <1>1, <1>11 DEF Settled
    <2>2. ~AppliedAlike'
      BY <1>1, <1>2, <1>11, <2>1 DEF AppliedAlike
    <2>3. \A b \in Applier : ~Late(b)' /\ pc'[b] \in {"load", "mark"} => ~Outdone(b)'
      <3> SUFFICES ASSUME NEW b \in Applier, ~Late(b)', pc'[b] \in {"load", "mark"}
                   PROVE  ~Outdone(b)'
        OBVIOUS
      <3>1. b # a /\ rev[a] < rev[b] /\ ~Outdone(b)
        BY <1>1, <1>7, <1>11, <2>1
      <3>2. ~(rev[b] < rev[a])
        BY <1>3, <3>1
      <3> QED BY <1>5, <3>1, <3>2
    <2>4. InTime'
      BY <1>8, <2>3
    <2>5. Settled'
      BY <1>1, <1>5, <2>2 DEF Settled
    <2>6. UpToDate'
      BY <1>11, <2>1, ReturnsInTime DEF UpToDate
    <2> QED BY <1>2, <1>6, <2>4, <2>5, <2>6
  <1> QED BY <1>9, <1>10, <1>11

\* Every step of an apply keeps the invariant.
LEMMA RouteApplies ==
  ASSUME TypeOK, DeployTypeOK, ProxyInv, Lateness, RouteInv, NEW a \in Applier, Applies(a)
  PROVE  RouteInv'
  <1> SUFFICES ASSUME Unspoilt' PROVE (NoneFails /\ LastApplied /\ InTime /\ UpToDate /\ Settled)'
    BY DEF RouteInv
  <1>1. /\ pc[a] # "idle" /\ rows' = rows
        /\ \A b \in Applier \ {a} : /\ pc'[b] = pc[b] /\ got'[b] = got[b] /\ rev'[b] = rev[b]
                                    /\ Late(b)' <=> Late(b)
        /\ pc'[a] = "idle" => ~Late(a)'
        /\ pc'[a] # "idle" => (Late(a)' <=> Late(a))
    BY ApplyEffect, LateWithin DEF Applies
  <1>2. stale => stale'
    BY DEF Applies, apply, wait_ready, ReadHosts, ReadRest, CompareHash, record_pending, load,
           TakesEffect, mark_applied, mark_failed, Mark
  <1>3. UNCHANGED faults \/ Fault("refuse") \/ Fault("lost")
    BY DEF Applies, apply, wait_ready, ReadHosts, ReadRest, CompareHash, record_pending, load,
           mark_applied, mark_failed, Mark
  <1>4. ~Fault("refuse") /\ ~Fault("lost")
    BY <1>2, FaultSpoils
  <1>5. Unspoilt
    BY <1>2, <1>3, <1>4 DEF Unspoilt, Suffered
  <1>6. NoneFails /\ LastApplied /\ InTime /\ UpToDate /\ Settled
    BY <1>5 DEF RouteInv
  <1>7. ASSUME pc'[a] # "idle", AppliedAlike' <=> AppliedAlike PROVE UpToDate'
    BY <1>6, <1>7, AppliesWithin DEF UpToDate
  <1>8. ASSUME UNCHANGED <<revisions, live>>, pc'[a] \in {"hosts", "rest", "hash", "record"},
               ~Late(a) /\ pc'[a] # "hosts" => got'[a].hosts = rows.hosts
        PROVE  (NoneFails /\ LastApplied /\ InTime /\ UpToDate /\ Settled)'
    <2>1. \A b \in Applier : pc'[b] \in Owning =>
              /\ pc'[b] = pc[b] /\ got'[b] = got[b] /\ rev'[b] = rev[b]
              /\ Late(b)' <=> Late(b)
      BY <1>1, <1>8 DEF Owning
    <2>2. \A b \in Applier : ~Late(b)' /\ pc'[b] \in {"rest", "hash", "record"}
                            => got'[b].hosts = rows.hosts
      BY <1>1, <1>6, <1>8 DEF InTime
    <2>3. (NoneFails /\ LastApplied /\ InTime /\ Settled)'
      BY <1>1, <1>6, <1>8, <2>1, <2>2, QuietStep
    <2> QED BY <1>1, <1>7, <1>8, <2>3, RouteKept
  <1>9. CASE wait_ready(a)
    <2>1. pc'[a] = "hosts" /\ UNCHANGED <<revisions, live>>
      BY <1>4, <1>9 DEF wait_ready, Goto, TypeOK
    <2> QED BY <1>8, <2>1
  <1>10. CASE ReadHosts(a)
    <2>1. pc'[a] = "rest" /\ got'[a].hosts = rows.hosts /\ UNCHANGED <<revisions, live>>
      BY <1>10 DEF ReadHosts, TypeOK, Config
    <2> QED BY <1>8, <2>1
  <1>11. CASE ReadRest(a)
    <2>1. pc[a] = "rest" /\ pc'[a] = "hash" /\ got'[a].hosts = got[a].hosts /\ UNCHANGED <<revisions, live>>
      BY <1>11 DEF ReadRest, TypeOK, Config, At
    <2> QED BY <1>6, <1>8, <2>1 DEF InTime
  <1>12. CASE CompareHash(a)
    <2>1. pc[a] = "hash" /\ UNCHANGED <<revisions, live>>
      BY <1>12 DEF CompareHash, At
    <2>2. CASE last_applied_hash = got[a]
      <3>1. pc'[a] = "idle"
        BY <1>12, <2>2 DEF CompareHash, Return, TypeOK
      <3>2. ~Late(a) => AppliedAlike
        BY <1>6, <2>1, <2>2, NoneIsNew DEF AppliedAlike, InTime, TypeOK
      <3>3. \A b \in Applier : pc'[b] \in Owning =>
                /\ pc'[b] = pc[b] /\ got'[b] = got[b] /\ rev'[b] = rev[b]
                /\ Late(b)' <=> Late(b)
        BY <1>1, <3>1 DEF Owning
      <3>4. \A b \in Applier : ~Late(b)' /\ pc'[b] \in {"rest", "hash", "record"}
                              => got'[b].hosts = rows.hosts
        BY <1>1, <1>6, <3>1 DEF InTime
      <3>5. (NoneFails /\ LastApplied /\ InTime /\ Settled)'
        BY <1>1, <1>6, <2>1, <3>3, <3>4, QuietStep
      <3>6. UpToDate'
        <4>1. AppliedAlike' <=> AppliedAlike
          BY <1>1, <2>1, RouteKept
        <4> QED BY <1>6, <3>2, <4>1, ReturnsInTime DEF UpToDate
      <3> QED BY <3>5, <3>6
    <2>3. CASE last_applied_hash # got[a]
      <3>1. pc'[a] = "record" /\ got' = got
        BY <1>12, <2>3 DEF CompareHash, Goto, TypeOK
      <3> QED BY <1>6, <1>8, <2>1, <3>1 DEF InTime
    <2> QED BY <2>2, <2>3
  <1>13. CASE record_pending(a)
    <2>1. /\ pc[a] = "record" /\ pc'[a] = "load" /\ UNCHANGED <<got, live>>
          /\ rev'[a] = Len(revisions) + 1
      BY <1>13 DEF record_pending, At, TypeOK
    <2>2. /\ LastApplied' /\ last_applied_hash' = last_applied_hash
          /\ \A i \in Nat : Applied(i)' <=> Applied(i)
          /\ \A i \in Nat : Applied(i) => i <= Len(revisions)
      BY <1>6, <1>13, RecordKeepsHash
    <2>3. (AppliedAlike' <=> AppliedAlike) /\ (Routed' <=> Routed)
      BY <1>1, <2>1, <2>2 DEF AppliedAlike, Routed
    <2>4. Len(revisions) \in Nat /\ \A b \in Applier : pc[b] = "mark" => rev[b] <= Len(revisions) /\ rev[b] \in Nat
      BY OwnersIds DEF Owning
    <2>5. NoneFails'
      BY <1>1, <1>6, <2>1 DEF NoneFails
    <2>6. \A b \in Applier \ {a} : Outdone(b)' <=> Outdone(b)
      BY <1>1, <2>2 DEF Outdone
    <2>7. InTime'
      <3> SUFFICES ASSUME NEW b \in Applier, ~Late(b)'
                   PROVE  /\ pc'[b] \in {"rest", "hash", "record", "load", "mark"}
                               => got'[b].hosts = rows'.hosts
                          /\ pc'[b] = "mark" => Routed'
                          /\ pc'[b] \in {"load", "mark"} =>
                               /\ \A c \in Applier : Late(c)' /\ pc'[c] = "mark" => rev'[c] < rev'[b]
                               /\ Outdone(b)' => AppliedAlike'
        BY DEF InTime
      <3>1. CASE b = a
        <4>1. ~Late(a) /\ got[a].hosts = rows.hosts
          BY <1>1, <1>6, <2>1, <3>1 DEF InTime
        <4>2. \A c \in Applier : pc'[c] = "mark" => rev'[c] < rev'[a]
          BY <1>1, <2>1, <2>4
        <4>3. ~Outdone(a)'
          BY <2>1, <2>2, <2>4 DEF Outdone
        <4> QED BY <1>1, <2>1, <3>1, <4>1, <4>2, <4>3
      <3>2. CASE b # a
        <4>1. /\ ~Late(b) /\ pc'[b] = pc[b] /\ rev'[b] = rev[b] /\ got'[b] = got[b]
              /\ Outdone(b)' <=> Outdone(b)
          BY <1>1, <2>6, <3>2
        <4>2. /\ pc[b] \in {"rest", "hash", "record", "load", "mark"} => got[b].hosts = rows.hosts
              /\ pc[b] = "mark" => Routed
              /\ pc[b] \in {"load", "mark"} =>
                   /\ \A c \in Applier : Late(c) /\ pc[c] = "mark" => rev[c] < rev[b]
                   /\ Outdone(b) => AppliedAlike
          BY <1>6, <4>1 DEF InTime
        <4>3. \A c \in Applier : Late(c)' /\ pc'[c] = "mark" =>
                Late(c) /\ pc[c] = "mark" /\ rev'[c] = rev[c]
          BY <1>1, <2>1
        <4> QED BY <1>1, <2>3, <4>1, <4>2, <4>3
      <3> QED BY <3>1, <3>2
    <2>8. Settled'
      BY <1>1, <1>6, <2>1, <2>3, <2>6 DEF Settled
    <2>9. UpToDate'
      BY <1>7, <2>1, <2>3
    <2> QED BY <2>2, <2>5, <2>7, <2>8, <2>9
  <1>14. CASE load(a)
    <2>1. TakesEffect(a) /\ pc[a] = "load" /\ pc'[a] = "mark" /\ UNCHANGED <<got, rev, revisions>>
      BY <1>4, <1>14 DEF load, Goto, At, TypeOK
    <2>2. live' = got[a] /\ got[a] # None
      BY <2>1, NoneIsNew DEF TakesEffect, TypeOK
    <2>3. ~Late(a)
      <3>1. ~stale'
        BY DEF Unspoilt
      <3> QED BY <2>1, <3>1 DEF TakesEffect, Late
    <2>4. got[a].hosts = rows.hosts
      BY <1>6, <2>1, <2>3 DEF InTime
    <2>5. Routed'
      BY <1>1, <2>2, <2>4 DEF Routed
    <2>6. /\ AppliedAlike' <=> AppliedAlike
          /\ LastApplied'
      BY <1>1, <1>6, <2>1 DEF AppliedAlike, last_applied_hash, LastApplied, Applied
    <2>7. \A b \in Applier : Outdone(b)' <=> Outdone(b)
      BY <2>1 DEF Outdone, Applied
    <2>8. NoneFails'
      BY <1>1, <1>6, <2>1 DEF NoneFails
    <2>9. \A b \in Applier : Late(b)' <=> Late(b)
      BY <1>1, <2>1
    <2>10. \A b \in Applier : Late(b) /\ pc'[b] = "mark" => pc[b] = "mark"
      BY <1>1, <2>3
    <2>11. InTime'
      <3> SUFFICES ASSUME NEW b \in Applier, ~Late(b)
                   PROVE  /\ pc'[b] \in {"rest", "hash", "record", "load", "mark"}
                               => got[b].hosts = rows.hosts
                          /\ pc'[b] \in {"load", "mark"} =>
                               /\ \A c \in Applier : Late(c) /\ pc'[c] = "mark" => rev[c] < rev[b]
                               /\ Outdone(b) => AppliedAlike
        BY <1>1, <2>1, <2>5, <2>6, <2>7, <2>9 DEF InTime
      <3>1. pc'[b] \in {"rest", "hash", "record"} => pc[b] = pc'[b]
        BY <1>1, <2>1
      <3>2. pc'[b] \in {"load", "mark"} => pc[b] \in {"load", "mark"}
        BY <1>1, <2>1
      <3> QED BY <1>6, <2>10, <3>1, <3>2 DEF InTime
    <2>12. Settled'
      BY <1>1, <1>6, <2>1, <2>5, <2>6, <2>7, <2>9, <2>10 DEF Settled
    <2>13. UpToDate'
      BY <1>7, <2>1, <2>6
    <2> QED BY <2>6, <2>8, <2>11, <2>12, <2>13
  <1>15. CASE mark_applied(a)
    BY <1>6, <1>15, RouteMarks
  <1>16. ~mark_failed(a)
    BY <1>6 DEF NoneFails, mark_failed, Mark, At
  <1> QED BY <1>9, <1>10, <1>11, <1>12, <1>13, <1>14, <1>15, <1>16 DEF Applies, apply

\* A deploy writes an upstream that was not there: whoever has read the hosts is
\* late with another, or was late before and is outdone.
LEMMA RoutePoints ==
  ASSUME TypeOK, DeployTypeOK, DeployInv, RouteInv, NEW a \in Applier, set_upstream_container(a)
  PROVE  RouteInv'
  <1>1. /\ Free(a) /\ Begin(a) /\ UNCHANGED <<revisions, live, stale, faults>> /\ Overtakes
        /\ using = None /\ using' = a /\ step = "point"
    BY DEF set_upstream_container, DeployTypeOK
  <1>2. /\ pc[a] = "idle" /\ pc'[a] = "hosts" /\ \A b \in Applier \ {a} : pc'[b] = pc[b]
        /\ UNCHANGED <<got, rev>> /\ At(Main, "idle")
    BY <1>1, BeginEffect DEF At
  <1>3. rows'.hosts = target /\ rows.hosts # target
    BY <1>1 DEF set_upstream_container, TypeOK, Config, DeployInv
  <1>4. \A b \in Applier : Late(b)' <=> Late(b) \/ pc[b] \in Past("hosts")
    BY <1>1, <1>3, WriteEffect
  <1>5. SUFFICES ASSUME Unspoilt' PROVE (NoneFails /\ LastApplied /\ InTime /\ UpToDate /\ Settled)'
    BY DEF RouteInv
  <1>6. NoneFails /\ LastApplied /\ InTime /\ UpToDate /\ Settled /\ AppliedAlike
    BY <1>1, <1>2, <1>5 DEF RouteInv, Unspoilt, Suffered, UpToDate
  <1>7. NoneFails' /\ LastApplied'
    BY <1>1, <1>2, <1>6 DEF NoneFails, LastApplied, Applied
  <1>8. InTime'
    <2>1. \A b \in Applier : ~Late(b)' => pc'[b] \notin {"rest", "hash", "record", "load", "mark"}
      BY <1>2, <1>4 DEF Past
    <2> QED BY <2>1 DEF InTime
  <1>9. UpToDate'
    BY <1>1, NoneIsNothing DEF UpToDate
  <1>10. ~AppliedAlike'
    BY <1>1, <1>3, <1>6 DEF AppliedAlike, last_applied_hash
  <1>11. Settled'
    <2> SUFFICES ASSUME NEW b \in Applier, pc'[b] = "mark", got'[b].hosts = rows'.hosts
                 PROVE  Outdone(b)'
      BY <1>10 DEF Settled
    <2>1. pc[b] = "mark" /\ got[b].hosts # rows.hosts
      BY <1>2, <1>3
    <2>2. Late(b)
      BY <1>6, <2>1 DEF InTime
    <2>3. Outdone(b)
      BY <1>6, <2>1, <2>2 DEF Settled
    <2> QED BY <1>1, <1>2, <2>3 DEF Outdone, Applied
  <1> QED BY <1>7, <1>8, <1>9, <1>11

\* Every step of Cutover keeps the invariant.
LEMMA RouteNext ==
  ASSUME TypeOK, DeployTypeOK, ProxyInv, Lateness, DeployInv, RouteInv, [CutoverNext]_cvars
  PROVE  RouteInv'
  <1>1. ASSUME Unspoilt' => Unspoilt, rows'.hosts = rows.hosts, UNCHANGED <<revisions, live>>,
               \A b \in Applier :
                  \/ pc'[b] \in {"idle", "ready", "hosts"}
                  \/ /\ pc'[b] = pc[b] /\ got'[b] = got[b] /\ rev'[b] = rev[b]
                     /\ Late(b)' <=> Late(b),
               At(Main, "idle")' /\ using' = None => At(Main, "idle") /\ using = None
        PROVE  RouteInv'
    <2> SUFFICES ASSUME Unspoilt' PROVE (NoneFails /\ LastApplied /\ InTime /\ UpToDate /\ Settled)'
      BY DEF RouteInv
    <2>1. NoneFails /\ LastApplied /\ InTime /\ UpToDate /\ Settled
      BY <1>1 DEF RouteInv
    <2>2. \A b \in Applier : pc'[b] \in Owning =>
              /\ pc'[b] = pc[b] /\ got'[b] = got[b] /\ rev'[b] = rev[b]
              /\ Late(b)' <=> Late(b)
      BY <1>1 DEF Owning
    <2>3. \A b \in Applier : ~Late(b)' /\ pc'[b] \in {"rest", "hash", "record"}
                            => got'[b].hosts = rows.hosts
      BY <1>1, <2>1 DEF InTime
    <2>4. (NoneFails /\ LastApplied /\ InTime /\ Settled)'
      BY <1>1, <2>1, <2>2, <2>3, QuietStep
    <2>5. UpToDate'
      BY <1>1, <2>1, RouteKept DEF UpToDate
    <2> QED BY <2>4, <2>5
  <1>2. ASSUME NEW a \in Applier, Handler(a) PROVE RouteInv'
    <2>1. UNCHANGED <<revisions, live, stale, using>>
      BY <1>2 DEF Handler, save, apply_proxy_config, Dropped, deploying
    <2>2. CASE save(a) /\ rows'.hosts = rows.hosts
      <3>1. /\ pc'[a] = "hosts" /\ pc'[Main] = pc[Main] /\ UNCHANGED <<got, rev>>
            /\ \A b \in Applier \ {a} : pc'[b] = pc[b]
        BY <2>2, BeginEffect DEF save
      <3>2. \A b \in Applier : Late(b)' <=> Late(b)
        BY <2>2, WriteEffect DEF save
      <3>3. Unspoilt' => Unspoilt
        BY <2>2 DEF save, Unspoilt, Suffered
      <3> QED BY <1>1, <2>1, <2>2, <3>1, <3>2, <3>3 DEF At
    <2>3. CASE apply_proxy_config(a)
      <3>1. /\ pc'[a] = "hosts" /\ pc'[Main] = pc[Main] /\ UNCHANGED <<got, rev>>
            /\ \A b \in Applier \ {a} : pc'[b] = pc[b]
        BY <2>3, BeginEffect DEF apply_proxy_config
      <3>2. \A b \in Applier : Late(b)' <=> Late(b)
        BY <2>3 DEF apply_proxy_config, Late
      <3>3. (Unspoilt' => Unspoilt) /\ rows'.hosts = rows.hosts
        BY <2>3 DEF apply_proxy_config, Unspoilt, Suffered
      <3> QED BY <1>1, <2>1, <3>1, <3>2, <3>3 DEF At
    <2>4. CASE Dropped(a)
      <3>1. /\ pc'[a] = "idle" /\ a # Main
            /\ \A b \in Applier \ {a} : /\ pc'[b] = pc[b] /\ got'[b] = got[b] /\ rev'[b] = rev[b]
                                        /\ Late(b)' <=> Late(b)
        BY <2>4, ReturnEffect DEF Dropped
      <3>2. Unspoilt' => Unspoilt
        BY <2>4, FaultSpoils DEF Dropped
      <3>3. rows'.hosts = rows.hosts /\ pc'[Main] = pc[Main]
        BY <2>4, <3>1, MainApplies DEF Dropped
      <3> QED BY <1>1, <2>1, <3>1, <3>2, <3>3 DEF At
    <2> QED BY <1>2, <2>2, <2>3, <2>4 DEF Handler
  <1>3. ASSUME NEW a \in Applier, Applies(a) PROVE RouteInv'
    BY <1>3, RouteApplies
  <1>4. ASSUME NEW a \in Applier, set_upstream_container(a) PROVE RouteInv'
    BY <1>4, RoutePoints
  <1>5. CASE put_parameter /\ UNCHANGED <<desired, active, deploying>>
    <2>1. /\ rows'.hosts = rows.hosts /\ UNCHANGED <<revisions, live, pc, got, rev, using>>
          /\ Fault("secret") /\ stale' = stale /\ Overtakes
      BY <1>5 DEF put_parameter, deploying, TypeOK, Config
    <2>2. Unspoilt' => Unspoilt
      BY <2>1, FaultSpoils
    <2>3. \A b \in Applier : Late(b)' <=> Late(b)
      BY <2>1, WriteEffect
    <2> QED BY <1>1, <2>1, <2>2, <2>3 DEF At
  <1>6. CASE CaddyRestarts
    BY <1>6, FaultSpoils DEF CaddyRestarts, RouteInv
  <1>7. CASE Crash
    <2>1. /\ \A a \in Applier : pc'[a] = IF a = Main THEN "ready" ELSE "idle"
          /\ UNCHANGED <<rows, revisions, live>> /\ Fault("crash") /\ stale' = stale
      BY <1>7 DEF Crash, Booting
    <2>2. Unspoilt' => Unspoilt
      BY <2>1, FaultSpoils
    <2>3. pc'[Main] = "ready" /\ \A b \in Applier : pc'[b] \in {"ready", "idle"}
      BY <2>1, MainApplies
    <2> QED BY <1>1, <2>1, <2>2, <2>3 DEF At
  <1>8. CASE \/ \E r \in Release : set_desired_release(r)
             \/ Healthy \/ fetch \/ set_active_release \/ clear_active \/ UNCHANGED cvars
    <2>1. UNCHANGED <<rows, revisions, live, pc, got, rev, behind, stale, faults>>
      BY <1>8 DEF set_desired_release, Healthy, fetch, set_active_release, clear_active, proxy, cvars, vars
    <2>2. UNCHANGED using
      BY <1>8 DEF set_desired_release, Healthy, fetch, set_active_release, clear_active, cvars,
                  deploying, Proceed, End, DeployTypeOK
    <2>3. (Unspoilt' => Unspoilt) /\ \A b \in Applier : Late(b)' <=> Late(b)
      BY <2>1 DEF Unspoilt, Suffered, Late
    <2> QED BY <1>1, <2>1, <2>2, <2>3 DEF At
  <1> QED BY <1>2, <1>3, <1>4, <1>5, <1>6, <1>7, <1>8 DEF CutoverNext, Deploy

\* From the time the upstream is written, or found written, until the release is
\* active, nothing else writes it.
LEMMA DeployNext ==
  ASSUME TypeOK, DeployTypeOK, DeployInv, [CutoverNext]_cvars
  PROVE  DeployInv'
  <1> USE DEF DeployInv
  <1>1. ASSUME NEW a \in Applier, Handler(a) PROVE DeployInv'
    <2>1. UNCHANGED deploying /\ rows'.hosts = rows.hosts
      BY <1>1 DEF Handler, apply_proxy_config, Dropped
    <2>2. pc'[Main] = pc[Main]
      <3>1. CASE save(a) \/ apply_proxy_config(a)
        BY <3>1, BeginEffect DEF save, apply_proxy_config
      <3>2. CASE Dropped(a)
        BY <3>2, MainApplies, ReturnEffect DEF Dropped
      <3> QED BY <1>1, <3>1, <3>2 DEF Handler
    <2> QED BY <2>1, <2>2 DEF deploying, At
  <1>2. ASSUME NEW a \in Applier, Applies(a) PROVE DeployInv'
    <2>1. rows' = rows /\ pc[a] # "idle" /\ \A b \in Applier \ {a} : pc'[b] = pc[b]
      BY <1>2, ApplyEffect DEF Applies
    <2>2. CASE using = a
      <3>1. step = "apply" /\ At(Main, "idle") /\ Follow(a)
        BY <1>2, <2>2, NoneIsNothing DEF DeployTypeOK, Applies
      <3>2. a # Main /\ pc'[Main] = "idle"
        BY <2>1, <3>1, MainApplies DEF At
      <3> QED BY <2>1, <3>1, <3>2 DEF Follow, deploying, At
    <2>3. CASE using # a
      <3>1. UNCHANGED deploying
        BY <1>2, <2>3 DEF Applies
      <3>2. At(Main, "idle") => At(Main, "idle")'
        BY <2>1, MainApplies DEF At
      <3> QED BY <2>1, <3>1, <3>2 DEF deploying, At
    <2> QED BY <2>2, <2>3
  <1>3. ASSUME NEW a \in Applier, set_upstream_container(a) PROVE DeployInv'
    <2>1. rows'.hosts = target /\ target' = target /\ step' = "apply"
      BY <1>3 DEF set_upstream_container, TypeOK, Config
    <2>2. At(Main, "idle")'
      BY <1>3, BeginEffect DEF set_upstream_container, At
    <2> QED BY <2>1, <2>2
  <1>4. CASE put_parameter /\ UNCHANGED <<desired, active, deploying>>
    BY <1>4 DEF put_parameter, deploying, TypeOK, Config, At
  <1>5. CASE CaddyRestarts /\ UNCHANGED <<desired, active, deploying>>
    BY <1>5 DEF CaddyRestarts, deploying, At
  <1>6. CASE Crash /\ End
    BY <1>6 DEF End
  <1>7. CASE Healthy \/ set_active_release
    BY <1>7 DEF Healthy, set_active_release, End, vars, At
  <1>8. CASE fetch
    BY <1>8 DEF fetch, Proceed, PointsAt, vars, At
  <1>9. CASE (\E r \in Release : set_desired_release(r)) \/ clear_active \/ UNCHANGED cvars
    BY <1>9 DEF set_desired_release, clear_active, proxy, cvars, vars, deploying, At
  <1> QED BY <1>1, <1>2, <1>3, <1>4, <1>5, <1>6, <1>7, <1>8, <1>9 DEF CutoverNext, Deploy

CutoverInv == TypeOK /\ DeployTypeOK /\ ProxyInv /\ Lateness /\ RouteInv /\ DeployInv

LEMMA CutoverInductive == CutoverSpec => []CutoverInv
  <1>1. CutoverInit => CutoverInv
    BY CutoverTypeInit, ProxyInit, RouteInit DEF CutoverInv, CutoverInit
  <1>2. CutoverInv /\ [CutoverNext]_cvars => CutoverInv'
    BY ProxyPartTypes, DeployPartTypes, ProxyInvNext, LatenessNext, RouteNext, DeployNext DEF CutoverInv
  <1> QED BY <1>1, <1>2, PTL DEF CutoverSpec

\* A deploy that comes to make its release the active one has its container where
\* Caddy routes to, however many handlers apply meanwhile: as long as no load was
\* refused or lost, Caddy was not restarted, and no handler has loaded the upstream
\* it read before a deploy wrote another.
THEOREM ActivatesRouted == CutoverSpec => []ActivatedIsRouted
  <1>1. CutoverInv => ActivatedIsRouted
    <2> SUFFICES ASSUME CutoverInv, step = "activate", Unspoilt
                 PROVE  live # None /\ live.hosts = target
      BY DEF ActivatedIsRouted, Unspoilt
    <2>1. using = None /\ rows.hosts = target /\ At(Main, "idle")
      BY DEF CutoverInv, DeployTypeOK, DeployInv
    <2> QED BY <2>1 DEF CutoverInv, RouteInv, UpToDate, Settled, Routed
  <1> QED BY <1>1, CutoverInductive, PTL

\* What the newest revision says of Caddy is so with deploys under way too, which
\* write the upstream and apply it next to the handlers.
THEOREM CutoverNewestIsLive == CutoverSpec => []NewestAppliedIsLive
  <1>1. CutoverInv => NewestAppliedIsLive
    BY DEF CutoverInv, ProxyInv
  <1> QED BY <1>1, CutoverInductive, PTL
=============================================================================
