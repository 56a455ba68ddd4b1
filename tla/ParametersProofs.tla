-------------------------- MODULE ParametersProofs --------------------------
(***************************************************************************)
(* Theorems about Parameters, for every value of its constants: its types, *)
(* that what is stored can be read, and that the store implements the      *)
(* register, by the refinement mapping of Parameters (Promised).           *)
(* What carries them is ParametersInv: a sealed value is bound to the key  *)
(* and the version of its own row, and what a writer has read is either    *)
(* still so, or gone by by as many versions as have been stored, or its    *)
(* key was deleted.                                                        *)
(***************************************************************************)
EXTENDS Parameters, TLAPS

-----------------------------------------------------------------------------
(* Types                                                                   *)

\* The row an upsert stores.
Stored(w) ==
    IF write[w].type = "string"
    THEN put_string(write[w].key, write[w].version, write[w].value)
    ELSE put_secure(write[w].key, write[w].version,
                    encrypt(write[w].key, write[w].version, write[w].value))

\* It has the columns of its type, the version that was read, and opens.
LEMMA StoredRow ==
    ASSUME TypeOK, NEW w \in Writer, Putting(w)
    PROVE  LET p == write[w]
           IN  /\ p \in Put /\ p.key \in Key /\ p.version \in Version /\ p.value \in Value
               /\ p.type \in ParameterType /\ p.step = "put"
               /\ Stored(w) \in Parameter /\ Stored(w) # None
               /\ Stored(w).version = p.version /\ Stored(w).type = p.type
               /\ p.type = "string" => Stored(w).value = p.value
               /\ p.type = "secure_string" => /\ Stored(w).sealed.aad = aad(p.key, p.version)
                                              /\ Stored(w).sealed.plain = p.value
<1> DEFINE p == write[w]
<1>1. p \in Put /\ p.step = "put"
  BY DEF TypeOK, Putting
<1>2. p.key \in Key /\ p.version \in Version /\ p.value \in Value /\ p.type \in ParameterType
  BY <1>1 DEF Put
<1>3. CASE p.type = "string"
  <2>1. Stored(w) = [type |-> "string", version |-> p.version, value |-> p.value, sealed |-> None]
    BY <1>3 DEF Stored, put_string
  <2>2. Stored(w) \in Parameter
    BY <1>2, <2>1 DEF Parameter
  <2> QED BY <1>1, <1>2, <1>3, <2>1, <2>2, RowsAreNotNone
<1>4. CASE p.type = "secure_string"
  <2> DEFINE e == encrypt(p.key, p.version, p.value)
  <2>1. e \in Encrypted /\ e.aad = aad(p.key, p.version) /\ e.plain = p.value
    BY <1>2 DEF encrypt, aad, Encrypted, TypeOK
  <2>2. Stored(w) = [type |-> "secure_string", version |-> p.version, value |-> None,
                     sealed |-> e]
    BY <1>4 DEF Stored, put_secure
  <2> HIDE DEF e
  <2>3. Stored(w) \in Parameter
    BY <1>2, <2>1, <2>2 DEF Parameter
  <2> QED BY <1>1, <1>2, <1>4, <2>1, <2>2, <2>3, RowsAreNotNone
<1> QED BY <1>2, <1>3, <1>4 DEF ParameterType

\* What an upsert does to the table and to its writer, in both its outcomes.
LEMMA UpsertCases ==
    ASSUME TypeOK, NEW w \in Writer, Upsert(w)
    PROVE  LET k == write[w].key
           IN  /\ UNCHANGED <<master, edits, faults>>
               /\ \/ /\ Upserts(k, write[w].version)
                     /\ row' = [row EXCEPT ![k] = Stored(w)]
                     /\ Overtaken(w, k)
                     /\ write' = [write EXCEPT ![w] = [@ EXCEPT !.step = "stored"]]
                  \/ /\ ~Upserts(k, write[w].version)
                     /\ UNCHANGED <<row, since>>
                     /\ write' = [write EXCEPT ![w] = [@ EXCEPT !.step = "conflict"]]
BY DEF Upsert, Stored

LEMMA NextVersion ==
    ASSUME TypeOK, NEW k \in Key
    PROVE  /\ next_version(k) \in Version
           /\ row[k] # None => row[k] \in Parameter /\ row[k].version \in Version
BY DEF TypeOK, Parameter, next_version, Version

LEMMA CountersType ==
    ASSUME TypeOK, NEW kind
    PROVE  /\ Edit => edits' \in 0 .. MaxEdits
           /\ Fault(kind) => faults' \in 0 .. MaxFaults
BY Bounds DEF TypeOK, Edit, Fault

LEMMA TypeInit == Init => TypeOK
BY Bounds DEF Init, TypeOK

LEMMA TypeNext == TypeOK /\ [Next]_vars => TypeOK'
<1> SUFFICES ASSUME TypeOK, [Next]_vars PROVE TypeOK'
  OBVIOUS
<1>1. ASSUME NEW w \in Writer, NEW k \in Key, NEW t \in ParameterType, NEW v \in Value,
             put_parameter(w, k, t, v)
      PROVE  TypeOK'
  <2>1. [step |-> "put", key |-> k, type |-> t, value |-> v, version |-> next_version(k)] \in Put
    BY NextVersion DEF Put
  <2>2. write' \in [Writer -> Put \union {None}]
    BY <1>1, <2>1 DEF put_parameter, TypeOK
  <2>3. since' \in [Writer -> {"same", "written", "deleted"}]
    BY <1>1 DEF put_parameter, TypeOK
  <2> QED BY <1>1, <2>2, <2>3, CountersType DEF put_parameter, TypeOK
<1>2. ASSUME NEW w \in Writer, Upsert(w) PROVE TypeOK'
  <2>1. Putting(w)
    BY <1>2 DEF Upsert
  <2>2. row' \in [Key -> Parameter \union {None}]
    BY <1>2, <2>1, UpsertCases, StoredRow DEF TypeOK
  <2>3. \A s \in {"stored", "conflict"} : [write[w] EXCEPT !.step = s] \in Put
    BY <2>1, StoredRow DEF Put
  <2>4. write' \in [Writer -> Put \union {None}]
    BY <1>2, <2>3, UpsertCases DEF TypeOK
  <2>5. since' \in [Writer -> {"same", "written", "deleted"}]
    BY <1>2, UpsertCases DEF Overtaken, TypeOK
  <2> QED BY <1>2, <2>2, <2>4, <2>5, UpsertCases DEF TypeOK
<1>3. ASSUME NEW w \in Writer, Abandoned(w) PROVE TypeOK'
  <2>1. Putting(w)
    BY <1>3 DEF Abandoned
  <2>2. [write[w] EXCEPT !.step = "error"] \in Put
    BY <2>1, StoredRow DEF Put
  <2>3. write' \in [Writer -> Put \union {None}]
    BY <1>3, <2>2 DEF Abandoned, TypeOK
  <2>4. faults' \in 0 .. MaxFaults
    BY <1>3, CountersType DEF Abandoned
  <2> QED BY <1>3, <2>3, <2>4 DEF Abandoned, TypeOK
<1>4. ASSUME NEW k \in Key, delete_parameter(k) PROVE TypeOK'
  <2>1. row' \in [Key -> Parameter \union {None}]
    BY <1>4 DEF delete_parameter, TypeOK
  <2>2. since' \in [Writer -> {"same", "written", "deleted"}]
    BY <1>4 DEF delete_parameter, Forgotten, TypeOK
  <2> QED BY <1>4, <2>1, <2>2, CountersType DEF delete_parameter, TypeOK
<1>5. CASE Restart
  BY <1>5, CountersType DEF Restart, TypeOK
<1>6. CASE UNCHANGED vars
  BY <1>6 DEF vars, TypeOK
<1> QED BY <1>1, <1>2, <1>3, <1>4, <1>5, <1>6 DEF Next

\* The rows, the writers' locals and their history keep their types.
THEOREM ParametersTypeCorrect == Spec => []TypeOK
BY TypeInit, TypeNext, PTL DEF Spec

-----------------------------------------------------------------------------
(* The inductive invariant                                                 *)

\* A sealed value is bound to its row's key and version.
Bound(k) ==
    row[k] # None /\ row[k].type = "secure_string"
    => row[k].sealed.aad = aad(k, row[k].version)

\* What a writer has read of its key, after what has become of it.
Looked(w) ==
    Putting(w) =>
        LET k == write[w].key
        IN  /\ since[w] = "same" => write[w].version = next_version(k)
            /\ since[w] = "written" => row[k] # None /\ row[k].version >= write[w].version

ParametersInv == (\A k \in Key : Bound(k)) /\ (\A w \in Writer : Looked(w))

LEMMA InvInit == Init => ParametersInv
BY DEF Init, ParametersInv, Bound, Looked, Putting

LEMMA InvNext == TypeOK /\ TypeOK' /\ ParametersInv /\ [Next]_vars => ParametersInv'
<1> SUFFICES ASSUME TypeOK, TypeOK', ParametersInv, [Next]_vars PROVE ParametersInv'
  OBVIOUS
<1>1. ASSUME NEW w \in Writer, NEW k \in Key, NEW t \in ParameterType, NEW v \in Value,
             put_parameter(w, k, t, v)
      PROVE  ParametersInv'
  <2>1. UNCHANGED row
    BY <1>1 DEF put_parameter
  <2>2. \A j \in Key : Bound(j)'
    BY <2>1 DEF ParametersInv, Bound
  <2>3. ASSUME NEW u \in Writer PROVE Looked(u)'
    <3>1. CASE u = w
      <4>1. /\ since'[u] = "same"
            /\ write'[u].key = k /\ write'[u].version = next_version(k)
        BY <1>1, <3>1 DEF put_parameter, TypeOK
      <4>2. next_version(k)' = next_version(k)
        BY <2>1 DEF next_version
      <4> QED BY <4>1, <4>2 DEF Looked
    <3>2. CASE u # w
      <4>1. write'[u] = write[u] /\ since'[u] = since[u]
        BY <1>1, <3>2 DEF put_parameter, TypeOK
      <4> QED BY <2>1, <4>1 DEF ParametersInv, Looked, Putting, next_version
    <3> QED BY <3>1, <3>2
  <2> QED BY <2>2, <2>3 DEF ParametersInv
<1>2. ASSUME NEW w \in Writer, Upsert(w) PROVE ParametersInv'
  <2> DEFINE p == write[w]
  <2>1. Putting(w)
    BY <1>2 DEF Upsert
  <2>2. /\ p.key \in Key /\ p.version \in Version
        /\ Stored(w) # None /\ Stored(w).version = p.version
        /\ Stored(w).type = "secure_string" => Stored(w).sealed.aad = aad(p.key, p.version)
    BY <2>1, StoredRow
  <2>3. ~Putting(w)'
    <3>1. \A s \in {"stored", "conflict"} : [p EXCEPT !.step = s].step = s
      BY <2>1, StoredRow DEF Put
    <3>2. write'[w].step \in {"stored", "conflict"}
      BY <1>2, <3>1, UpsertCases DEF TypeOK
    <3> QED BY <3>2 DEF Putting
  <2>4. CASE UNCHANGED <<row, since>>
    <3>1. \A k \in Key : Bound(k)'
      BY <2>4 DEF ParametersInv, Bound
    <3>2. ASSUME NEW u \in Writer PROVE Looked(u)'
      <4>1. CASE u # w
        <5>1. write'[u] = write[u]
          BY <1>2, <4>1, UpsertCases DEF TypeOK
        <5> QED BY <2>4, <5>1 DEF ParametersInv, Looked, Putting, next_version
      <4> QED BY <2>3, <4>1 DEF Looked
    <3> QED BY <3>1, <3>2 DEF ParametersInv
  <2>5. CASE /\ Upserts(p.key, p.version)
             /\ row' = [row EXCEPT ![p.key] = Stored(w)]
             /\ Overtaken(w, p.key)
    <3>1. row'[p.key] = Stored(w) /\ \A k \in Key \ {p.key} : row'[k] = row[k]
      BY <2>2, <2>5 DEF TypeOK
    <3>2. \A k \in Key : Bound(k)'
      BY <2>2, <3>1 DEF ParametersInv, Bound
    <3>3. ASSUME NEW u \in Writer PROVE Looked(u)'
      <4> SUFFICES ASSUME u # w, Putting(u)' PROVE Looked(u)'
        BY <2>3 DEF Looked
      <4>1. write'[u] = write[u] /\ Putting(u)
        BY <1>2, UpsertCases DEF TypeOK, Putting
      <4>2. write[u].key \in Key /\ write[u].version \in Version
        BY <4>1, StoredRow
      <4>3. CASE write[u].key = p.key
        <5>1. since'[u] # "same"
          BY <2>5, <4>1, <4>3 DEF Overtaken
        <5>2. ASSUME since'[u] = "written" PROVE p.version >= write[u].version
          <6>1. since[u] = "same" \/ since[u] = "written"
            BY <2>5, <4>1, <4>3, <5>2 DEF Overtaken
          <6>2. row[p.key] = None \/ row[p.key].version + 1 = p.version
            BY <2>5 DEF Upserts
          <6>3. row[p.key] # None => row[p.key].version \in Version
            BY <2>2, NextVersion
          <6>4. since[u] = "same" => write[u].version = next_version(p.key)
            BY <4>1, <4>3 DEF ParametersInv, Looked
          <6>5. since[u] = "written" => row[p.key] # None /\ row[p.key].version >= write[u].version
            BY <4>1, <4>3 DEF ParametersInv, Looked
          <6> QED BY <2>2, <4>2, <6>1, <6>2, <6>3, <6>4, <6>5 DEF next_version, Version
        <5> QED BY <2>2, <3>1, <4>1, <4>3, <5>1, <5>2 DEF Looked
      <4>4. CASE write[u].key # p.key
        <5>1. since'[u] = since[u]
          BY <2>5, <4>1, <4>4 DEF Overtaken, TypeOK
        <5>2. row'[write[u].key] = row[write[u].key]
          BY <3>1, <4>2, <4>4
        <5> QED BY <4>1, <4>2, <5>1, <5>2 DEF ParametersInv, Looked, next_version
      <4> QED BY <4>3, <4>4
    <3> QED BY <3>2, <3>3 DEF ParametersInv
  <2> QED BY <1>2, <2>4, <2>5, UpsertCases
<1>3. ASSUME NEW w \in Writer, Abandoned(w) PROVE ParametersInv'
  <2>1. UNCHANGED <<row, since>> /\ ~Putting(w)'
    <3>1. write[w] \in Put
      BY <1>3, StoredRow DEF Abandoned
    <3>2. [write[w] EXCEPT !.step = "error"].step = "error"
      BY <3>1 DEF Put
    <3>3. write'[w] = None \/ write'[w].step = "error"
      BY <1>3, <3>2 DEF Abandoned, TypeOK
    <3> QED BY <1>3, <3>3 DEF Abandoned, Putting
  <2>2. \A u \in Writer \ {w} : write'[u] = write[u]
    BY <1>3 DEF Abandoned, TypeOK
  <2> QED BY <2>1, <2>2 DEF ParametersInv, Bound, Looked, Putting, next_version
<1>4. ASSUME NEW k \in Key, delete_parameter(k) PROVE ParametersInv'
  <2>1. row'[k] = None /\ (\A j \in Key \ {k} : row'[j] = row[j]) /\ UNCHANGED write
    BY <1>4 DEF delete_parameter, TypeOK
  <2>2. \A j \in Key : Bound(j)'
    BY <2>1 DEF ParametersInv, Bound
  <2>3. ASSUME NEW u \in Writer, Putting(u) PROVE Looked(u)'
    <3>1. write[u].key \in Key
      BY <2>3, StoredRow
    <3>2. CASE write[u].key = k /\ row[k] # None
      <4>1. since'[u] = "deleted"
        BY <1>4, <2>3, <3>2 DEF delete_parameter, Forgotten
      <4> QED BY <4>1 DEF Looked
    <3>3. CASE ~(write[u].key = k /\ row[k] # None)
      <4>1. since'[u] = since[u]
        BY <1>4, <2>3, <3>3 DEF delete_parameter, Forgotten, TypeOK
      <4>2. row'[write[u].key] = row[write[u].key]
        BY <2>1, <3>1, <3>3
      <4> QED BY <2>1, <2>3, <4>1, <4>2 DEF ParametersInv, Looked, next_version
    <3> QED BY <3>2, <3>3
  <2> QED BY <2>1, <2>2, <2>3 DEF ParametersInv, Looked, Putting
<1>5. CASE Restart
  BY <1>5 DEF Restart, ParametersInv, Bound, Looked, Putting
<1>6. CASE UNCHANGED vars
  BY <1>6 DEF vars, ParametersInv, Bound, Looked, Putting, next_version
<1> QED BY <1>1, <1>2, <1>3, <1>4, <1>5, <1>6 DEF Next

LEMMA Invariant == Spec => [](TypeOK /\ ParametersInv)
BY TypeInit, TypeNext, InvInit, InvNext, PTL DEF Spec

\* A stored secret can be read under the master key it was wrapped with (fetch),
\* whatever overlapped, was deleted in between or was left over by a crash.
THEOREM StoredIsReadable == Spec => []Readable
<1>1. TypeOK /\ ParametersInv => Readable
  <2> SUFFICES ASSUME TypeOK, ParametersInv, NEW k \in Key, row[k] # None,
                      row[k].type = "secure_string" => row[k].sealed.key_id = master
               PROVE  fetch(k) \in Value
    BY DEF Readable
  <2>1. row[k] \in Parameter
    BY NextVersion
  <2>2. CASE row[k].type = "string"
    BY <2>1, <2>2 DEF fetch, Parameter
  <2>3. CASE row[k].type = "secure_string"
    <3>1. row[k].sealed \in Encrypted
      BY <2>1, <2>3 DEF Parameter
    <3>2. row[k].sealed.aad = aad(k, row[k].version) /\ row[k].sealed.key_id = master
      BY <2>3 DEF ParametersInv, Bound
    <3> QED BY <2>3, <3>1, <3>2 DEF fetch, decrypt, Opened, Encrypted
  <2> QED BY <2>1, <2>2, <2>3 DEF Parameter
<1> QED BY <1>1, Invariant, PTL

-----------------------------------------------------------------------------
(* The refinement: what the abstract register sees of a step               *)

Cells == [k \in Key |-> CellOf(k)]
Ops == [w \in Writer |-> OpOf(w)]

\* A put that waits for its upsert is a pending write.
LEMMA PendingOps ==
    ASSUME TypeOK, NEW w \in Writer
    PROVE  /\ Promised!Pending(w) <=> Putting(w)
           /\ Putting(w) => OpOf(w) = [state |-> "pending", key |-> write[w].key,
                                      value |-> write[w].value]
<1>1. CASE Putting(w)
  <2>1. OpOf(w) = [state |-> "pending", key |-> write[w].key, value |-> write[w].value]
    BY <1>1 DEF OpOf, Outcome, Putting
  <2>2. write[w].key \in Key /\ write[w].value \in Value
    BY <1>1, StoredRow
  <2>3. OpOf(w) # None /\ OpOf(w).state = "pending"
    BY <2>1, <2>2, OpsAreNotNone DEF Promised!Op
  <2> QED BY <1>1, <2>1, <2>3 DEF Promised!Pending
<1>2. CASE ~Putting(w)
  <2>1. OpOf(w) # None => OpOf(w).state # "pending"
    BY <1>2 DEF OpOf, Outcome, Putting
  <2> QED BY <1>2, <2>1 DEF Promised!Pending
<1> QED BY <1>1, <1>2

\* A row with its own version and value is a cell.
LEMMA CellTypes ==
    ASSUME TypeOK, ParametersInv, NEW k \in Key
    PROVE  IF row[k] = None THEN CellOf(k) = None
           ELSE CellOf(k) \in Promised!Cell /\ CellOf(k) # None /\ CellOf(k).version = row[k].version
<1> SUFFICES ASSUME row[k] # None
             PROVE  CellOf(k) \in Promised!Cell /\ CellOf(k).version = row[k].version
  BY CellsAreNotNone DEF CellOf
<1>1. row[k] \in Parameter /\ row[k].version \in Version
  BY NextVersion
<1>2. Plain(k) \in Value
  <2>1. CASE row[k].type = "string"
    BY <1>1, <2>1 DEF Plain, Parameter
  <2>2. CASE row[k].type = "secure_string"
    <3>1. row[k].sealed \in Encrypted
      BY <1>1, <2>2 DEF Parameter
    <3> QED BY <2>2, <3>1 DEF Plain, Opened, Encrypted, ParametersInv, Bound
  <2> QED BY <1>1, <2>1, <2>2 DEF Parameter
<1> QED BY <1>1, <1>2 DEF CellOf, Promised!Cell, Version

\* What a step leaves alone looks the same to the register.
LEMMA SameCells == ASSUME UNCHANGED row PROVE UNCHANGED Cells
BY DEF Cells, CellOf, Plain
LEMMA SameOps == ASSUME UNCHANGED write PROVE UNCHANGED Ops
BY DEF Ops, OpOf
LEMMA OtherCells ==
    ASSUME NEW k \in Key, \A j \in Key \ {k} : row'[j] = row[j]
    PROVE  Cells' = [Cells EXCEPT ![k] = CellOf(k)']
BY DEF Cells, CellOf, Plain
LEMMA OtherOps ==
    ASSUME NEW w \in Writer, \A u \in Writer \ {w} : write'[u] = write[u]
    PROVE  Ops' = [Ops EXCEPT ![w] = OpOf(w)']
BY DEF Ops, OpOf

-----------------------------------------------------------------------------
(* The simulation, an action of the store at a time                        *)

LEMMA RegisterInit == Init => Promised!Init
BY DEF Init, Promised!Init, CellOf, OpOf

LEMMA AskStep ==
    ASSUME TypeOK, NEW w \in Writer, NEW k \in Key, NEW t \in ParameterType, NEW v \in Value,
           put_parameter(w, k, t, v)
    PROVE  Promised!Ask(w, k, v)
<1>1. ~Promised!Pending(w)
  BY PendingOps DEF put_parameter
<1>2. \A u \in Writer \ {w} : write'[u] = write[u]
  BY DEF put_parameter, TypeOK
<1>3. write'[w] = [step |-> "put", key |-> k, type |-> t, value |-> v, version |-> next_version(k)]
  BY DEF put_parameter, TypeOK
<1>4. write'[w] \in Put
  BY <1>3, NextVersion DEF Put
<1>5. OpOf(w)' = [state |-> "pending", key |-> k, value |-> v]
  BY <1>3, <1>4, PutsAreNotNone DEF OpOf, Outcome
<1>6. Ops' = [Ops EXCEPT ![w] = [state |-> "pending", key |-> k, value |-> v]]
  BY <1>2, <1>5, OtherOps
<1>7. UNCHANGED Cells /\ since' = [since EXCEPT ![w] = "same"]
  BY SameCells DEF put_parameter
<1> QED BY <1>1, <1>6, <1>7 DEF Promised!Ask, Cells, Ops

\* Both outcomes of an upsert: stored is a store, and a conflict is a refusal
\* of a write whose key is no longer as it was when it looked.
LEMMA UpsertStep ==
    ASSUME TypeOK, TypeOK', ParametersInv, ParametersInv', NEW w \in Writer, Upsert(w)
    PROVE  Promised!Store(w) \/ Promised!Refuse(w)
\* p and k are what they are before the step, in primed formulas too.
<1> SUFFICES ASSUME NEW p, p = write[w], NEW k, k = p.key
             PROVE  Promised!Store(w) \/ Promised!Refuse(w)
  OBVIOUS
<1>1. Putting(w) /\ Promised!Pending(w)
  BY PendingOps DEF Upsert
<1>2. p \in Put /\ k \in Key /\ p.version \in Version /\ p.value \in Value
  BY <1>1, StoredRow
<1>3. Ops[w] = [state |-> "pending", key |-> k, value |-> p.value]
  BY <1>1, PendingOps DEF Ops
<1>4. \A u \in Writer \ {w} : write'[u] = write[u]
  BY UpsertCases DEF TypeOK
<1>5. \A s \in {"stored", "conflict"} :
          LET q == [p EXCEPT !.step = s]
          IN  q \in Put /\ q # None /\ q.step = s /\ q.key = k /\ q.value = p.value
  BY <1>2, PutsAreNotNone DEF Put
<1>6. CASE /\ Upserts(k, p.version)
           /\ row' = [row EXCEPT ![k] = Stored(w)]
           /\ Overtaken(w, k)
           /\ write' = [write EXCEPT ![w] = [@ EXCEPT !.step = "stored"]]
  <2>1. since[w] # "written"
    BY <1>1, <1>2, <1>6, NextVersion DEF Upserts, ParametersInv, Looked, Version
  <2>2. OpOf(w)' = [state |-> "stored", key |-> k, value |-> p.value]
    BY <1>5, <1>6 DEF OpOf, Outcome, TypeOK
  <2>3. Ops' = [Ops EXCEPT ![w] = [@ EXCEPT !.state = "stored"]]
    BY <1>3, <1>4, <2>2, OtherOps
  <2>4. row'[k] = Stored(w) /\ \A j \in Key \ {k} : row'[j] = row[j]
    BY <1>2, <1>6 DEF TypeOK
  <2>5. CellOf(k)' = [version |-> p.version, value |-> p.value]
    <3>1. /\ Stored(w) # None /\ Stored(w).version = p.version /\ Stored(w).type = p.type
          /\ p.type = "string" => Stored(w).value = p.value
          /\ p.type = "secure_string" => /\ Stored(w).sealed.aad = aad(k, p.version)
                                         /\ Stored(w).sealed.plain = p.value
          /\ p.type \in ParameterType
      BY <1>1, StoredRow
    <3>2. Plain(k)' = p.value
      BY <2>4, <3>1 DEF Plain, Opened, ParameterType
    <3> QED BY <2>4, <3>1, <3>2 DEF CellOf
  <2>6. Cells' = [Cells EXCEPT ![k] = [version |-> p.version, value |-> p.value]]
    BY <1>2, <2>4, <2>5, OtherCells
  <2>7. Cells'[k] = [version |-> p.version, value |-> p.value] /\ Cells[k] = CellOf(k)
    BY <1>2, <2>5 DEF Cells
  <2>8. Cells'[k] \in Promised!Cell /\ Cells'[k].value = Ops[w].value
    BY <1>2, <1>3, <2>7 DEF Promised!Cell, Version
  <2>9. Cells[k] # None => Cells'[k].version = Cells[k].version + 1
    BY <1>2, <1>6, <2>7, CellTypes DEF Upserts
  <2>10. Cells[k] = None /\ since[w] = "same" => Cells'[k].version = 1
    <3>1. Cells[k] = None => row[k] = None
      BY <1>2, <2>7, CellTypes
    <3>2. since[w] = "same" => p.version = next_version(k)
      BY <1>1 DEF ParametersInv, Looked
    <3> QED BY <2>7, <3>1, <3>2 DEF next_version
  <2>11. since' = [u \in Writer |->
                     IF u # w /\ Promised!Pending(u) /\ Ops[u].key = k /\ since[u] = "same"
                     THEN "written" ELSE since[u]]
    <3>1. \A u \in Writer : Promised!Pending(u) => Ops[u].key = write[u].key
      BY PendingOps DEF Ops
    <3> QED BY <1>6, <3>1, PendingOps DEF Overtaken
  <2>12. Ops[w].key = k
    BY <1>3
  <2> QED BY <1>1, <2>1, <2>3, <2>6, <2>7, <2>8, <2>9, <2>10, <2>11, <2>12
          DEF Promised!Store, Cells, Ops
<1>7. CASE /\ ~Upserts(k, p.version)
           /\ UNCHANGED <<row, since>>
           /\ write' = [write EXCEPT ![w] = [@ EXCEPT !.step = "conflict"]]
  <2>1. since[w] # "same"
    BY <1>1, <1>2, <1>7 DEF Upserts, ParametersInv, Looked, next_version
  <2>2. OpOf(w)' = [state |-> "refused", key |-> k, value |-> p.value]
    BY <1>5, <1>7 DEF OpOf, Outcome, TypeOK
  <2>3. Ops' = [Ops EXCEPT ![w] = [@ EXCEPT !.state = "refused"]]
    BY <1>3, <1>4, <2>2, OtherOps
  <2>4. UNCHANGED Cells
    BY <1>7, SameCells
  <2> QED BY <1>1, <1>7, <2>1, <2>3, <2>4 DEF Promised!Refuse, Cells, Ops
<1> QED BY <1>6, <1>7, UpsertCases

\* A deletion, of a key that has a row or of one that has none.
LEMMA DeleteStep ==
    ASSUME TypeOK, NEW k \in Key, delete_parameter(k)
    PROVE  Promised!Delete(k) \/ UNCHANGED Promised!vars
<1>1. UNCHANGED Ops
  BY SameOps DEF delete_parameter
<1>2. row'[k] = None /\ \A j \in Key \ {k} : row'[j] = row[j]
  BY DEF delete_parameter, TypeOK
<1>3. Cells' = [Cells EXCEPT ![k] = None]
  BY <1>2, OtherCells DEF CellOf
<1>4. CASE row[k] # None
  <2>1. \A u \in Writer : Promised!Pending(u) => Ops[u].key = write[u].key
    BY PendingOps DEF Ops
  <2>2. since' = [u \in Writer |->
                    IF Promised!Pending(u) /\ Ops[u].key = k THEN "deleted" ELSE since[u]]
    BY <1>4, <2>1, PendingOps DEF delete_parameter, Forgotten
  <2> QED BY <1>1, <1>3, <2>2 DEF Promised!Delete, Cells, Ops
<1>5. CASE row[k] = None
  <2>1. Cells[k] = None
    BY <1>5 DEF Cells, CellOf
  <2>2. UNCHANGED Cells
    BY <1>3, <2>1 DEF Cells
  <2> QED BY <1>1, <1>5, <2>2 DEF delete_parameter, Promised!vars, Cells, Ops
<1> QED BY <1>4, <1>5

LEMMA GiveUpStep ==
    ASSUME TypeOK, Restart \/ \E w \in Writer : Abandoned(w)
    PROVE  \E W \in SUBSET Writer : Promised!GiveUp(W)
<1>1. ASSUME NEW w \in Writer, Abandoned(w) PROVE Promised!GiveUp({w})
  <2>1. UNCHANGED Cells /\ UNCHANGED since
    BY <1>1, SameCells DEF Abandoned
  <2>2. write[w] \in Put
    BY <1>1, StoredRow DEF Abandoned
  <2>3. [write[w] EXCEPT !.step = "error"].step = "error"
    BY <2>2 DEF Put
  <2>4. OpOf(w)' = None
    BY <1>1, <2>3 DEF Abandoned, OpOf, TypeOK
  <2>5. Ops' = [Ops EXCEPT ![w] = None]
    <3>1. \A u \in Writer \ {w} : write'[u] = write[u]
      BY <1>1 DEF Abandoned, TypeOK
    <3> QED BY <2>4, <3>1, OtherOps
  <2>6. Ops' = [u \in Writer |-> IF u \in {w} THEN None ELSE Ops[u]]
    BY <2>5 DEF Ops
  <2> QED BY <2>1, <2>6 DEF Promised!GiveUp, Cells, Ops
<1>2. CASE Restart
  <2>1. UNCHANGED Cells /\ UNCHANGED since
    BY <1>2, SameCells DEF Restart
  <2>2. Ops' = [u \in Writer |-> None]
    BY <1>2 DEF Restart, Ops, OpOf
  <2>3. Ops' = [u \in Writer |-> IF u \in Writer THEN None ELSE Ops[u]]
    BY <2>2
  <2>4. Promised!GiveUp(Writer)
    BY <2>1, <2>3 DEF Promised!GiveUp, Cells, Ops
  <2> QED BY <2>4
<1> QED BY <1>1, <1>2

LEMMA RegisterNext ==
    ASSUME TypeOK, TypeOK', ParametersInv, ParametersInv', [Next]_vars
    PROVE  [Promised!Next]_(Promised!vars)
<1>1. ASSUME NEW w \in Writer, NEW k \in Key, NEW t \in ParameterType, NEW v \in Value,
             put_parameter(w, k, t, v)
      PROVE  Promised!Next
  BY <1>1, AskStep DEF Promised!Next
<1>2. ASSUME NEW w \in Writer, Upsert(w) PROVE Promised!Next
  BY <1>2, UpsertStep DEF Promised!Next
<1>3. ASSUME NEW k \in Key, delete_parameter(k) PROVE [Promised!Next]_(Promised!vars)
  BY <1>3, DeleteStep DEF Promised!Next
<1>4. ASSUME Restart \/ \E w \in Writer : Abandoned(w) PROVE Promised!Next
  BY <1>4, GiveUpStep DEF Promised!Next
<1>5. CASE UNCHANGED vars
  <2>1. UNCHANGED Cells /\ UNCHANGED Ops /\ UNCHANGED since
    BY <1>5, SameCells, SameOps DEF vars
  <2> QED BY <2>1 DEF Promised!vars, Cells, Ops
<1> QED BY <1>1, <1>2, <1>3, <1>4, <1>5 DEF Next

\* The parameter store implements the versioned register, however its requests
\* overlap, fail or are dropped and whatever key the agent comes back with.
THEOREM StoreIsARegister == Spec => ImplementsRegister
<1> QED BY RegisterInit, RegisterNext, Invariant, PTL DEF ImplementsRegister, Promised!Spec, Spec

=============================================================================
