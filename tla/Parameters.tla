----------------------------- MODULE Parameters -----------------------------
(***************************************************************************)
(* The parameter store: put_parameter reads the next version, binds it     *)
(* with the key into the encrypted value and stores both in an upsert that *)
(* checks the version again, with other requests between the two awaits.   *)
(* Encryption is symbolic: what was sealed under a name and a version      *)
(* opens under these and the same master key only.  The agent may come     *)
(* back with another master key.  Versions start at one and are bounded by *)
(* the number of requests, far below 2^63.                                 *)
(***************************************************************************)
EXTENDS Naturals

CONSTANTS
    Key,        \* parameters' keys, normalized
    Value,
    Writer,     \* requests that may overlap
    MasterKey,  \* the master keys the agent may be started with
    None,
    Faults,     \* the kinds of fault that may happen
    MaxEdits,   \* bound: API calls
    MaxFaults   \* bound: faults

ASSUME NoneIsFresh == None \notin Value
ASSUME FaultsKnown == Faults \subseteq {"write", "drop", "crash"}
ASSUME Bounds == MaxEdits \in Nat /\ MaxFaults \in Nat

VARIABLES
    row,        \* the table parameters
    write,      \* per writer: its put_parameter
    since,      \* history, per writer: what became of its key since next_version
    master,     \* the master key that is loaded
    edits,
    faults

vars == <<row, write, since, master, edits, faults>>

Version == Nat \ {0}
ParameterType == {"string", "secure_string"}
Encrypted == [key_id : MasterKey, aad : Key \X Version, plain : Value]

\* The schema's CHECK: the columns of the one type or those of the other.
Parameter ==
    [type : {"string"}, version : Version, value : Value, sealed : {None}]
        \union [type : {"secure_string"}, version : Version, value : {None}, sealed : Encrypted]
Put == [step : {"put", "stored", "conflict", "error"}, key : Key, type : ParameterType,
        value : Value, version : Version]

ASSUME RowsAreNotNone == None \notin Parameter
ASSUME PutsAreNotNone == None \notin Put

TypeOK ==
    /\ row \in [Key -> Parameter \union {None}]
    /\ write \in [Writer -> Put \union {None}]
    /\ since \in [Writer -> {"same", "written", "deleted"}]
    /\ master \in MasterKey
    /\ edits \in 0 .. MaxEdits /\ faults \in 0 .. MaxFaults

Init ==
    /\ row = [k \in Key |-> None]
    /\ write = [w \in Writer |-> None]
    /\ since = [w \in Writer |-> "same"]
    /\ master \in MasterKey
    /\ edits = 0 /\ faults = 0

Fault(kind) == kind \in Faults /\ faults < MaxFaults /\ faults' = faults + 1
Edit == edits < MaxEdits /\ edits' = edits + 1

-----------------------------------------------------------------------------
(* Secrets                                                                 *)

aad(name, version) == <<name, version>>

\* Mutant: the version is left out of what is bound.
encrypt_OwnVersion(name, version, plain) ==
    [key_id |-> master, aad |-> aad(name, 1), plain |-> plain]
encrypt(name, version, plain) ==
    [key_id |-> master, aad |-> aad(name, version), plain |-> plain]

\* What the holder of the key it was wrapped with reads; None if it won't open.
Opened(name, version, enc) == IF enc.aad = aad(name, version) THEN enc.plain ELSE None

decrypt(name, version, enc) ==
    IF enc.key_id = master THEN Opened(name, version, enc) ELSE None

-----------------------------------------------------------------------------
(* The queries                                                             *)

next_version(k) == IF row[k] = None THEN 1 ELSE row[k].version + 1

\* Mutant: the columns of the other type are not cleared.
put_string_KeepsSecret(k, version, value) ==
    [type |-> "string", version |-> version, value |-> value,
     sealed |-> IF row[k] = None THEN None ELSE row[k].sealed]
put_string(k, version, value) ==
    [type |-> "string", version |-> version, value |-> value, sealed |-> None]

put_secure(k, version, enc) ==
    [type |-> "secure_string", version |-> version, value |-> None, sealed |-> enc]

\* Whether the upsert takes effect.
\* Mutant: a conflicting row is overwritten.
Upserts_Always(k, version) == TRUE
Upserts(k, version) == row[k] = None \/ row[k].version + 1 = version

fetch(k) ==
    IF row[k] = None THEN None
    ELSE IF row[k].type = "string" THEN row[k].value
    ELSE decrypt(k, row[k].version, row[k].sealed)

-----------------------------------------------------------------------------
(* The handlers                                                            *)

Putting(w) == write[w] # None /\ write[w].step = "put"

\* put_parameter up to its second await: the version it will write.
put_parameter(w, k, type, value) ==
    /\ Edit
    /\ ~Putting(w)
    /\ write' = [write EXCEPT ![w] = [step |-> "put", key |-> k, type |-> type, value |-> value,
                                      version |-> next_version(k)]]
    /\ since' = [since EXCEPT ![w] = "same"]
    /\ UNCHANGED <<row, master, faults>>

\* The history of the writers that have looked at k: others stored or deleted.
Overtaken(w, k) ==
    since' = [u \in Writer |->
                 IF u # w /\ Putting(u) /\ write[u].key = k /\ since[u] = "same"
                 THEN "written" ELSE since[u]]
Forgotten(k) ==
    since' = [u \in Writer |->
                 IF Putting(u) /\ write[u].key = k THEN "deleted" ELSE since[u]]

\* The upsert and the answer.
Upsert(w) ==
    /\ Putting(w)
    /\ LET put == write[w]
           k == put.key
       IN  IF Upserts(k, put.version)
           THEN /\ row' = [row EXCEPT ![k] =
                              IF put.type = "string"
                              THEN put_string(k, put.version, put.value)
                              ELSE put_secure(k, put.version,
                                              encrypt(k, put.version, put.value))]
                /\ Overtaken(w, k)
                /\ write' = [write EXCEPT ![w].step = "stored"]
           ELSE /\ write' = [write EXCEPT ![w].step = "conflict"]
                /\ UNCHANGED <<row, since>>
    /\ UNCHANGED <<master, edits, faults>>

delete_parameter(k) ==
    /\ Edit
    /\ row' = [row EXCEPT ![k] = None]
    /\ IF row[k] # None THEN Forgotten(k) ELSE UNCHANGED since
    /\ UNCHANGED <<write, master, faults>>

\* The statement fails, or the client goes away while it is awaited.
Abandoned(w) ==
    /\ Putting(w)
    /\ \/ Fault("write") /\ write' = [write EXCEPT ![w].step = "error"]
       \/ Fault("drop") /\ write' = [write EXCEPT ![w] = None]
    /\ UNCHANGED <<row, since, master, edits>>

\* The agent dies and comes back, perhaps with another master key.
Restart ==
    /\ Fault("crash")
    /\ master' \in MasterKey
    /\ write' = [w \in Writer |-> None]
    /\ UNCHANGED <<row, since, edits>>

Next ==
    \/ \E w \in Writer :
        \/ \E k \in Key, t \in ParameterType, v \in Value : put_parameter(w, k, t, v)
        \/ Upsert(w) \/ Abandoned(w)
    \/ \E k \in Key : delete_parameter(k)
    \/ Restart

Spec == Init /\ [][Next]_vars

-----------------------------------------------------------------------------
(* Properties                                                              *)

\* The row of a key as a versioned value: what its own master key opens.
Plain(k) ==
    IF row[k].type = "string" THEN row[k].value
    ELSE Opened(k, row[k].version, row[k].sealed)
CellOf(k) == IF row[k] = None THEN None ELSE [version |-> row[k].version, value |-> Plain(k)]

\* A write as its client sees it; one that failed is as good as given up.
Outcome(step) == IF step = "put" THEN "pending" ELSE IF step = "stored" THEN "stored" ELSE "refused"
OpOf(w) ==
    IF write[w] = None \/ write[w].step = "error" THEN None
    ELSE [state |-> Outcome(write[w].step), key |-> write[w].key, value |-> write[w].value]

Promised ==
    INSTANCE Register WITH
        cell <- [k \in Key |-> CellOf(k)],
        op <- [w \in Writer |-> OpOf(w)]

ASSUME CellsAreNotNone == None \notin Promised!Cell
ASSUME OpsAreNotNone == None \notin Promised!Op

\* The store implements the register: overlapping writes of one key, of either
\* type, end as if one after the other; "modified concurrently" is answered
\* only if it was, and always if it was only written; and what is stored opens
\* under the version it is stored with.
ImplementsRegister == Promised!Spec

\* A secret that is stored, whoever stored it and over whatever, is readable
\* as long as the master key is the one it was wrapped with.
Readable ==
    \A k \in Key :
        row[k] # None /\ (row[k].type = "secure_string" => row[k].sealed.key_id = master)
        => fetch(k) \in Value

=============================================================================
