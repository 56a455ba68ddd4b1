CONSTANTS
    token = token
    dsn = dsn
    x = x
    y = y
    m1 = m1
    m2 = m2
    w1 = w1
    w2 = w2
    w3 = w3
    None = None
    Key = {token, dsn}
    Value = {x, y}
    Writer = {w1, w2}
    MasterKey = {m1, m2}
    Faults = {"write", "drop", "crash"}
    MaxEdits = 5
    MaxFaults = 1
SPECIFICATION Spec
SYMMETRY Alike
INVARIANTS TypeOK Readable
PROPERTIES ImplementsRegister
CHECK_DEADLOCK FALSE
