CONSTANTS
    d1 = d1
    d2 = d2
    r1 = r1
    r2 = r2
    p1 = p1
    e1 = e1
    None = None
    Deleted = Deleted
    Id = {d1, d2}
    Name = {1, 2}
    Release = {r1}
    Env = {}
    Port = {p1}
    Container <- Pairs
    ContainerName <- PairName
    Sound <- SecondName
    Faults = {"rename"}
    MaxEdits = 5
    MaxFaults = 2
    MaxCalls = 1
SPECIFICATION LiveSpec
INVARIANTS TypeOK
PROPERTIES OthersUntouched Converges
CHECK_DEADLOCK FALSE
