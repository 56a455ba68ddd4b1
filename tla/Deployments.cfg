CONSTANTS
    d1 = d1
    d2 = d2
    r1 = r1
    r2 = r2
    p1 = p1
    e1 = e1
    None = None
    Deleted = Deleted
    Id = {d1}
    Name = {1}
    Release = {r1, r2}
    Env = {}
    Port = {p1}
    Container <- Pairs
    ContainerName <- PairName
    Sound <- FirstRelease
    Faults = {"docker", "crash", "timeout", "prune", "exit", "env", "proxy"}
    MaxEdits = 4
    MaxFaults = 2
    MaxCalls = 1
SPECIFICATION LiveSpec
INVARIANTS StoppedMeansGone OwnPortsFree
PROPERTIES ImplementsLifecycle KeepsServing ActivatesHealthy Converges NotifySuffices
CHECK_DEADLOCK FALSE
