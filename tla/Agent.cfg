CONSTANTS
    registry = registry
    proxy = proxy
    main = main
    t1 = t1
    t2 = t2
    a1 = a1
    a2 = a2
    i1 = i1
    i2 = i2
    None = None
    Registry = registry
    Proxy = proxy
    Main = main
    Toggle = {t1, t2}
    Agent = {a1, a2}
    Inode = {i1, i2}
    Faults = {"docker", "timeout", "restart", "crash", "boot", "path", "drop"}
    MaxEdits = 2
    MaxFaults = 2
SPECIFICATION AgentSpec
INVARIANTS AgentTypeOK ConvergedMatches
PROPERTIES SocketStays OneServes
CHECK_DEADLOCK FALSE
