CONSTANTS
    registry = registry
    proxy = proxy
    main = main
    t1 = t1
    t2 = t2
    None = None
    Registry = registry
    Proxy = proxy
    Main = main
    Toggle = {t1}
    Faults = {}
    MaxEdits = 2
    MaxFaults = 0
SPECIFICATION Spec
PROPERTIES AppliedMeansRouted
CHECK_DEADLOCK FALSE
