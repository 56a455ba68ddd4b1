CONSTANTS
    main = main
    h1 = h1
    h2 = h2
    x = x
    y = y
    e = e
    None = None
    Main = main
    Empty = e
    Applier = {main, h1, h2}
    Part = {e, x}
    Rest = {e, x}
    Faults = {}
    MaxEdits = 3
    MaxFaults = 0
SPECIFICATION Spec
INVARIANTS PendingUntilLive
CHECK_DEADLOCK FALSE
