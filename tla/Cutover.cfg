CONSTANTS
    main = main
    h1 = h1
    h2 = h2
    x = x
    y = y
    e = e
    None = None
    Main = main
    Empty = e
    Applier = {main, h1, h2}
    Part = {e, x, y}
    Rest = {e, x}
    Faults = {"refuse", "lost", "crash", "drop", "caddy", "secret"}
    MaxEdits = 3
    MaxFaults = 1
SPECIFICATION CutoverSpec
INVARIANTS CutoverTypeOK NewestAppliedIsLive ActivatedIsRouted
PROPERTIES ChangesReachCaddy
CHECK_DEADLOCK FALSE
