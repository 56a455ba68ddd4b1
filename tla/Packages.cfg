CONSTANTS
    htop = htop
    git = git
    task = task
    resync = resync
    None = None
    Package = {htop, git}
    Task = task
    Request = {resync}
    Faults = {"crash", "command", "probe", "write", "drop", "hand"}
    MaxEdits = 2
    MaxCalls = 1
    MaxFaults = 1
SPECIFICATION Spec
INVARIANTS TypeOK
PROPERTIES OrphanedOnlyByFaults SettlesByTick SettlesByNotify
CHECK_DEADLOCK FALSE
