CONSTANTS
    v1 = v1
    v2 = v2
    x = x
    y = y
    task = task
    request = request
    None = None
    Uuid = {1, 2}
    Tag = {v1, v2}
    Digest = {x, y}
    Pruner = {task, request}
    Task = task
    Keep = 1
    Faults = {"registry", "crash"}
    MaxSeconds = 0
    MaxEdits = 3
    MaxFaults = 1
SPECIFICATION LiveSpec
INVARIANTS TypeOK
PROPERTIES PruneSparesRetained PrunesAll
