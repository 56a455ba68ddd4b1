CONSTANTS
    v1 = v1
    v2 = v2
    x = x
    y = y
    task = task
    request = request
    None = None
    Uuid = {1, 2}
    Tag = {v1, v2}
    Digest = {x, y}
    Pruner = {task}
    Task = task
    Keep = 1
    Faults = {}
    MaxSeconds = 0
    MaxEdits = 4
    MaxFaults = 0
SPECIFICATION Spec
INVARIANTS QueuedSurvives
