CONSTANTS
    web = web
    job = job
    c1 = c1
    c2 = c2
    c3 = c3
    Unset = Unset
    Deployment = {web, job}
    Container = {c1, c2, c3}
    Owner <- OwnerOf
    Second <- Seconds
    MaxInt <- Most
    Retention = 1
    MaxEdits = 3
    MaxFaults = 1
SPECIFICATION Spec
INVARIANTS TypeOK HistoryGraphable
PROPERTIES TrafficMoved SampledInTheEnd PrunedInTheEnd
CHECK_DEADLOCK FALSE
