SPECIFICATION Spec
CONSTANTS
    w1 = w1  w2 = w2  k1 = k1  k2 = k2  c1 = c1  c2 = c2  d1 = d1  d2 = d2
    None = None
    Workers = {w1, w2}
    Datasets = {d1}
    Episodes = {1}
    Keys = {k1}
    Modes = {"judge-and-label"}
    Configs = {c1}
    Capacities = {1}
    Lease = 1
    Offset <- SameClock
    Floor = 0
    Timely = FALSE
    StoreLeaseLost = TRUE
    MaxJobs = 1
    MaxFence = 2
    MaxRetries = 1
    MaxPreviews = 1
    MaxEdits = 1
    MaxFaults = 1
INVARIANTS
    WithdrawalComplete
