SPECIFICATION Spec
CONSTANTS
    w1 = w1  w2 = w2  k1 = k1  k2 = k2  c1 = c1  c2 = c2  d1 = d1  d2 = d2
    None = None
    Workers = {w1, w2}
    Datasets = {d1}
    Episodes = {1}
    Keys = {k1, k2}
    Modes = {"judge"}
    Configs = {c1}
    Capacities = {1}
    Lease = 3
    Offset <- AheadClock
    Floor = 0
    Timely = TRUE
    StoreLeaseLost = FALSE
    MaxJobs = 2
    MaxFence = 3
    MaxRetries = 1
    MaxPreviews = 0
    MaxEdits = 0
    MaxFaults = 1
INVARIANTS
    JudgingWithinCapacity
    TimelyClaimKept
