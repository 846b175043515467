SPECIFICATION FairServicesSpec
CONSTANTS
    s1 = s1  s2 = s2  m1 = m1  m2 = m2  r1 = r1  r2 = r2  p1 = p1  a = a
    x = x  y = y  z = z
    Parts = {"calls", "reconcile", "discovery"}
    Calls = {s1, s2, m1}
    Shared = {s1, s2}
    Methods = {m1}
    Object = Object
    NoCall = NoCall
    Stopped = Stopped
    MaxConns = 2
    PoolSize = 1
    MaxOverdue = 0
    Timed = {s1}
    MaxBegun = 2
    MaxCancels = 0
    Roots = {r1, r2, p1}
    Kinds <- BothKinds
    KindOf <- TheKindOf
    StagesOf <- SharedStage
    NoRoot = NoRoot
    NoStage = NoStage
    MaxEdits = 1
    MaxFaults = 1
    MaxTroubles = 6
    Pods = {x, y, z}
    AddrOf <- TheAddresses
    MaxEvents = 3
    MaxBreaks = 1
PROPERTIES
    CallsReturn
    LocationsFollow
    Converges
CHECK_DEADLOCK FALSE
