SPECIFICATION AllSpec
CONSTANTS
    s1 = s1  s2 = s2  m1 = m1  m2 = m2  r1 = r1  r2 = r2  p1 = p1  a = a
    x = x  y = y  z = z
    Parts = {"calls", "reconcile", "discovery", "messengers", "videos", "contexts", "upload"}
    Calls = {s1, s2, m1, m2}
    Shared = {s1, s2}
    Methods = {m1, m2}
    Object = Object
    NoCall = NoCall
    Stopped = Stopped
    MaxConns = 2
    PoolSize = 1
    MaxOverdue = 1
    Timed = {}
    MaxBegun = 2
    MaxCancels = 1
    Roots = {r1, r2, p1}
    Kinds <- BothKinds
    KindOf <- TheKindOf
    StagesOf <- SharedStage
    NoRoot = NoRoot
    NoStage = NoStage
    MaxEdits = 1
    MaxFaults = 1
    MaxTroubles = 7
    Pods = {x, y, z}
    AddrOf <- TheAddresses
    MaxEvents = 4
    MaxBreaks = 1
    q1 = q1  q2 = q2  q3 = q3  e1 = e1  e2 = e2
    Requests = {q1, q2, q3, e1, e2}
    Editors = {e1, e2}
    Versions = 3
    SizeOf <- TheSizes
    ScratchBytes = 2
    Steps = 2
    MaxShards = 2
    Attempts = 3
    MaxSignals = 1
    MaxErrors = 3
    u = u
    Peers = {u}
    Named = {u}
    Behind = 0
    MaxMessengers = 2
    MaxRestarts = 1
    MaxMessages = 2
    MaxChunks = 2
    MaxArrivals = 3
SYMMETRY NameSymmetry
INVARIANTS
    TypeOK
    AnswersBounded
    RunsOnce
    WaitersWatched
    ClosedReleased
    IsolatedServers
    CaughtUpExact
    WholeHandledOnce
    ClosedIsTold
    ScratchAccounted
    NamedVersionServed
    OneVersionEach
    NewestRegistered
PROPERTIES
    RemovesOwnOnly
CHECK_DEADLOCK FALSE
