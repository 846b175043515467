SPECIFICATION Spec
CONSTANTS
    Calls = {a}
    Shared = {}
    Methods = {}
    Object = Object
    NoCall = NoCall
    Stopped = Stopped
    MaxConns = 1
    PoolSize = 1
    MaxOverdue = 1
    Timed = {}
    MaxBegun = 1
    MaxCancels = 1
INVARIANTS
    AnsweredOnce
CHECK_DEADLOCK FALSE
