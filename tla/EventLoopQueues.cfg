SPECIFICATION FairSpec
CONSTANTS
    Queues = {q}
    Capacity = 2
    Threads = {a, b}
    Loop = loop
    None = None
    Freed = Freed
    Timers = {}
    Intervals = {}
    TickIntervals = {}
    TickMod = 2
    MaxLate = 0
    MaxPend = 0
    LoopCalls = 5
    ThreadCalls = 3
    MaxRuns = 2
CHECK_DEADLOCK FALSE
INVARIANTS
    NoMissedArrival
PROPERTIES
    ArrivalProcessed
    StopHonoured
