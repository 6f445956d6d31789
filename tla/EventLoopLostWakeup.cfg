SPECIFICATION FairSpec
CONSTANTS
    Queues = {q1, q2}
    Capacity = 1
    Threads = {a}
    Loop = loop
    None = None
    Freed = Freed
    Timers = {}
    Intervals = {}
    TickIntervals = {}
    TickMod = 2
    MaxLate = 0
    MaxPend = 0
    LoopCalls = 2
    ThreadCalls = 2
    MaxRuns = 1
CHECK_DEADLOCK FALSE
PROPERTIES
    ArrivalProcessed
