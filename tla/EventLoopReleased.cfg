SPECIFICATION Spec
CONSTANTS
    Queues = {q1, q2}
    Capacity = 1
    Threads = {}
    Loop = loop
    None = None
    Freed = Freed
    Timers = {}
    Intervals = {}
    TickIntervals = {}
    TickMod = 2
    MaxLate = 0
    MaxPend = 0
    LoopCalls = 4
    ThreadCalls = 0
    MaxRuns = 1
CHECK_DEADLOCK FALSE
INVARIANTS
    NoReleasedItemTouched
