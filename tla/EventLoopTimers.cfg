SPECIFICATION FairSpec
CONSTANTS
    Queues = {}
    Capacity = 1
    Threads = {}
    Loop = loop
    None = None
    Freed = Freed
    Timers = {t1, t2}
    Intervals = {1, 2}
    TickIntervals = {1}
    TickMod = 5
    MaxLate = 1
    MaxPend = 2
    LoopCalls = 4
    ThreadCalls = 0
    MaxRuns = 2
CHECK_DEADLOCK FALSE
INVARIANTS
    TypeOK
    TimersLinked
    FreeFindsNoTimer
PROPERTIES
    PendedAfterCommands
    FiresWhenDue
    SilentAfterStop
    CommandsExecuted
    ExpiredTimerServed
    TickServed
