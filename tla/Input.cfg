SPECIFICATION FairSpec
CONSTANTS
    Pins <- OnePin
    FuriTimers = {"up"}
    TimerQueueLength = 3
    DebounceTicks = 3
    GuiQueueSize = 1
    DumpQueueSize = 2
    InputSrv = InputSrv
    TimerTask = TimerTask
    Cli = Cli
    Publishers = {InputSrv, TimerTask, Cli}
    Gui = Gui
    Dump = Dump
    Subscribers = {Gui, Dump}
    Nobody = Nobody
    TimerElevated = FALSE
    None = None
INVARIANTS
    TypeOK
    CounterHasOneWriter
PROPERTIES
    KeysInSequence
    LevelReported
