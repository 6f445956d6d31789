SPECIFICATION Spec
CONSTANTS
    Serials = {usart}
    None = None
    Clients = {a, b}
    Calls = {"Enable", "Disable", "IsConnected", "SetListenSerial"}
    QueueSize = 3
    MaxDetect = 2
    LogChoices = {}
    ModuleFrames = {"Heartbeat", "BaudRate", "Invalid"}
    SplitFrames = TRUE
SYMMETRY Symmetry
CHECK_DEADLOCK FALSE
INVARIANTS
    TypeOK
    WorkerAccountedFor
    CallsAnsweredOnce
