SPECIFICATION FairSpec
CONSTANTS
    Serials = {usart}
    None = None
    Clients = {a}
    Calls = {"Enable", "Disable", "IsConnected"}
    QueueSize = 4
    MaxDetect = 1
    LogChoices = {usart, None}
    ModuleFrames = {"Heartbeat", "StatusOk", "StatusError", "BaudRate",
                    "BadBaudRate", "StartRpc", "StopRpc", "Data", "Invalid"}
    SplitFrames = FALSE
CHECK_DEADLOCK FALSE
INVARIANTS
    DetectionFollowsState
    SessionInsideWorker
    LogFollowsConfig
    DisabledMeansQuiet
    WorkerGetsSerial
    RxBufOutlivesReader
PROPERTIES
    ConnectedMeansReady
    WorkerEndsAfterError
    CallReturns
