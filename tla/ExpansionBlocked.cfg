SPECIFICATION Spec
CONSTANTS
    Serials = {usart}
    None = None
    Clients = {a}
    Calls = {"Enable", "Disable"}
    QueueSize = 8
    MaxDetect = 7
    LogChoices = {}
    ModuleFrames = {"Heartbeat", "StatusOk", "StatusError", "BaudRate",
                    "BadBaudRate", "StartRpc", "StopRpc", "Data", "Invalid"}
    SplitFrames = FALSE
CHECK_DEADLOCK FALSE
INVARIANT
    ControlDoesNotBlockWorker
