SPECIFICATION Spec
CONSTANTS
    Serials = {usart}
    None = None
    Clients = {a}
    Calls = {"Enable", "SetListenSerial"}
    QueueSize = 8
    MaxDetect = 2
    LogChoices = {}
    ModuleFrames = {"Heartbeat", "StatusOk", "StatusError", "BaudRate",
                    "BadBaudRate", "StartRpc", "StopRpc", "Data", "Invalid"}
    SplitFrames = FALSE
CHECK_DEADLOCK FALSE
INVARIANT
    RxBufOutlivesReader
