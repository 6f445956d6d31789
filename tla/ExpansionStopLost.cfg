SPECIFICATION FairSpec
CONSTANTS
    Serials = {usart}
    None = None
    Clients = {a}
    Calls = {"Enable", "Disable"}
    QueueSize = 4
    MaxDetect = 1
    LogChoices = {}
    ModuleFrames = {"Heartbeat", "BaudRate", "Invalid"}
    SplitFrames = TRUE
CHECK_DEADLOCK FALSE
PROPERTY
    CallReturns
