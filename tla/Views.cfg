SPECIFICATION Spec
CONSTANTS
    Keys = {"Up", "Back"}
    Views = {v1, v2}
    Dispatcher = Dispatcher
    Desktop = Desktop
    Popup = Popup
    Ports = {Dispatcher, Desktop, Popup}
    None = None
    GuiQueueSize = 1
    InputQueueSize = 1
    EventQueueSize = 1
    Types = {"Press", "Short", "Release"}
    MaxSteps = 3
SYMMETRY ViewSymmetry
CHECK_DEADLOCK FALSE
INVARIANTS
    TypeOK
    NoStuckKey
    DetachedUntouched
    ScreenUpToDate
    RunCanReturn
