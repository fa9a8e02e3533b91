SPECIFICATION ServiceSuiteSpec
CONSTANTS
    Scenes = {"tasks", "lsp", "fork", "permission", "sleep"}
    MaxTasks = 2
    LspCallers = {"c1", "c2"}
    MaxRequests = 3
    Senders = {"c1"}
    MaxMessages = 3
    CallInputs <- MCCallInputs
    Rules <- MCRules
    ServerOf <- MCServerOf
    Dangerous <- MCDangerous
    NoPattern = NoPattern
    NoContent = NoContent
    NoDefault = NoDefault
    Timeout = 3
    RestartAfter = 2
    MaxCallers = 2
    MaxTimers = 3
INVARIANTS
    DependenciesKnown NoMissedWakeup
    WaiterIsReachable
    OwnReply ReplyUsedOnce
    RunWasPermitted DenyRuleHolds BypassStaysDisabled
    AwakeWhileNeeded TimerIsKnown
PROPERTIES
    StoppedIsReported StopTerminates
CHECK_DEADLOCK FALSE
