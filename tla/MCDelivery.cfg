SPECIFICATION DeliverySuiteSpec
CONSTANTS
    Scenes = {"transport", "worker", "websocket", "host"}
    MaxBatch = 2
    MaxQueue = 3
    FailureLimits = {0, 2}
    Flushers = {"w1", "w2", "grace"}
    Writers = {"w1", "w2"}
    MaxItems = 4
    MetadataKeys = {"a", "b"}
    MaxReports = 3
    MaxConnections = 3
    AutoReconnect = TRUE
    ChunkLines = 2
    MaxLines = 3
    MaxAsks = 2
INVARIANTS
    ReceivedInOrder NothingLost QueueBound
    ServerCaughtUp
    ConnectedIsListening
    AllowedByItsAnswer
PROPERTIES
    FlushReturns DeliveredInOrder
    ServerNeverGoesBack ReportsReachServer
    DropIsNoticed
    EndsWithHost
CHECK_DEADLOCK FALSE
