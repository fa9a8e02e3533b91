SPECIFICATION WsSpec
CONSTANTS
    MaxConnections = 2
    AutoReconnect = TRUE
PROPERTY Reconnects
CHECK_DEADLOCK FALSE
