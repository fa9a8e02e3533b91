SPECIFICATION HostSpec
CONSTANTS
    ChunkLines = 2
    MaxLines = 2
    MaxAsks = 1
PROPERTY AnswerIsHeard
CHECK_DEADLOCK FALSE
