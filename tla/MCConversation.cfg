SPECIFICATION SequentialSpec
CONSTANTS
    t1 = t1
    t2 = t2
    t3 = t3
    s1 = s1
    s2 = s2
    s3 = s3
    bash = bash
    read = read
    snip = snip
    None = None
    Turns <- MCTurns
    Sessions <- MCSessions
    Tools <- MCTools
    SnipTool = snip
    Responses <- MCResponses
    Inputs <- MCPrompts
    MaxToolContinuations = 3
    ToolsCrash = FALSE
    DiskFails = FALSE
SYMMETRY Symmetric
INVARIANTS
    NoThirdIdenticalRound RoundsCapped
    ContextFresh NothingLeftBehind NoStaleInterrupt
    WrittenOnce AllWrittenWhenQuiet
