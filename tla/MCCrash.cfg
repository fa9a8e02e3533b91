SPECIFICATION SequentialSpec
CONSTANTS
    t1 = t1
    t2 = t2
    t3 = t3
    s1 = s1
    s2 = s2
    s3 = s3
    bash = bash
    read = read
    snip = snip
    None = None
    Turns <- MCTwoTurns
    Sessions <- MCTwoSessions
    Tools <- MCTools
    SnipTool = snip
    Responses <- MCShortResponses
    Inputs <- MCPrompt
    MaxToolContinuations = 1
    ToolsCrash = TRUE
    DiskFails = FALSE
INVARIANT RequestPaired
