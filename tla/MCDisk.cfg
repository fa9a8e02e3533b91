SPECIFICATION SequentialSpec
CONSTANTS
    t1 = t1
    t2 = t2
    t3 = t3
    s1 = s1
    s2 = s2
    s3 = s3
    bash = bash
    read = read
    snip = snip
    None = None
    Turns <- MCTurns
    Sessions <- MCTwoSessions
    Tools <- MCSnipTools
    SnipTool = snip
    Responses <- MCSnipResponses
    Inputs <- MCCompactInputs
    MaxToolContinuations = 1
    ToolsCrash = FALSE
    DiskFails = TRUE
SYMMETRY Symmetric
INVARIANTS CountedIsOnDisk RequestPaired
