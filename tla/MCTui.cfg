SPECIFICATION FairTuiSpec
CONSTANTS
    t1 = t1
    t2 = t2
    s1 = s1
    s2 = s2
    s3 = s3
    bash = bash
    read = read
    snip = snip
    None = None
    Turns <- MCTurns
    Sessions <- MCOneSession
    Tools <- MCTools
    SnipTool = snip
    Responses <- MCPairResponses
    Inputs <- MCPrompt
    MaxToolContinuations = 1
    ToolsCrash = FALSE
    DiskFails = FALSE
    Patient = TRUE
INVARIANT AtRestWithoutWorkers
PROPERTY InterruptHolds InterruptReleasesDialog
