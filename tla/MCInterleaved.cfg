SPECIFICATION Spec
CONSTANTS
    t1 = t1
    t2 = t2
    s1 = s1
    s2 = s2
    bash = bash
    read = read
    snip = snip
    None = None
    Turns <- MCTurns
    Sessions <- MCOneSession
    Tools <- MCOneTool
    SnipTool = snip
    Responses <- MCShortResponses
    Inputs <- MCPrompt
    MaxToolContinuations = 1
    ToolsCrash = FALSE
    DiskFails = FALSE
INVARIANTS TypeOK ResultThenIdle
SYMMETRY Symmetric
