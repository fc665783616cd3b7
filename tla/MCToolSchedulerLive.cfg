SPECIFICATION FairSpec
CONSTANTS
    e1 = e1
    e2 = e2
    e3 = e3
    e4 = e4
    e5 = e5
    k1 = k1
    k2 = k2
    k3 = k3
    k4 = k4
    bash = bash
    tmux = tmux
    c1 = c1
    NoCtx = NoCtx
    NoEntry = NoEntry
    Entry <- MCFewEntries
    CallId <- MCCallId
    Tool <- MCTool
    Ctx = {c1}
    CallOf <- MCCallOf
    ToolOf <- MCToolOf
    CtxOf <- MCCtxOf
    UrgentTools = {tmux}
    MaxRunning = 1
    QueueDepth = 2
    MaxRunningPerSession = 1
    QueueDepthPerSession = 1
    ToolMaxRunning <- MCTightMaxRunning
    ToolQueueDepth <- MCTightQueueDepth
PROPERTIES
    EveryRunAnswered
    CloseCompletes
CHECK_DEADLOCK FALSE
