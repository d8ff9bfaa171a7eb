CONSTANTS
    m1 = m1
    m2 = m2
    m3 = m3
    m4 = m4
    None = None
    Broken = Broken
    Cut = Cut
    Split = Split
    Garbage = Garbage
    Item = {m1, m2}
    Digest = {m3, m4}
    Cited = {m3}
    MaxLines = 1
    DurableTime = 3
    OlderThan = 1
    MaxRenderedDone = 1
    Client = {m1, m2}
    Mode = {"craft", "ask"}
    MaxGeneration = 2
    MaxTurn = 2
    TurnCalls = 3
    Automation = {m1, m2}
    OneTimeAutomation = {m1}
    Scheduler = {m3, m4}
    Interval = 1
    SchedulerTime = 2
    MaxRuns = 3
    MaxTotalRuns = 3
    MaxCrashes = 1
    Proc = {m1, m2}
    Tool = {m3}
    DatabaseTime = 1
    DatabaseCalls = 2
    ToolRuns = 2
    Conn = {m1, m2}
    BufferSize = 2
    SidecarCalls = 2
    MaxChunk = 2
    SkillTitle = {"t"}
    SkillPath = {"p"}
    LogType = {"message", "ai-title", "function_call", "function_call_result"}
    LogCall = {0}
    ReplayLimit = {0, 2}
    LogEvents = 3
    LogCrashes = 2
    GovernedTool = {"bash", "read_file", "write_file", "other"}
    HandledTool = {"bash", "read_file", "write_file"}
    GovernedCalls = 2
    AgentTool = {"bash", "write_file", "gone"}
    AgentAnswers = {"yes", "closed", "missing"}
    AgentSessions = 2
    AgentTurns = 1
    AgentCalls = 2
    Connector = {m1, m2}
    ServerTool = {1}
    GrantChanges = 2
    Commands = 2
    CommandCrashes = 2
    RecallProcess = {m1, m2}
    RecallRuns = 3
    RecallEdits = 1
    Scenarios = {"grounding"}
SPECIFICATION MCSpec
CHECK_DEADLOCK FALSE
INVARIANT CitedLinesHold
