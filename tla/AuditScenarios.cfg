CONSTANTS
    p1 = p1
    p2 = p2
    t1 = t1
    t2 = t2
    t3 = t3
    d1 = d1
    d2 = d2
    None = None
    Proc = {p1, p2}
    Thread = {t1, t2, t3}
    ProcOf <- MCProcOf
    Payload = {d1, d2}
    LegacyData <- MCLegacy
    Tears = {"partial"}
    Faults = {"kill", "oserror", "tear"}
    MaxCalls = 6
    MaxFaults = 2
SPECIFICATION ScenarioSpec
CHECK_DEADLOCK FALSE
INVARIANT TypeOK CorruptOnlyWhenCorrupt AnchorLags AckedDurable
PROPERTY AppendLeavesValidLog CrashChainSpec ProcessesReturn
