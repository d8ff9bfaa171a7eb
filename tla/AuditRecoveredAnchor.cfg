CONSTANTS
    p1 = p1
    p2 = p2
    t1 = t1
    t2 = t2
    t3 = t3
    d1 = d1
    d2 = d2
    None = None
    Proc = {p1, p2}
    Thread = {t1, t3}
    ProcOf <- MCProcOf
    Payload = {d1, d2}
    LegacyData <- MCLegacy
    Tears = {}
    Faults = {"kill"}
    MaxCalls = 6
    MaxFaults = 1
SPECIFICATION Spec
CHECK_DEADLOCK FALSE
INVARIANT PersistBeforePublish
