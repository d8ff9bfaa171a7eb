CONSTANTS
    None = None
    Thread = {t1, t2}
    LegacyLines = {0}
    Faults = {"kill", "power"}
    MaxCalls = 4
    MaxFaults = 2
    MaxNewFaults = 2
SPECIFICATION Spec
CHECK_DEADLOCK FALSE
INVARIANT ReturnedDurable
