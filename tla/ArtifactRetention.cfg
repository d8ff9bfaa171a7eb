CONSTANTS
    w1 = w1
    w2 = w2
    w3 = w3
    x1 = x1
    x2 = x2
    f1 = f1
    None = None
    Worker = {w1, w2}
    Tx = {x1, x2}
    File = {f1}
    RawConcurrent = FALSE
    FencedRemoval = FALSE
    Faults = {"oserror", "timeout", "crash"}
    MaxVersions = 2
    MaxCalls = 4
    MaxFaults = 1
SPECIFICATION FairSpec
CHECK_DEADLOCK FALSE
INVARIANT ReferenceHasArtifact LeaseCoversReference JournalAccepted
PROPERTY EveryCallReturns
