CONSTANTS
    w1 = w1
    w2 = w2
    w3 = w3
    x1 = x1
    x2 = x2
    f1 = f1
    None = None
    Worker = {w1, w2}
    Tx = {x1}
    File = {f1}
    RawConcurrent = TRUE
    FencedRemoval = FALSE
    Faults = {}
    MaxVersions = 1
    MaxCalls = 2
    MaxFaults = 0
SPECIFICATION Spec
CHECK_DEADLOCK FALSE
INVARIANT ReferenceHasArtifact
