CONSTANTS
    m1 = m1
    m2 = m2
    m3 = m3
    m4 = m4
    None = None
    Scenarios = {"conflicts", "facts", "writers", "recalls", "user", "reflection", "skills"}
    Statement = {m1, m2}
    DecisionId = {m3, m4}
    Keyed = {TRUE}
    MaxDay = 3
    MinimumImportance = 4
    RepeatThreshold = 2
    SupersessionThreshold = 2
    Level = {4}
    ConflictFaults = {"crash", "tear"}
    MaxKeyedFacts = 4
    MaxConflictFaults = 2
    LooseLevel = {3, 4}
    FactFaults = {"crash", "tear_fact"}
    MaxLooseFacts = 3
    MaxFactFaults = 1
    Process = {m1, m2}
    Id = {1, 2}
    Term = {m3}
    Faults = {"kill", "power", "short"}
    MaxRecords = 3
    MaxFaults = 2
    Value = {m1}
    ProfileFact = {m3}
    SourceEvent = {}
    MaxTime = 3
    MaxRevision = 2
    Failure = {m1}
    Recovery = {m3, m4}
    MinimumSupport = 1
    MaxDigest = 2
    MaxVersions = 2
    MaxCrashes = 1
    CandidateId = {1, 2, 3}
    MaxAudit = 6
    MaxReleaseFaults = 2
SPECIFICATION Spec
CHECK_DEADLOCK FALSE
INVARIANT WorkspaceSound  RecallSound UserMemorySound ReleasesSound
PROPERTY DecisionsStand AdjudicationSpec PreparedCommits PromptsCurrent
