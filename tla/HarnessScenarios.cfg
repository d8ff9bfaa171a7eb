CONSTANTS
    t1 = t1
    t2 = t2
    s1 = s1
    s2 = s2
    u1 = u1
    u2 = u2
    None = None
    Thread = {t1, t2}
    Session = {s1, s2}
    Subscriber = {u1, u2}
    Plans = {"call", "answer"}
    Outcomes = {"ok", "denied", "timeout", "unexpected"}
    Faults = {"storage", "audit", "crash", "disconnect"}
    MaxPrompts = 2
    MaxFaults = 2
SPECIFICATION ScenarioSpec
CHECK_DEADLOCK FALSE
INVARIANT EvidenceBeforeEffect TruthfulOutcomes EvidenceComplete DeliveredOnce TranscriptKept
PROPERTY CallsResolve TranscriptImplementsLog TranscriptCallsReturn
