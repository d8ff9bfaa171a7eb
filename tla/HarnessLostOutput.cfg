CONSTANTS
    t1 = t1
    t2 = t2
    s1 = s1
    s2 = s2
    u1 = u1
    u2 = u2
    None = None
    Thread = {t1}
    Session = {s1}
    Subscriber = {}
    Plans = {"call", "answer"}
    Outcomes = {"ok", "output_lost"}
    Faults = {}
    MaxPrompts = 1
    MaxFaults = 0
SPECIFICATION Spec
CHECK_DEADLOCK FALSE
INVARIANT NoInventedError
