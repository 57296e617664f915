SPECIFICATION Spec
CONSTANTS
    Req = {r1, r2}
    Lead = {p1}
    Caller = {c1}
    LogId = {1, 2}
    None = None
    Creator <- NoCreator
    Outcomes = {"call_back", "demo_scheduled", "demo_attended"}
    Times = {1}
    NewStages = {}
    LockTime = 1
    MaxClock = 1
    MaxActive = 1
INVARIANT QueueResolves
