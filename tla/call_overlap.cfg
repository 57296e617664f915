SPECIFICATION Spec
CONSTANTS
    Req = {r1, r2, r3}
    Lead = {p1}
    Caller = {c1}
    LogId = {1, 2, 3}
    None = None
    Creator <- NoCreator
    Outcomes = {"rnr", "call_back", "demo_scheduled", "demo_attended", "converted"}
    Times = {1}
    NewStages = {"lost", "converted"}
    LockTime = 2
    MaxClock = 2
    MaxActive = 3
SYMMETRY Symmetry
INVARIANTS TypeOK RnrNeverOver RnrNoticed HistoryAgrees ConvertedStamped ViewsAgree
PROPERTY MidCallLock
