SPECIFICATION Spec
CONSTANTS
    Req = {r1, r2, r3, r4}
    Lead = {p1, p2}
    Caller = {c1}
    LogId = {1, 2, 3, 4}
    None = None
    Creator <- NoCreator
    Outcomes = {"rnr", "call_back"}
    Times = {1}
    NewStages = {}
    LockTime = 0
    MaxClock = 3
    MaxActive = 1
SYMMETRY Symmetry
INVARIANT FairRotation
