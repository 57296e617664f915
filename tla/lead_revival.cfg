CONSTANTS
    None = None
    Key = {"partial", "verified", "published"}
    Req = {r1, r2}
    Pid = {1, 2}
    Event <- Funnel
    MaxSoft = 0
    MaxHard = 0
    MaxCrash = 0
    Deletes = {"lead"}
    Patient = TRUE
SPECIFICATION Spec
PROPERTY MatchRevives
