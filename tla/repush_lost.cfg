CONSTANTS
    None = None
    Key = {"verified", "stray"}
    Req = {r1, r2}
    Pid = {1, 2}
    Event <- VerifiedAndStray
    MaxSoft = 0
    MaxHard = 0
    MaxCrash = 1
    Deletes = {}
    Patient = TRUE
SPECIFICATION Spec
INVARIANT RepushSucceeds
