CONSTANTS
    None = None
    Key = {"left", "right"}
    Req = {r1, r2, r3, r4}
    Pid = {1, 2, 3}
    Event <- Colleagues
    MaxSoft = 1
    MaxHard = 0
    MaxCrash = 0
    Deletes = {"company"}
    Patient = TRUE
SPECIFICATION FairSpec
INVARIANT ProcessedIngested
PROPERTIES FailedIsReplayed LedgerSpec
