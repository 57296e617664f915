CONSTANTS
    None = None
    Key = {"partial", "verified", "published", "blank"}
    Req = {r1, r2, r3}
    Pid = {1, 2, 3}
    Event <- Funnel
    MaxSoft = 0
    MaxHard = 1
    MaxCrash = 1
    Deletes = {"lead"}
    Patient = FALSE
SPECIFICATION Spec
SYMMETRY Symmetry
INVARIANTS TypeOK VerifiedIsRegistered IdentifiedSignup SerialDedupe SerialTouches SingleIngest
PROPERTY SettledStays
