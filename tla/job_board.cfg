CONSTANTS
    None = None
    Req = {r1, r2, r3}
    Board = {linkedin, naukri}
    PostingId = {1, 2, 3}
    Targets = {1, 4}
    Counts = {0, 2}
    Marks = {"posted", "stopped"}
    Linked = TRUE
    MaxList = 2
    MaxClock = 1
    MaxAborts = 1
SPECIFICATION Spec
SYMMETRY Symmetry
INVARIANTS TypeOK RatchetComplete MetEarned SerialTotals
PROPERTIES MetSticks NoDoublePosting
