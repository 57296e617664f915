CONSTANTS
    r1 = r1 r2 = r2 r3 = r3 e1 = e1 e2 = e2 e3 = e3 l1 = l1 l2 = l2 a1 = a1 a2 = a2 k1 = k1 c1 = c1 c2 = c2 v1 = v1 w1 = w1 w2 = w2
    None = None
    Req = {r1, r2}
    Pid = {1, 2, 3, 4, 5}
    Email = {e1, e2, e3}
    Linkedin = {l1, l2}
    Apollo = {a1, a2}
    Company = {k1}
    Pool <- TwoCallers
    Seed <- Known
    MaxActive = 2
    MaxMixed = 2
    Late = {}
    MaxAborts = 0
    FormCards = {}
    Edits = {}
    HandStages = {"lost"}
    Files <- LongFile
    Visitors = {None}
    Worker = {}
    Sid = {}
    Variant = {}
    FormEmails = {}
    OutEmails = {}
    Start <- NoSignup
    Hooks <- NoHook
    MaxFaults = 0
SPECIFICATION Spec
PROPERTY ImportReports
