CONSTANTS
    r1 = r1 r2 = r2 r3 = r3 e1 = e1 e2 = e2 e3 = e3 l1 = l1 l2 = l2 a1 = a1 a2 = a2 k1 = k1 c1 = c1 c2 = c2 v1 = v1 w1 = w1 w2 = w2
    None = None
    Req = {r1, r2, r3}
    Pid = {1, 2, 3, 4, 5, 6, 7, 8}
    Email = {e1, e2, e3}
    Linkedin = {l1, l2}
    Apollo = {a1, a2}
    Company = {k1}
    Pool <- TwoCallers
    Seed <- Known
    MaxActive = 2
    MaxMixed = 2
    Late = {"decide", "visit", "calendly"}
    MaxAborts = 1
    FormCards <- Form
    Edits <- Changes
    HandStages = {"lost"}
    Files <- File
    Visitors = {1, None}
    Worker = {w1, w2}
    Sid = {1, 2}
    Variant = {v1}
    FormEmails = {e3}
    OutEmails = {e1}
    Start <- SignupOpen
    Hooks <- Deliveries
    MaxFaults = 1
SPECIFICATION Spec
SYMMETRY Unordered
INVARIANTS OnePerEmail MergeKeepsOne OneAccount StaysOut VerifiedHasLead OneSendAMinute VisitsCounted HookAppliedOnce
