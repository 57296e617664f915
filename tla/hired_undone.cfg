CONSTANTS
    r1 = r1 r2 = r2 r3 = r3 d1 = d1 d2 = d2 x1 = x1 k1 = k1 k2 = k2 c1 = c1 p1 = p1 p2 = p2 p3 = p3 o1 = o1
    None = None
    Req = {r1, r2, r3}
    MaxActive = 1
    MaxAborts = 0
    Mixes <- OutreachOnly
    Key = {d1, d2}
    Customer <- Pushers
    Prospect <- KnownLeads
    Moves = {2}
    Jid = {1, 2, 3, 4}
    Cid = {1, 2, 3, 4}
    Events <- Publications
    Handmade <- ByHand
    Patches <- Edits
    Fid = {1, 2, 3, 4, 5, 6, 7}
    Firms <- OneFirm
    NewDomains = {k1}
    FirmChanges <- Renamings
    Contacts <- Pulls
    Jobs <- OneJob
    Candidates <- OneCandidate
    MaxFaults = 0
    Warm = {p1, p2}
    Gone = {p3}
    Reply = {1, 2, 3}
    EventKinds = {"click", "visit", "demo", "unsubscribed"}
    Source <- Sources
    Camp = {1, 2, 3, 4}
    Listed = {1, 2}
    Batches <- Lists
    Campaigned <- OneCampaign
    Promoted = {p1, p2}
    MaxGrowth = 3
SPECIFICATION Spec
PROPERTY HandMovedStays
