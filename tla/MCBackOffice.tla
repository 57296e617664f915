---------------------------- MODULE MCBackOffice ----------------------------
EXTENDS BackOffice

CONSTANTS r1, r2, r3, d1, d2, x1, k1, k2, c1, p1, p2, p3, o1

\* d1 pushes for a company that was promoted, d2 for one of which two leads are known.
Pushers == [d \in Key |-> IF d = d1 THEN [uid |-> 7, company |-> None]
                          ELSE [uid |-> 8, company |-> c1]]
KnownLeads == <<[live |-> FALSE, uid |-> 7, company |-> c1],
                [live |-> TRUE, uid |-> 0, company |-> c1],
                [live |-> TRUE, uid |-> 7, company |-> None],
                [live |-> TRUE, uid |-> 0, company |-> c1]>>

\* Company 1 has no domain, but may get one or be deleted.
OneFirm == [f \in Fid |-> IF f = 1 THEN [NoFirm EXCEPT !.state = "live"] ELSE NoFirm]
Renamings == {[domain |-> k1]}
Pulls == <<k1, k2>>

Event(ext, company, title, link, paid) ==
    [ext |-> ext, company |-> company, title |-> title, link |-> link, paid |-> paid]
Publications ==
    [first |-> Event(x1, k1, "default", None, FALSE),
     again |-> Event(x1, k1, "theirs", "theirs", TRUE),
     shell |-> Event(x1, None, "theirs", None, FALSE)]
ByHand == {[ext |-> None, title |-> "ours", link |-> None, paid |-> FALSE],
           [ext |-> x1, title |-> "ours", link |-> None, paid |-> FALSE]}
Edits == {[title |-> "ours"], [link |-> "ours", paid |-> TRUE], [status |-> "closed"]}
OneJob == [j \in Jid |->
    IF j = 1 THEN [NoJob EXCEPT !.state = "live", !.title = "ours", !.prepared = 1] ELSE NoJob]
OneCandidate == [c \in Cid |->
    IF c = 1 THEN [NoCandidate EXCEPT !.state = "live", !.job = 1] ELSE NoCandidate]

Sources == [p \in Warm |-> [channel |-> "web", owner |-> IF p = p1 THEN o1 ELSE None]]

OneCampaign == [c \in Camp |-> IF c = 1 THEN [NoCampaign EXCEPT !.state = "live"] ELSE NoCampaign]
Lists == {<<1, 2>>, <<2, 1>>, <<2, 9, 2>>}

Together == {{"push", "move", "remove", "outcome"}, {"publish", "make", "edit"},
             {"publish", "firm", "apollo"}, {"add", "publish", "edit"}, {"add", "drop", "judge"},
             {"event", "reply", "sort", "recalc"}, {"event", "snapshot"},
             {"campaign", "enrol"}, {"sync", "told"}}
\* Pushes and moves of one outreach.
OutreachOnly == {{"push", "move"}}
Unordered == Permutations(Req)
=============================================================================
