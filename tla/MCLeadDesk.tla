------------------------------ MODULE MCLeadDesk ------------------------------
EXTENDS LeadDesk, TLC

CONSTANTS r1, r2, r3, e1, e2, e3, l1, l2, a1, a2, k1, c1, c2, v1, w1, w2

Contact(e, l, a, k) == [email |-> e, linkedin |-> l, apollo |-> a, company |-> k]

\* Lead 1 works for the company and belongs to the first caller, lead 2 is loose,
\* lead 3 was deleted.
Known == [p \in Pid |->
    CASE p = 1 -> NewRow(Contact(e1, None, None, k1), c1)
      [] p = 2 -> NewRow(Contact(e2, l2, None, None), None)
      [] p = 3 -> [NewRow(Contact(None, None, a2, None), None) EXCEPT !.state = "deleted"]
      [] OTHER -> NoRow]
TwoCallers == <<c1, c2>>
Form == {Contact(e3, l1, None, None)}
Changes == {[email |-> e3, linkedin |-> l1]}
SignupOpen == [s \in Sid |-> IF s = 1 THEN NewSignup(e3)
                             ELSE [NewSignup(None) EXCEPT !.state = "free"]]
File == {<<[card |-> Contact(None, None, None, k1), long |-> FALSE],
           [card |-> Contact(e3, l1, None, k1), long |-> FALSE]>>}
LongFile == {<<[card |-> Contact(None, None, None, k1), long |-> TRUE]>>}
Deliveries == [book |-> [kind |-> "booked", card |-> Contact(e1, None, None, None)],
               miss |-> [kind |-> "missed", card |-> Contact(e1, None, None, None)],
               apol |-> [kind |-> "contact", card |-> Contact(e2, l1, a1, None)],
               old |-> [kind |-> "contact", card |-> Contact(None, l2, a2, None)]]
NoSignup == <<>>
NoHook == <<>>
Unordered == Permutations(Req) \cup Permutations(Worker)
=============================================================================
