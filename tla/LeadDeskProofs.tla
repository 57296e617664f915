---------------------------- MODULE LeadDeskProofs ----------------------------
(***************************************************************************)
(* What holds of the lead desk for every table of leads and signups, every *)
(* set of requests and deliveries, however many requests are under way and *)
(* however many of them die: the desk, then one component after the other. *)
(***************************************************************************)
EXTENDS LeadDesk, SessionsProofs

RouteLabels ==
    {"insert", "edit", "remove", "move", "log", "drop", "mark", "reject",
     "call", "link", "convert", "row"}
VisitLabels == {"visit", "bump_page", "get_variant", "bump_variant", "curious?", "curious"}
VerifyLabels == {"check", "bump_signup", "find", "new_lead", "attach", "register"}
SignupLabels ==
    VisitLabels \cup VerifyLabels
        \cup {"sign_up", "send", "resend", "erase", "opt_out", "leave", "name"}
HookLabels ==
    {"receive", "book", "event", "add", "fill", "processed", "audit", "failed"}

\* Where a request is tells which kind it is, and what its session holds.
Fields == {"op", "lead", "row", "arg"}
RouteKind(at, l) ==
    /\ at \in RouteLabels => DOMAIN l = Fields
    /\ at = "insert" => l.op = "create"
    /\ at = "edit" => l.op = "patch"
    /\ at = "remove" => l.op = "delete"
    /\ at = "move" => l.op = "stage"
    /\ at \in {"log", "drop", "mark"} => l.op = "decide"
    /\ at = "reject" => l.op = "reject"
    /\ at \in {"call", "link", "convert"} => l.op = "promote"
    /\ at = "row" => l.op = "import"
SignupKind(at, l) ==
    /\ at \in SignupLabels => DOMAIN l = Fields
    /\ at \in VisitLabels => l.op = "visit"
    /\ at \in VisitLabels \ {"curious"} => DOMAIN l.arg = {"variant", "lead", "seen"}
    /\ at \in {"sign_up", "send"} => l.op = "signup" /\ DOMAIN l.arg = {"email", "sid", "worker"}
    /\ at = "resend" => l.op = "resend"
    /\ at \in VerifyLabels =>
          l.op = "verify" /\ DOMAIN l.arg = {"sid", "lead", "seen", "variant"}
    /\ at = "erase" => l.op = "erase"
    /\ at \in {"opt_out", "leave", "name"} => l.op = "optout"
HookKind(at, l) ==
    at \in HookLabels => /\ DOMAIN l = Fields /\ l.op \in {"calendly", "apollo"}
                         /\ l.arg.key \in DOMAIN Hooks

RouteKinds == \A r \in Req : RouteKind(pc[r], loc[r])
SignupKinds == \A r \in Req : SignupKind(pc[r], loc[r])
HookKinds == \A r \in Req : HookKind(pc[r], loc[r])

-----------------------------------------------------------------------------
(***************************************************************************)
(* The desk: each action of a component is a step of one of its requests.  *)
(***************************************************************************)
\* A request that begins is one that is launched.
LEMMA BeginLaunches ==
  ASSUME NEW r, NEW label, NEW session, Begin(r, label, session)
  PROVE  Launch(r, label, session) /\ UNCHANGED <<lead, moved>>
BY DEF Begin

\* What a session of a kind holds.
LEMMA SessionHolds ==
  ASSUME NEW op, NEW p, NEW arg
  PROVE  /\ DOMAIN Session(op, p, arg) = Fields /\ Session(op, p, arg).op = op
         /\ Session(op, p, arg).lead = p /\ Session(op, p, arg).arg = arg
         /\ p # None => Session(op, p, arg).row = lead[p]
BY DEF Session, Fields

\* The routes of the prospects.
LEMMA RoutesActs ==
  ASSUME Placed, RouteKinds, NEW r \in Req, RoutesNext(r)
  PROVE  Acts(r, RouteLabels) /\ RouteKinds'
<1> USE DEF RouteLabels, Over
<1>1. ASSUME NEW label \in RouteLabels, NEW op, NEW p, NEW arg,
             Begin(r, label, Session(op, p, arg)),
             \A l : l.op = op /\ DOMAIN l = Fields => RouteKind(label, l)
      PROVE  Acts(r, RouteLabels) /\ RouteKinds'
  <2> DEFINE session == Session(op, p, arg)
  <2>1. Acts(r, RouteLabels) /\ pc'[r] = label /\ loc'[r] = session
    BY <1>1, BeginLaunches, LaunchActs
  <2>2. RouteKind(label, session)
    BY <1>1, SessionHolds
  <2> QED BY <2>1, <2>2 DEF RouteKinds, Acts
<1>2. ASSUME NEW label \in RouteLabels, NEW session, Goto(r, label, session),
             pc[r] \in RouteLabels, session.op = loc[r].op, RouteKind(label, session)
      PROVE  Acts(r, RouteLabels) /\ RouteKinds'
  <2>1. Acts(r, RouteLabels) /\ pc'[r] = label /\ loc'[r] = session
    BY <1>2, GotoActs
  <2> QED BY <1>2, <2>1 DEF RouteKinds, Acts
<1>3. ASSUME pc[r] \in RouteLabels, Finish(r) \/ Broken(r)
      PROVE  Acts(r, RouteLabels) /\ RouteKinds'
  <2>1. Acts(r, RouteLabels) /\ pc'[r] \in Over
    BY <1>3, EndActs
  <2> QED BY <2>1 DEF RouteKinds, RouteKind, Acts
<1> USE DEF RouteKind
<1>4. CASE CreateLead(r) \/ DeleteLead(r) \/ MoveLead(r)
  BY <1>1, <1>4 DEF CreateLead, DeleteLead, MoveLead
<1>12. CASE PatchLead(r)
  BY <1>1, <1>12 DEF PatchLead
<1>5. CASE Decide(r) \/ RejectMerge(r) \/ Promote(r) \/ ImportFile(r)
  BY <1>1, <1>5 DEF Decide, RejectMerge, Promote, ImportFile
<1>6. CASE CommitLead(r) \/ CommitEdit(r) \/ CommitDelete(r) \/ CommitMove(r)
  BY <1>3, <1>6 DEF CommitLead, CommitEdit, CommitDelete, CommitMove
<1>7. CASE MarkMerged(r) \/ MarkRejected(r) \/ Convert(r) \/ ImportDone(r)
  BY <1>3, <1>7 DEF MarkMerged, MarkRejected, Convert, ImportDone
<1>8. CASE LogMerge(r) \/ DropLoser(r)
  BY <1>2, <1>8 DEF LogMerge, DropLoser, RouteKinds
<1>9. CASE CallHhBe(r)
  <2>1. CASE Finish(r)
    BY <1>3, <1>9, <2>1 DEF CallHhBe
  <2>2. ASSUME NEW n, Goto(r, "link", [loc[r] EXCEPT !.arg = n]) PROVE Acts(r, RouteLabels) /\ RouteKinds'
    <3>1. pc[r] = "call" /\ DOMAIN loc[r] = Fields /\ loc[r].op = "promote"
      BY <1>9 DEF CallHhBe, RouteKinds
    <3> QED BY <1>2, <2>2, <3>1 DEF Fields
  <2> QED BY <1>9, <2>1, <2>2 DEF CallHhBe
<1>10. CASE LinkAccount(r)
  <2>1. CASE Finish(r)
    BY <1>3, <1>10, <2>1 DEF LinkAccount
  <2>2. ASSUME NEW n, Goto(r, "convert", [loc[r] EXCEPT !.row = n]) PROVE Acts(r, RouteLabels) /\ RouteKinds'
    <3>1. pc[r] = "link" /\ DOMAIN loc[r] = Fields /\ loc[r].op = "promote"
      BY <1>10 DEF LinkAccount, RouteKinds
    <3> QED BY <1>2, <2>2, <3>1 DEF Fields
  <2> QED BY <1>10, <2>1, <2>2 DEF LinkAccount
<1>11. CASE ImportRow(r)
  <2>1. CASE Broken(r)
    BY <1>3, <1>11, <2>1 DEF ImportRow
  <2>2. ASSUME NEW n, Goto(r, "row", [loc[r] EXCEPT !.arg = n]) PROVE Acts(r, RouteLabels) /\ RouteKinds'
    <3>1. pc[r] = "row" /\ DOMAIN loc[r] = Fields /\ loc[r].op = "import"
      BY <1>11 DEF ImportRow, RouteKinds
    <3> QED BY <1>2, <2>2, <3>1 DEF Fields
  <2> QED BY <1>11, <2>1, <2>2 DEF ImportRow
<1> QED BY <1>4, <1>5, <1>6, <1>7, <1>8, <1>9, <1>10, <1>11,
      <1>12 DEF RoutesNext

\* Visits, signups and opt-outs.
LEMMA SignupActs ==
  ASSUME Placed, SignupKinds, NEW r \in Req, SignupNext(r)
  PROVE  Acts(r, SignupLabels) /\ SignupKinds'
<1> USE DEF SignupLabels, VisitLabels, VerifyLabels, Over
<1>1. ASSUME NEW label \in SignupLabels, NEW op, NEW p, NEW arg,
             Begin(r, label, Session(op, p, arg)),
             \A l : l.op = op /\ DOMAIN l = Fields /\ l.arg = arg => SignupKind(label, l)
      PROVE  Acts(r, SignupLabels) /\ SignupKinds'
  <2> DEFINE session == Session(op, p, arg)
  <2>1. Acts(r, SignupLabels) /\ pc'[r] = label /\ loc'[r] = session
    BY <1>1, BeginLaunches, LaunchActs
  <2>2. SignupKind(label, session)
    BY <1>1, SessionHolds
  <2> QED BY <2>1, <2>2 DEF SignupKinds, Acts
<1>2. ASSUME NEW label \in SignupLabels, NEW session, Goto(r, label, session),
             pc[r] \in SignupLabels, session.op = loc[r].op, SignupKind(label, session)
      PROVE  Acts(r, SignupLabels) /\ SignupKinds'
  <2>1. Acts(r, SignupLabels) /\ pc'[r] = label /\ loc'[r] = session
    BY <1>2, GotoActs
  <2> QED BY <1>2, <2>1 DEF SignupKinds, Acts
<1>3. ASSUME pc[r] \in SignupLabels, Finish(r) \/ Broken(r)
      PROVE  Acts(r, SignupLabels) /\ SignupKinds'
  <2>1. Acts(r, SignupLabels) /\ pc'[r] \in Over
    BY <1>3, EndActs
  <2> QED BY <2>1 DEF SignupKinds, SignupKind, Acts
\* A request that goes on with its session, or with another payload of the same fields.
<1>4. ASSUME NEW label \in SignupLabels, NEW arg, NEW s, Goto(r, label, s),
             s \in {loc[r], [loc[r] EXCEPT !.arg = arg]}, pc[r] \in SignupLabels,
             DOMAIN arg = DOMAIN loc[r].arg,
             \A l : l.op = loc[r].op /\ DOMAIN l = Fields /\ DOMAIN l.arg = DOMAIN loc[r].arg
                       => SignupKind(label, l)
      PROVE  Acts(r, SignupLabels) /\ SignupKinds'
  <2>1. DOMAIN loc[r] = Fields
    BY <1>4 DEF SignupKinds, SignupKind
  <2>2. s.op = loc[r].op /\ DOMAIN s = Fields /\ DOMAIN s.arg = DOMAIN loc[r].arg
    BY <1>4, <2>1 DEF Fields
  <2>3. SignupKind(label, s)
    BY <1>4, <2>2
  <2> QED BY <1>2, <1>4, <2>2, <2>3
<1>5. SignupKind(pc[r], loc[r])
  BY DEF SignupKinds
<1> USE DEF SignupKind
<1>11. CASE Visit(r) \/ SignUp(r)
  BY <1>1, <1>11 DEF Visit, SignUp
<1>12. CASE Resend(r) \/ Verify(r)
  BY <1>1, <1>12 DEF Resend, Verify
<1>13. CASE Erase(r) \/ OptOut(r)
  BY <1>1, <1>13 DEF Erase, OptOut
<1>14. CASE InsertVisit(r) \/ BumpPage(r) \/ BumpSignup(r)
  BY <1>4, <1>5, <1>14 DEF InsertVisit, BumpPage, BumpSignup
<1>15. CASE GetVariant(r)
  <2> DEFINE arg(n) == [loc[r].arg EXCEPT !.seen = n]
  <2>1. PICK n : Goto(r, "bump_variant", [loc[r] EXCEPT !.arg.seen = n]) /\ pc[r] = "get_variant"
    BY <1>15 DEF GetVariant
  <2>2. [loc[r] EXCEPT !.arg.seen = n] = [loc[r] EXCEPT !.arg = arg(n)]
    BY <1>5, <2>1 DEF Fields
  <2>3. DOMAIN arg(n) = DOMAIN loc[r].arg
    OBVIOUS
  <2> HIDE DEF arg
  <2> QED BY <1>4, <1>5, <2>1, <2>2, <2>3
<1>16. CASE BumpVariant(r)
  <2>1. pc[r] = "bump_variant" /\ (Finish(r) \/ Goto(r, "curious?", loc[r]))
    BY <1>16 DEF BumpVariant
  <2> QED BY <1>3, <1>4, <1>5, <2>1
<1>17. CASE GetVisitor(r)
  <2>1. pc[r] = "curious?"
    BY <1>17 DEF GetVisitor
  <2>2. ASSUME NEW p, Goto(r, "curious", Session("visit", p, None))
        PROVE  Acts(r, SignupLabels) /\ SignupKinds'
    BY <1>2, <1>5, <2>1, <2>2, SessionHolds
  <2> QED BY <1>3, <1>17, <2>1, <2>2 DEF GetVisitor
<1>18. CASE TurnCurious(r) \/ SendFirst(r) \/ SendAgain(r) \/ Register(r)
  BY <1>3, <1>18 DEF TurnCurious, SendFirst, SendAgain, Register
<1>19. CASE CommitErase(r) \/ NameLead(r)
  BY <1>3, <1>19 DEF CommitErase, NameLead
<1>20. CASE InsertSignup(r)
  <2> DEFINE arg(n) == [loc[r].arg EXCEPT !.sid = n]
  <2>1. PICK n : Goto(r, "send", [loc[r] EXCEPT !.arg.sid = n]) /\ pc[r] = "sign_up"
    BY <1>20 DEF InsertSignup
  <2>2. [loc[r] EXCEPT !.arg.sid = n] = [loc[r] EXCEPT !.arg = arg(n)]
    BY <1>5, <2>1 DEF Fields
  <2>3. DOMAIN arg(n) = DOMAIN loc[r].arg
    OBVIOUS
  <2> HIDE DEF arg
  <2> QED BY <1>4, <1>5, <2>1, <2>2, <2>3
<1>21. CASE MarkVerified(r)
  <2> DEFINE arg(p, v, n) == [loc[r].arg EXCEPT !.lead = p, !.variant = v, !.seen = n]
  <2>1. pc[r] = "check"
    BY <1>21 DEF MarkVerified
  <2>2. ASSUME NEW label \in {"find", "bump_signup"}, NEW p, NEW v, NEW n,
               Goto(r, label, [loc[r] EXCEPT !.arg = arg(p, v, n)])
        PROVE  Acts(r, SignupLabels) /\ SignupKinds'
    <3>1. DOMAIN arg(p, v, n) = DOMAIN loc[r].arg
      OBVIOUS
    <3> HIDE DEF arg
    <3> QED BY <1>4, <1>5, <2>1, <2>2, <3>1
  <2>3. \/ Finish(r) \/ Broken(r)
        \/ \E p, v, n : Goto(r, IF Latest = None THEN "find" ELSE "bump_signup",
                             [loc[r] EXCEPT !.arg = arg(p, v, n)])
    BY <1>21, Zenon DEF MarkVerified
  <2> HIDE DEF arg
  <2> QED BY <1>3, <2>1, <2>2, <2>3
<1>22. CASE FindLead(r)
  <2>1. pc[r] = "find"
    BY <1>22 DEF FindLead
  <2>2. ASSUME NEW p, Goto(r, "attach", Session("verify", p, loc[r].arg))
        PROVE  Acts(r, SignupLabels) /\ SignupKinds'
    BY <1>2, <1>5, <2>1, <2>2, SessionHolds
  <2>3. CASE Goto(r, "new_lead", loc[r])
    BY <1>4, <1>5, <2>1, <2>3
  <2> QED BY <1>3, <1>22, <2>1, <2>2, <2>3 DEF FindLead
<1>23. CASE NewLead(r)
  <2>1. PICK p, row : /\ pc[r] = "new_lead"
                      /\ Goto(r, "attach", [loc[r] EXCEPT !.lead = p, !.row = row])
    BY <1>23, Zenon DEF NewLead
  <2> DEFINE s == [loc[r] EXCEPT !.lead = p, !.row = row]
  <2>2. s.op = loc[r].op /\ DOMAIN s = Fields /\ s.arg = loc[r].arg
    BY <1>5, <2>1 DEF Fields
  <2> HIDE DEF s
  <2> QED BY <1>2, <1>5, <2>1, <2>2 DEF s
<1>24. CASE Attach(r)
  <2>1. pc[r] = "attach" /\ (Finish(r) \/ Broken(r) \/ Goto(r, "register", loc[r]))
    BY <1>24 DEF Attach
  <2> QED BY <1>3, <1>4, <1>5, <2>1
<1>25. CASE InsertOptOut(r)
  <2>1. pc[r] = "opt_out"
    BY <1>25 DEF InsertOptOut
  <2>2. ASSUME NEW p, Goto(r, "leave", Session("optout", p, loc[r].arg))
        PROVE  Acts(r, SignupLabels) /\ SignupKinds'
    BY <1>2, <1>5, <2>1, <2>2, SessionHolds
  <2> QED BY <1>3, <1>25, <2>1, <2>2 DEF InsertOptOut
<1>26. CASE LeaveFunnel(r)
  BY <1>4, <1>5, <1>26 DEF LeaveFunnel
<1> QED BY <1>11, <1>12, <1>13, <1>14, <1>15, <1>16, <1>17, <1>18, <1>19, <1>20, <1>21,
           <1>22, <1>23, <1>24, <1>25, <1>26 DEF SignupNext

\* Deliveries of the providers.
LEMMA WebhookActs ==
  ASSUME Placed, HookKinds, NEW r \in Req, WebhookNext(r)
  PROVE  Acts(r, HookLabels) /\ HookKinds'
<1> USE DEF HookLabels, Over
<1>1. ASSUME NEW op \in {"calendly", "apollo"}, NEW arg, arg.key \in DOMAIN Hooks,
             Begin(r, "receive", Session(op, None, arg))
      PROVE  Acts(r, HookLabels) /\ HookKinds'
  <2> DEFINE session == Session(op, None, arg)
  <2>1. Acts(r, HookLabels) /\ pc'[r] = "receive" /\ loc'[r] = session
    BY <1>1, BeginLaunches, LaunchActs
  <2>2. HookKind("receive", session)
    BY <1>1, SessionHolds DEF HookKind
  <2> QED BY <2>1, <2>2 DEF HookKinds, Acts
<1>2. ASSUME NEW label \in HookLabels, NEW session, Goto(r, label, session),
             pc[r] \in HookLabels, session.op = loc[r].op, HookKind(label, session)
      PROVE  Acts(r, HookLabels) /\ HookKinds'
  <2>1. Acts(r, HookLabels) /\ pc'[r] = label /\ loc'[r] = session
    BY <1>2, GotoActs
  <2> QED BY <1>2, <2>1 DEF HookKinds, Acts
<1>3. ASSUME pc[r] \in HookLabels, Finish(r) \/ Broken(r)
      PROVE  Acts(r, HookLabels) /\ HookKinds'
  <2>1. Acts(r, HookLabels) /\ pc'[r] \in Over
    BY <1>3, EndActs
  <2> QED BY <2>1 DEF HookKinds, HookKind, Acts
<1>4. HookKind(pc[r], loc[r])
  BY DEF HookKinds
<1>5. ASSUME NEW label \in HookLabels, Goto(r, label, loc[r]), pc[r] \in HookLabels
      PROVE  Acts(r, HookLabels) /\ HookKinds'
  BY <1>2, <1>4, <1>5 DEF HookKind
<1>6. CASE Deliver(r)
  BY <1>1, <1>6 DEF Deliver
<1>7. CASE Receive(r)
  <2>1. pc[r] = "receive"
    BY <1>7 DEF Receive
  <2>2. ASSUME NEW label \in HookLabels, NEW p,
               Goto(r, label, Session(loc[r].op, p, loc[r].arg))
        PROVE  Acts(r, HookLabels) /\ HookKinds'
    BY <1>2, <1>4, <2>1, <2>2, SessionHolds DEF HookKind
  <2>3. ASSUME Begun(r)
        PROVE  Acts(r, HookLabels) /\ HookKinds'
    BY <1>5, <2>1, <2>2, <2>3 DEF Begun
  <2> QED BY <1>3, <1>7, <2>1, <2>3 DEF Receive
<1>8. CASE Book(r) \/ LogEvent(r)
  BY <1>5, <1>8 DEF Book, LogEvent
<1>9. CASE AddContact(r)
  BY <1>3, <1>5, <1>9 DEF AddContact
<1>10. CASE FillBlanks(r)
  BY <1>3, <1>5, <1>10 DEF FillBlanks
<1>11. CASE MarkProcessed(r) \/ AuditApollo(r)
  BY <1>3, <1>5, <1>11 DEF MarkProcessed, AuditApollo
<1>12. CASE Fault(r) \/ MarkFailed(r)
  BY <1>3, <1>5, <1>12 DEF Fault, MarkFailed
<1> QED BY <1>6, <1>7, <1>8, <1>9, <1>10, <1>11, <1>12 DEF WebhookNext

Desk == Placed /\ Noticed /\ RouteKinds /\ SignupKinds /\ HookKinds

\* The components do not share labels, with each other or with who is done.
LEMMA LabelsApart ==
  /\ RouteLabels \cap SignupLabels = {} /\ RouteLabels \cap HookLabels = {}
  /\ SignupLabels \cap HookLabels = {}
  /\ RouteLabels \cap Over = {} /\ SignupLabels \cap Over = {} /\ HookLabels \cap Over = {}
BY DEF RouteLabels, SignupLabels, VisitLabels, VerifyLabels, HookLabels, Over

\* A step elsewhere leaves the kinds of a component's requests alone.
LEMMA KindsElsewhere ==
  /\ Elsewhere(RouteLabels) /\ RouteKinds => RouteKinds'
  /\ Elsewhere(SignupLabels) /\ SignupKinds => SignupKinds'
  /\ Elsewhere(HookLabels) /\ HookKinds => HookKinds'
<1>1. ASSUME Elsewhere(RouteLabels), RouteKinds PROVE RouteKinds'
  <2>1. ASSUME NEW r \in Req PROVE RouteKind(pc'[r], loc'[r])
    <3>1. CASE pc'[r] \in RouteLabels
      BY <1>1, <3>1 DEF Elsewhere, RouteKinds
    <3>2. CASE pc'[r] \notin RouteLabels
      BY <3>2 DEF RouteKind, RouteLabels
    <3> QED BY <3>1, <3>2
  <2> QED BY <2>1 DEF RouteKinds
<1>2. ASSUME Elsewhere(SignupLabels), SignupKinds PROVE SignupKinds'
  <2>1. ASSUME NEW r \in Req PROVE SignupKind(pc'[r], loc'[r])
    <3>1. CASE pc'[r] \in SignupLabels
      BY <1>2, <3>1 DEF Elsewhere, SignupKinds
    <3>2. CASE pc'[r] \notin SignupLabels
      BY <3>2 DEF SignupKind, SignupLabels, VisitLabels, VerifyLabels
    <3> QED BY <3>1, <3>2
  <2> QED BY <2>1 DEF SignupKinds
<1>3. ASSUME Elsewhere(HookLabels), HookKinds PROVE HookKinds'
  <2>1. ASSUME NEW r \in Req PROVE HookKind(pc'[r], loc'[r])
    <3>1. CASE pc'[r] \in HookLabels
      BY <1>3, <3>1 DEF Elsewhere, HookKinds
    <3>2. CASE pc'[r] \notin HookLabels
      BY <3>2 DEF HookKind
    <3> QED BY <3>1, <3>2
  <2> QED BY <2>1 DEF HookKinds
<1> QED BY <1>1, <1>2, <1>3

\* A restart is nobody's step.
LEMMA RestartElsewhere ==
  ASSUME Placed, Noticed, Restart, NEW labels, labels \cap Over = {}
  PROVE  Elsewhere(labels) /\ Placed' /\ Noticed'
<1>1. PICK lost \in SUBSET Active :
         /\ pc' = [q \in Req |-> IF q \in lost THEN "error" ELSE pc[q]]
         /\ loc' = [q \in Req |-> IF q \in lost THEN Idle ELSE loc[q]]
         /\ died' = died \cup {"worker"} \cup {loc[q].op : q \in lost} /\ met' = met
  BY DEF Restart
<1>2. \A q \in Req : IF q \in lost THEN pc'[q] = "error" /\ loc[q].op \in died'
                    ELSE pc'[q] = pc[q] /\ loc'[q] = loc[q]
  BY <1>1
<1>3. Elsewhere(labels)
  BY <1>1, <1>2 DEF Elsewhere, Over
<1>4. \A q \in Active' : q \in Active /\ loc'[q] = loc[q]
  BY <1>2 DEF Active, Over
<1>5. Placed'
  BY <1>1 DEF Placed
<1>6. met' = met
  BY <1>1
<1>7. Noticed'
  BY <1>4, <1>6 DEF Noticed, Met
<1> QED BY <1>3, <1>5, <1>7

\* Every step of the desk, seen from each component: one of its own requests acts,
\* or its requests stay where they are but for those that die.
Steps ==
  /\ Desk'
  /\ \/ \E r \in Req : RoutesNext(r) /\ Acts(r, RouteLabels)
     \/ Elsewhere(RouteLabels) /\ UNCHANGED routes
  /\ \/ \E r \in Req : SignupNext(r) /\ Acts(r, SignupLabels)
     \/ Elsewhere(SignupLabels) /\ (CoolDown \/ Restart \/ UNCHANGED public)
  /\ \/ \E r \in Req : WebhookNext(r) /\ Acts(r, HookLabels)
     \/ Elsewhere(HookLabels) /\ UNCHANGED hooks

\* What a step of the specification comes to.
LEMMA NextSteps ==
  ASSUME Desk, [Next]_vars
  PROVE  Steps
<1> USE LabelsApart
<1> USE DEF Desk
<1>1. ASSUME NEW r \in Req, RoutesNext(r), UNCHANGED <<public, hooks>> PROVE Steps
  <2>1. Acts(r, RouteLabels) /\ RouteKinds'
    BY <1>1, RoutesActs
  <2>2. Placed' /\ Noticed'
    BY <2>1, ActsNoticed
  <2>3. Elsewhere(SignupLabels) /\ Elsewhere(HookLabels)
    BY <2>1, ActsElsewhere
  <2> QED BY <1>1, <2>1, <2>2, <2>3, KindsElsewhere DEF Steps
<1>2. ASSUME NEW r \in Req, SignupNext(r), UNCHANGED <<routes, hooks>> PROVE Steps
  <2>1. Acts(r, SignupLabels) /\ SignupKinds'
    BY <1>2, SignupActs
  <2>2. Placed' /\ Noticed'
    BY <2>1, ActsNoticed
  <2>3. Elsewhere(RouteLabels) /\ Elsewhere(HookLabels)
    BY <2>1, ActsElsewhere
  <2> QED BY <1>2, <2>1, <2>2, <2>3, KindsElsewhere DEF Steps
<1>3. ASSUME NEW r \in Req, WebhookNext(r), UNCHANGED <<routes, public>> PROVE Steps
  <2>1. Acts(r, HookLabels) /\ HookKinds'
    BY <1>3, WebhookActs
  <2>2. Placed' /\ Noticed'
    BY <2>1, ActsNoticed
  <2>3. Elsewhere(RouteLabels) /\ Elsewhere(SignupLabels)
    BY <2>1, ActsElsewhere
  <2> QED BY <1>3, <2>1, <2>2, <2>3, KindsElsewhere DEF Steps
<1>4. ASSUME NEW r \in Req, Abort(r), UNCHANGED <<routes, public, hooks>> PROVE Steps
  <2>1. Elsewhere(RouteLabels) /\ Elsewhere(SignupLabels) /\ Elsewhere(HookLabels)
    BY <1>4, AbortElsewhere
  <2>2. Placed' /\ Noticed'
    BY <1>4, AbortNoticed
  <2> QED BY <1>4, <2>1, <2>2, KindsElsewhere DEF Steps
<1>5. ASSUME CoolDown \/ Restart, UNCHANGED <<routes, hooks>> PROVE Steps
  <2>1. CASE CoolDown
    <3>1. UNCHANGED desk
      BY <2>1 DEF CoolDown
    <3>2. Elsewhere(RouteLabels) /\ Elsewhere(SignupLabels) /\ Elsewhere(HookLabels)
          /\ Placed' /\ Noticed'
      BY <3>1, IdleElsewhere
    <3> QED BY <1>5, <2>1, <3>2, KindsElsewhere DEF Steps
  <2>2. CASE Restart
    <3>1. Elsewhere(RouteLabels) /\ Elsewhere(SignupLabels) /\ Elsewhere(HookLabels)
          /\ Placed' /\ Noticed'
      BY <2>2, RestartElsewhere
    <3> QED BY <1>5, <2>2, <3>1, KindsElsewhere DEF Steps
  <2> QED BY <1>5, <2>1, <2>2
<1>6. ASSUME UNCHANGED vars PROVE Steps
  <2>1. UNCHANGED desk /\ UNCHANGED <<routes, public, hooks>>
    BY <1>6 DEF vars
  <2>2. Elsewhere(RouteLabels) /\ Elsewhere(SignupLabels) /\ Elsewhere(HookLabels)
        /\ Placed' /\ Noticed'
    BY <2>1, IdleElsewhere
  <2> QED BY <2>1, <2>2, KindsElsewhere DEF Steps
<1> QED BY <1>1, <1>2, <1>3, <1>4, <1>5, <1>6 DEF Next, Quiet

\* The desk at the start.
LEMMA DeskStarts == Init => Desk
<1> SUFFICES ASSUME Init PROVE Desk
  OBVIOUS
<1>1. DeskInit
  BY DEF Init, LeadInit
<1>2. \A r \in Req : pc[r] = "idle"
  BY <1>1 DEF DeskInit
<1>3. RouteKinds /\ SignupKinds /\ HookKinds
  BY <1>2 DEF RouteKinds, SignupKinds, HookKinds, RouteKind, SignupKind, HookKind,
     RouteLabels, SignupLabels, VisitLabels, VerifyLabels, HookLabels
<1> QED BY <1>1, <1>3, DeskBegins DEF Desk

-----------------------------------------------------------------------------
(***************************************************************************)
(* Deliveries of Calendly and Apollo.                                      *)
(***************************************************************************)
Applying == {"book", "event", "add", "fill"}
Admitted == Applying \cup {"processed", "audit", "failed"}

\* A request is at one of these places with the delivery k.
Works(at, l, labels, k) == at \in labels /\ l.arg.key = k

\* A delivery that was never marked failed is let in once: its row is there from
\* then on, no second request gets past it, and it is not applied before.
Single(k) ==
    /\ applied[k] \in {0, 1} /\ delivery[k] # "failed"
    /\ \A r \in Req :
          /\ Works(pc[r], loc[r], {"receive"}, k) => loc[r].arg.seen # "failed"
          /\ Works(pc[r], loc[r], Applying, k) => applied[k] = 0
          /\ Works(pc[r], loc[r], Admitted, k) => delivery[k] # "none"
    /\ delivery[k] = "none" => applied[k] = 0
    /\ \A q, r \in Req :
          Works(pc[q], loc[q], Admitted, k) /\ Works(pc[r], loc[r], Admitted, k) => q = r
HookInv ==
    /\ DOMAIN delivery = DOMAIN Hooks /\ DOMAIN applied = DOMAIN Hooks
    /\ \A k \in DOMAIN Hooks : k \notin failures => Single(k)

\* A step of r that goes on with its delivery and leaves the rows alone.
LEMMA HookGoesOn ==
  ASSUME HookInv, NEW r \in Req, Acts(r, HookLabels),
         UNCHANGED <<delivery, applied, failures>>,
         pc'[r] \in HookLabels => loc'[r].arg = loc[r].arg,
         pc'[r] = "receive" => pc[r] = "receive",
         pc'[r] \in Applying => pc[r] \in Applying,
         pc'[r] \in Admitted => pc[r] \in Admitted
  PROVE  HookInv'
<1> SUFFICES ASSUME NEW k \in DOMAIN Hooks, k \notin failures PROVE Single(k)'
  BY DEF HookInv
<1>1. Single(k)
  BY DEF HookInv
<1>2. \A q \in Req \ {r} : pc'[q] = pc[q] /\ loc'[q] = loc[q]
  BY DEF Acts
<1>3. \A labels \in {{"receive"}, Applying, Admitted}, q \in Req :
         Works(pc'[q], loc'[q], labels, k) =>
            Works(pc[q], loc[q], labels, k) /\ loc'[q].arg = loc[q].arg
  BY <1>2 DEF Works, HookLabels, Applying, Admitted
<1> QED BY <1>1, <1>3 DEF Single

\* Each step of a delivery.
LEMMA HookStep ==
  ASSUME HookInv, HookKinds, HookKinds', NEW r \in Req, WebhookNext(r), Acts(r, HookLabels),
         Placed
  PROVE  HookInv'
<1>1. \A q \in Req \ {r} : pc'[q] = pc[q] /\ loc'[q] = loc[q]
  BY DEF Acts
<1>2. HookKind(pc[r], loc[r])
  BY DEF HookKinds
<1>3. r \in DOMAIN pc /\ r \in DOMAIN loc
  BY DEF Placed
<1>4. CASE Deliver(r)
  <2>1. PICK k \in DOMAIN Hooks :
             /\ delivery[k] \in {"none", "failed"}
             /\ Begin(r, "receive", Session(IF Hooks[k].kind = "contact" THEN "apollo"
                                            ELSE "calendly",
                                            None, [key |-> k, seen |-> delivery[k]]))
             /\ UNCHANGED hooks
    BY <1>4 DEF Deliver
  <2>2. PICK op : Begin(r, "receive", Session(op, None, [key |-> k, seen |-> delivery[k]]))
    BY <2>1
  <2>3. pc'[r] = "receive" /\ loc'[r].arg = [key |-> k, seen |-> delivery[k]]
    BY <1>3, <2>2, BeginLaunches, SessionHolds DEF Launch
  <2>4. UNCHANGED <<delivery, applied, failures>>
    BY <2>1 DEF hooks
  <2> SUFFICES ASSUME NEW j \in DOMAIN Hooks, j \notin failures PROVE Single(j)'
    BY <2>4 DEF HookInv
  <2>5. Single(j)
    BY DEF HookInv
  <2>6. \A labels \in {Applying, Admitted}, q \in Req :
           Works(pc'[q], loc'[q], labels, j) => Works(pc[q], loc[q], labels, j)
    BY <1>1, <2>3 DEF Works, Applying, Admitted
  <2>7. \A q \in Req : Works(pc'[q], loc'[q], {"receive"}, j) => loc'[q].arg.seen # "failed"
    BY <1>1, <2>3, <2>5 DEF Works, Single
  <2> QED BY <2>4, <2>5, <2>6, <2>7 DEF Single
<1>5. CASE Receive(r)
  <2> DEFINE k == loc[r].arg.key
  <2>1. pc[r] = "receive" /\ UNCHANGED <<applied, failures>> /\ k \in DOMAIN Hooks
    BY <1>2, <1>5 DEF Receive, HookKind, HookLabels
  <2>2. CASE Broken(r) /\ UNCHANGED delivery
    BY <1>3, <2>1, <2>2, HookGoesOn DEF Broken, Goto, HookLabels, Applying, Admitted
  <2>3. ASSUME loc[r].arg.seen = "failed" \/ delivery[k] = "none",
               delivery' = [delivery EXCEPT ![k] = "received"], Begun(r)
        PROVE  HookInv'
    <3>1. pc'[r] \in Admitted /\ loc'[r].arg = loc[r].arg
      <4>1. ASSUME NEW label \in Admitted, NEW p,
                   Goto(r, label, loc[r]) \/ Goto(r, label, Session(loc[r].op, p, loc[r].arg))
            PROVE  pc'[r] \in Admitted /\ loc'[r].arg = loc[r].arg
        BY <1>3, <4>1, SessionHolds DEF Goto
      <4> QED BY <2>3, <4>1 DEF Begun, Admitted, Applying
    <3>2. DOMAIN delivery' = DOMAIN Hooks
      BY <2>3 DEF HookInv
    <3> SUFFICES ASSUME NEW j \in DOMAIN Hooks, j \notin failures PROVE Single(j)'
      BY <2>1, <3>2 DEF HookInv
    <3>3. Single(j)
      BY DEF HookInv
    <3>4. CASE j = k
      <4>1. delivery[k] = "none" /\ delivery'[k] = "received"
        BY <2>1, <2>3, <3>3, <3>4 DEF Single, HookInv, Works
      <4>2. applied[k] = 0 /\ \A q \in Req : ~Works(pc[q], loc[q], Admitted, k)
        BY <3>3, <3>4, <4>1 DEF Single
      <4>3. \A q \in Req : Works(pc'[q], loc'[q], Admitted, k) => q = r
        BY <1>1, <4>2
      <4>4. \A q \in Req : Works(pc'[q], loc'[q], {"receive"}, k) =>
                 Works(pc[q], loc[q], {"receive"}, k) /\ loc'[q].arg = loc[q].arg
        BY <1>1, <3>1 DEF Works, Admitted, Applying
      <4> HIDE DEF k
      <4> QED BY <2>1, <3>3, <3>4, <4>1, <4>2, <4>3, <4>4 DEF Single
    <3>5. CASE j # k
      <4>1. delivery'[j] = delivery[j]
        BY <2>3, <3>5 DEF HookInv
      <4>2. \A labels \in {{"receive"}, Applying, Admitted}, q \in Req :
               Works(pc'[q], loc'[q], labels, j) =>
                  Works(pc[q], loc[q], labels, j) /\ loc'[q] = loc[q]
        BY <1>1, <3>1, <3>5 DEF Works
      <4> QED BY <2>1, <3>3, <4>1, <4>2 DEF Single
    <3> QED BY <3>4, <3>5
  <2> QED BY <1>5, <2>2, <2>3 DEF Receive
<1>6. CASE Book(r)
  BY <1>3, <1>6, HookGoesOn DEF Book, Goto, hooks, HookLabels, Applying, Admitted
<1>7. ASSUME pc[r] \in Applying, Apply(r), Goto(r, "processed", loc[r]),
             UNCHANGED <<delivery, failures>>
      PROVE  HookInv'
  <2> DEFINE k == loc[r].arg.key
  <2>1. pc'[r] = "processed" /\ loc'[r] = loc[r]
    BY <1>3, <1>7 DEF Goto
  <2>2. /\ DOMAIN applied' = DOMAIN Hooks
        /\ \A j \in DOMAIN Hooks : applied'[j] = IF j = k THEN applied[j] + 1 ELSE applied[j]
    BY <1>7 DEF Apply, HookInv
  <2> SUFFICES ASSUME NEW j \in DOMAIN Hooks, j \notin failures PROVE Single(j)'
    BY <1>7, <2>2 DEF HookInv
  <2>3. Single(j)
    BY DEF HookInv
  <2>4. \A labels \in {{"receive"}, Applying, Admitted}, q \in Req :
           Works(pc'[q], loc'[q], labels, j) =>
              Works(pc[q], loc[q], labels, j) /\ loc'[q] = loc[q]
    BY <1>1, <1>7, <2>1 DEF Works, Applying, Admitted
  <2>5. CASE j = k
    <3>1. Works(pc[r], loc[r], Applying, j) /\ Works(pc[r], loc[r], Admitted, j)
      BY <1>7, <2>5 DEF Works, Admitted
    <3>2. applied[j] = 0 /\ applied'[j] = 1 /\ delivery[j] # "none"
      BY <2>2, <2>3, <2>5, <3>1 DEF Single
    <3>3. \A q \in Req : Works(pc'[q], loc'[q], Applying, j) => FALSE
      <4>1. \A q \in Req : Works(pc[q], loc[q], Applying, j) => q = r
        BY <2>3, <3>1 DEF Single, Works, Admitted
      <4> QED BY <2>1, <2>4, <4>1 DEF Works, Applying
    <3> HIDE DEF k
    <3> QED BY <1>7, <2>3, <2>4, <3>2, <3>3 DEF Single
  <2>6. CASE j # k
    <3>1. applied'[j] = applied[j]
      BY <2>2, <2>6
    <3> QED BY <1>7, <2>3, <2>4, <3>1 DEF Single
  <2> QED BY <2>5, <2>6
<1>8. CASE LogEvent(r)
  BY <1>7, <1>8 DEF LogEvent, Applying
<1>9. ASSUME pc[r] \in Applying, Broken(r), UNCHANGED <<delivery, applied, failures>>
      PROVE  HookInv'
  BY <1>3, <1>9, HookGoesOn DEF Broken, Goto, HookLabels, Applying, Admitted
<1>10. CASE AddContact(r)
  BY <1>7, <1>9, <1>10 DEF AddContact, Applying
<1>11. CASE FillBlanks(r)
  BY <1>7, <1>9, <1>11 DEF FillBlanks, Applying
<1>12. CASE MarkProcessed(r)
  <2> DEFINE k == loc[r].arg.key
  <2>1. pc[r] = "processed" /\ UNCHANGED <<applied, failures>>
        /\ delivery' = [delivery EXCEPT ![k] = "processed"]
        /\ (Goto(r, "audit", loc[r]) \/ Finish(r))
    BY <1>12 DEF MarkProcessed
  <2>2. pc'[r] \in {"audit", "done"} /\ (pc'[r] = "audit" => loc'[r] = loc[r])
    BY <1>3, <2>1 DEF Goto, Finish
  <2>3. /\ DOMAIN delivery' = DOMAIN Hooks
        /\ \A j \in DOMAIN Hooks : delivery'[j] = IF j = k THEN "processed" ELSE delivery[j]
    BY <2>1 DEF HookInv
  <2> SUFFICES ASSUME NEW j \in DOMAIN Hooks, j \notin failures PROVE Single(j)'
    BY <2>1, <2>3 DEF HookInv
  <2>4. Single(j)
    BY DEF HookInv
  <2>5. \A labels \in {{"receive"}, Applying, Admitted}, q \in Req :
           Works(pc'[q], loc'[q], labels, j) =>
              Works(pc[q], loc[q], labels, j) /\ loc'[q] = loc[q]
    BY <1>1, <2>1, <2>2 DEF Works, Applying, Admitted
  <2> QED BY <2>1, <2>3, <2>4, <2>5 DEF Single
<1>13. CASE AuditApollo(r)
  BY <1>3, <1>13, HookGoesOn DEF AuditApollo, Finish, Goto, hooks, HookLabels, Applying, Admitted
<1>14. CASE Fault(r)
  BY <1>3, <1>14, HookGoesOn DEF Fault, Goto, HookLabels, Applying, Admitted
<1>15. CASE MarkFailed(r)
  <2> DEFINE k == loc[r].arg.key
  <2>1. /\ pc[r] = "failed" /\ applied' = applied /\ failures' = failures \cup {k}
        /\ delivery' = [delivery EXCEPT ![k] = "failed"]
        /\ pc'[r] = "done"
    BY <1>3, <1>15 DEF MarkFailed, Finish, Goto
  <2>2. /\ DOMAIN delivery' = DOMAIN Hooks
        /\ \A j \in DOMAIN Hooks : j # k => delivery'[j] = delivery[j]
    BY <2>1 DEF HookInv
  <2> SUFFICES ASSUME NEW j \in DOMAIN Hooks, j \notin failures' PROVE Single(j)'
    BY <2>1, <2>2 DEF HookInv
  <2>3. Single(j) /\ delivery'[j] = delivery[j]
    BY <2>1, <2>2 DEF HookInv
  <2>4. \A labels \in {{"receive"}, Applying, Admitted}, q \in Req :
           Works(pc'[q], loc'[q], labels, j) =>
              Works(pc[q], loc[q], labels, j) /\ loc'[q] = loc[q]
    BY <1>1, <2>1 DEF Works, Applying, Admitted
  <2> QED BY <2>1, <2>3, <2>4 DEF Single
<1> QED BY <1>4, <1>5, <1>6, <1>8, <1>10, <1>11, <1>12, <1>13, <1>14, <1>15 DEF WebhookNext

\* A step elsewhere.
LEMMA HookElsewhere ==
  ASSUME HookInv, Elsewhere(HookLabels), UNCHANGED hooks
  PROVE  HookInv'
<1>1. UNCHANGED <<delivery, applied, failures>>
  BY DEF hooks
<1> SUFFICES ASSUME NEW k \in DOMAIN Hooks, k \notin failures PROVE Single(k)'
  BY <1>1 DEF HookInv
<1>2. Single(k)
  BY DEF HookInv
<1>3. \A labels \in {{"receive"}, Applying, Admitted}, q \in Req :
         Works(pc'[q], loc'[q], labels, k) =>
            Works(pc[q], loc[q], labels, k) /\ loc'[q] = loc[q]
  BY DEF Works, Elsewhere, HookLabels, Applying, Admitted
<1> QED BY <1>1, <1>2, <1>3 DEF Single

\* The ledger at the start.
LEMMA HookStarts == Init => HookInv
<1> SUFFICES ASSUME Init PROVE HookInv
  OBVIOUS
<1>1. \A r \in Req : pc[r] = "idle"
  BY DEF Init, LeadInit, DeskInit
<1>2. /\ DOMAIN delivery = DOMAIN Hooks /\ DOMAIN applied = DOMAIN Hooks
      /\ \A k \in DOMAIN Hooks : applied[k] = 0 /\ delivery[k] = "none"
  BY DEF Init, WebhookInit
<1> QED BY <1>1, <1>2 DEF HookInv, Single, Works, Applying, Admitted

\* A provider's delivery is applied once, however often it is sent and whichever of
\* its attempts die, unless one was marked failed (webhook_deliveries/crud.py record
\* and mark_failed, webhooks/routes.py).
THEOREM HookAppliedOnceHolds == Spec => []HookAppliedOnce
<1>1. Init => Desk /\ HookInv
  BY DeskStarts, HookStarts
<1>2. Desk /\ HookInv /\ [Next]_vars => (Desk /\ HookInv)'
  <2> SUFFICES ASSUME Desk, HookInv, [Next]_vars PROVE (Desk /\ HookInv)'
    OBVIOUS
  <2>1. Steps
    BY NextSteps
  <2>2. CASE Elsewhere(HookLabels) /\ UNCHANGED hooks
    BY <2>1, <2>2, HookElsewhere DEF Steps
  <2>3. ASSUME NEW r \in Req, WebhookNext(r), Acts(r, HookLabels) PROVE HookInv'
    BY <2>1, <2>3, HookStep DEF Steps, Desk
  <2> QED BY <2>1, <2>2, <2>3 DEF Steps
<1>3. HookInv => HookAppliedOnce
  BY DEF HookInv, HookAppliedOnce, Single
<1> QED BY <1>1, <1>2, <1>3, PTL DEF Spec

-----------------------------------------------------------------------------
(***************************************************************************)
(* The signups table.                                                      *)
(***************************************************************************)
SignupFields == {"state", "email", "verified", "lead"}
SignupTyped ==
    /\ DOMAIN signup = Sid
    /\ \A s \in Sid : DOMAIN signup[s] = SignupFields

\* The rows that are free stay free, and no row becomes free.
FreeKept == \A s \in Sid : signup'[s].state = "free" <=> signup[s].state = "free"

\* A signup takes the smallest free id.
LEMMA BlankTaken ==
  ASSUME SignupTyped, NEW r \in Req, InsertSignup(r)
  PROVE  LET s == Min(Blank) IN
         /\ s \in Blank /\ SignupTyped'
         /\ signup'[s] = NewSignup(loc[r].arg.email)
         /\ \A t \in Sid \ {s} : signup'[t] = signup[t]
<1>1. Blank \in SUBSET Nat /\ Blank # {}
  BY SignupAssumption DEF InsertSignup, Blank
<1> DEFINE s == Min(Blank)
<1>2. s \in Blank
  BY <1>1, Smallest
<1>3. signup' = [signup EXCEPT ![s] = NewSignup(loc[r].arg.email)]
  BY DEF InsertSignup
<1> HIDE DEF s
<1>4. DOMAIN NewSignup(loc[r].arg.email) = SignupFields
  BY DEF NewSignup, SignupFields
<1> QED BY <1>2, <1>3, <1>4 DEF SignupTyped, Blank, s

\* What verification, attachment and deletion write to one signup, or to some.
LEMMA SignupColumns ==
  ASSUME SignupTyped, NEW s \in Sid, NEW v,
         signup' \in {[signup EXCEPT ![s].verified = v], [signup EXCEPT ![s].lead = v]}
  PROVE  /\ SignupTyped'
         /\ \A t \in Sid : /\ signup'[t].state = signup[t].state
                           /\ signup'[t].email = signup[t].email
         /\ \A t \in Sid \ {s} : signup'[t] = signup[t]
         /\ signup' = [signup EXCEPT ![s].verified = v] =>
               signup'[s].verified = v /\ signup'[s].lead = signup[s].lead
         /\ signup' = [signup EXCEPT ![s].lead = v] =>
               signup'[s].lead = v /\ signup'[s].verified = signup[s].verified
BY DEF SignupTyped, SignupFields

\* A deletion takes open signups away.
LEMMA SignupsErased ==
  ASSUME SignupTyped, NEW r \in Req, CommitErase(r)
  PROVE  /\ SignupTyped'
         /\ \A t \in Sid : \/ signup'[t] = signup[t]
                           \/ /\ signup[t].state = "open" /\ signup'[t].state = "gone"
                              /\ signup'[t].lead = signup[t].lead
                              /\ signup'[t].email = signup[t].email
<1> DEFINE Same(row) == /\ row.state = "open" /\ row.lead = loc[r].lead
                        /\ loc[r].lead = None => row.email = loc[r].arg.email
<1>1. signup' = [s \in Sid |-> IF Same(signup[s]) THEN [signup[s] EXCEPT !.state = "gone"]
                               ELSE signup[s]]
  BY DEF CommitErase
<1>2. \A s \in Sid : Same(signup[s]) => signup[s].state = "open"
  OBVIOUS
<1> HIDE DEF Same
<1> QED BY <1>1, <1>2 DEF SignupTyped, SignupFields

\* No other action of a signup or of its neighbours frees or takes an id.
LEMMA SignupRows ==
  ASSUME SignupTyped, SignupKinds, NEW r \in Req, SignupNext(r), ~InsertSignup(r)
  PROVE  SignupTyped' /\ FreeKept
<1>1. ASSUME UNCHANGED signup PROVE SignupTyped' /\ FreeKept
  BY <1>1 DEF SignupTyped, FreeKept
<1>2. CASE MarkVerified(r)
  <2>1. UNCHANGED signup \/ \E s \in Sid : signup' = [signup EXCEPT ![s].verified = TRUE]
    BY <1>2 DEF MarkVerified, Open
  <2> QED BY <1>1, <2>1, SignupColumns DEF FreeKept
<1>3. CASE Attach(r)
  <2>1. UNCHANGED signup \/ \E s \in Sid : signup' = [signup EXCEPT ![s].lead = loc[r].lead]
    BY <1>3 DEF Attach, Open
  <2> QED BY <1>1, <2>1, SignupColumns DEF FreeKept
<1>4. CASE CommitErase(r)
  BY <1>4, SignupsErased DEF FreeKept
<1>5. CASE Visit(r) \/ SignUp(r) \/ Resend(r) \/ Verify(r) \/ Erase(r) \/ OptOut(r)
  BY <1>1, <1>5 DEF Visit, SignUp, Resend, Verify, Erase, OptOut, public, form
<1>6. CASE InsertVisit(r) \/ BumpPage(r) \/ GetVariant(r) \/ BumpVariant(r) \/ GetVisitor(r)
  BY <1>1, <1>6 DEF InsertVisit, BumpPage, GetVariant, BumpVariant, GetVisitor, public, form
<1>7. CASE TurnCurious(r) \/ SendFirst(r) \/ SendAgain(r) \/ BumpSignup(r) \/ FindLead(r)
  BY <1>1, <1>7 DEF TurnCurious, SendFirst, SendAgain, BumpSignup, FindLead, public, form
<1>8. CASE NewLead(r) \/ Register(r) \/ InsertOptOut(r) \/ LeaveFunnel(r) \/ NameLead(r)
  BY <1>1, <1>8 DEF NewLead, Register, InsertOptOut, LeaveFunnel, NameLead, public, form
<1> QED BY <1>2, <1>3, <1>4, <1>5, <1>6, <1>7, <1>8 DEF SignupNext

-----------------------------------------------------------------------------
(***************************************************************************)
(* One password a minute.                                                  *)
(***************************************************************************)
\* Requests that are about to send met, or a worker forgot its last sends.
SendsMet == Met("resend", "resend") \/ Met("signup", "resend") \/ "worker" \in died

\* The worker and the signup of a request that sends.
Place(l) == <<l.arg.worker, l.arg.sid>>
Sending(at, l, x) == at \in {"send", "resend"} /\ Place(l) = x

\* Of one signup at one worker, as long as no two that send met: until the worker notes a
\* send it heard of none, and whoever is about to send there is alone.
Quick(x) ==
    /\ x \notin cooling => sends[x].mailed = sends[x].unheard
    /\ sends[x].mailed <= sends[x].unheard + 1
    /\ signup[x[2]].state = "free" => x \notin cooling
    /\ \A r \in Req : Sending(pc[r], loc[r], x) =>
          sends[x].mailed = sends[x].unheard /\ signup[x[2]].state # "free"
    /\ \A q, r \in Req :
          Sending(pc[q], loc[q], x) /\ Sending(pc[r], loc[r], x) => q = r
SendsTyped ==
    /\ sends \in [Worker \X Sid -> [mailed : Nat, unheard : Nat]]
    /\ \A r \in Req : /\ pc[r] \in {"send", "resend"} => Place(loc[r]) \in Worker \X Sid
                      /\ pc[r] = "sign_up" => loc[r].arg.worker \in Worker
SendInv == SignupTyped /\ SendsTyped /\ (SendsMet \/ \A x \in Worker \X Sid : Quick(x))

\* What was met or died stays so.
LEMMA SendsMetStays ==
  ASSUME met \subseteq met', died \subseteq died', SendsMet
  PROVE  SendsMet'
BY DEF SendsMet, Met

\* A step of r that neither sends nor is about to.
LEMMA SendGoesOn ==
  ASSUME SendInv, NEW r \in Req, Acts(r, SignupLabels), SignupTyped', FreeKept,
         UNCHANGED <<sends, cooling>>, pc'[r] \notin {"send", "resend"},
         pc'[r] = "sign_up" => loc'[r].arg.worker \in Worker
  PROVE  SendInv'
<1>1. \A q \in Req : pc'[q] \in {"send", "resend"} => pc[q] = pc'[q] /\ loc[q] = loc'[q]
  BY DEF Acts
<1>2. \A q \in Req : pc'[q] = "sign_up" => loc'[q].arg.worker \in Worker
  BY DEF Acts, SendInv, SendsTyped
<1>3. SendsTyped'
  BY <1>1, <1>2 DEF SendInv, SendsTyped
<1>4. ASSUME NEW x \in Worker \X Sid, Quick(x) PROVE Quick(x)'
  <2>1. \A q \in Req : Sending(pc'[q], loc'[q], x) => Sending(pc[q], loc[q], x)
    BY <1>1 DEF Sending
  <2>2. /\ signup'[x[2]].state = "free" => signup[x[2]].state = "free"
        /\ signup[x[2]].state # "free" => signup'[x[2]].state # "free"
    BY DEF FreeKept
  <2> QED BY <1>4, <2>1, <2>2 DEF Quick
<1> QED BY <1>3, <1>4, SendsMetStays DEF SendInv, Acts

\* A step of r that sends, or fails to, or does not hear of it, and is done.
LEMMA SendDone ==
  ASSUME SendInv, NEW r \in Req, Acts(r, SignupLabels), Noticed, SignupKinds,
         UNCHANGED signup, pc[r] \in {"send", "resend"}, pc'[r] \in Over,
         \/ UNCHANGED <<sends, cooling>>
         \/ Unheard(Place(loc[r])) /\ cooling' = cooling
         \/ /\ Mailed(Place(loc[r])) \/ UNCHANGED sends
            /\ cooling' = cooling \cup {Place(loc[r])}
  PROVE  SendInv'
<1> DEFINE x == Place(loc[r])
<1>1. x \in Worker \X Sid
  BY DEF SendInv, SendsTyped
<1>2. \A q \in Req : pc'[q] \in {"send", "resend", "sign_up"} =>
         q # r /\ pc[q] = pc'[q] /\ loc[q] = loc'[q]
  BY DEF Acts, Over
<1> HIDE DEF x
<1>3. /\ sends' \in [Worker \X Sid -> [mailed : Nat, unheard : Nat]]
      /\ \A t \in Worker \X Sid : t # x => sends'[t] = sends[t]
      /\ \A t \in Worker \X Sid : t # x => (t \in cooling' <=> t \in cooling)
      /\ sends[x].mailed = sends[x].unheard =>
            /\ sends'[x].mailed <= sends'[x].unheard + 1
            /\ x \notin cooling' => sends'[x].mailed = sends'[x].unheard
  <2>1. sends \in [Worker \X Sid -> [mailed : Nat, unheard : Nat]]
    BY DEF SendInv, SendsTyped
  <2>2. CASE UNCHANGED <<sends, cooling>>
    BY <1>1, <2>1, <2>2
  <2>3. CASE Unheard(x) /\ cooling' = cooling
    BY <1>1, <2>1, <2>3 DEF Unheard
  <2>4. CASE Mailed(x) /\ cooling' = cooling \cup {x}
    BY <1>1, <2>1, <2>4 DEF Mailed
  <2>5. CASE UNCHANGED sends /\ cooling' = cooling \cup {x}
    BY <1>1, <2>1, <2>5
  <2> QED BY <2>2, <2>3, <2>4, <2>5 DEF x
<1>4. SendsTyped'
  BY <1>2, <1>3 DEF SendInv, SendsTyped
<1>5. SignupTyped'
  BY DEF SendInv, SignupTyped
<1>6. ASSUME NEW t \in Worker \X Sid, Quick(t) PROVE Quick(t)'
  <2>1. \A q \in Req : Sending(pc'[q], loc'[q], t) => q # r /\ Sending(pc[q], loc[q], t)
    BY <1>2 DEF Sending
  <2>2. CASE t = x
    <3>1. Sending(pc[r], loc[r], t)
      BY <2>2 DEF Sending, x
    <3>2. /\ sends[t].mailed = sends[t].unheard /\ signup[t[2]].state # "free"
          /\ \A q \in Req : ~Sending(pc'[q], loc'[q], t)
      BY <1>6, <2>1, <3>1 DEF Quick
    <3> QED BY <1>3, <2>2, <3>2 DEF Quick
  <2>3. CASE t # x
    BY <1>3, <1>6, <2>1, <2>3 DEF Quick
  <2> QED BY <2>2, <2>3
<1> QED BY <1>4, <1>5, <1>6, SendsMetStays DEF SendInv, Acts

\* Each step of a signup's request.
LEMMA SendStep ==
  ASSUME SendInv, Desk, Desk', NEW r \in Req, SignupNext(r), Acts(r, SignupLabels)
  PROVE  SendInv'
<1>1. \A q \in Req \ {r} : pc'[q] = pc[q] /\ loc'[q] = loc[q]
  BY DEF Acts
<1>2. SignupKind(pc[r], loc[r]) /\ r \in DOMAIN pc /\ r \in DOMAIN loc
  BY DEF SignupKinds, Desk, Placed
<1>3. CASE InsertSignup(r)
  <2> DEFINE s == Min(Blank)
             x == <<loc[r].arg.worker, s>>
  <2>1. /\ s \in Blank /\ SignupTyped' /\ signup'[s] = NewSignup(loc[r].arg.email)
        /\ \A t \in Sid \ {s} : signup'[t] = signup[t]
    BY <1>3, BlankTaken DEF SendInv
  <2>2. pc[r] = "sign_up" /\ UNCHANGED <<sends, cooling>>
        /\ Goto(r, "send", [loc[r] EXCEPT !.arg.sid = s])
    BY <1>3 DEF InsertSignup
  <2> HIDE DEF s
  <2>3. pc'[r] = "send" /\ Place(loc'[r]) = x
    BY <1>2, <2>2 DEF Goto, Place, SignupKind, SignupLabels, VisitLabels, VerifyLabels, Fields
  <2>4. /\ s \in Sid /\ signup[s].state = "free" /\ signup'[s].state = "open"
        /\ x \in Worker \X Sid
    BY <2>1, <2>2 DEF Blank, NewSignup, SendInv, SendsTyped
  <2>5. SendsTyped'
    BY <1>1, <2>2, <2>3, <2>4 DEF SendInv, SendsTyped
  <2>6. ASSUME NEW t \in Worker \X Sid, Quick(t) PROVE Quick(t)'
    <3>1. CASE t[2] = s
      <4>1. /\ sends[t].mailed = sends[t].unheard /\ t \notin cooling
            /\ \A q \in Req : ~Sending(pc[q], loc[q], t)
        BY <2>4, <2>6, <3>1 DEF Quick
      <4>2. \A q \in Req : Sending(pc'[q], loc'[q], t) => q = r
        BY <1>1, <4>1
      <4>3. sends[t].mailed <= sends[t].unheard + 1
        BY <2>6 DEF Quick
      <4> QED BY <2>2, <2>4, <3>1, <4>1, <4>2, <4>3 DEF Quick
    <3>2. CASE t[2] # s
      <4>1. \A q \in Req : Sending(pc'[q], loc'[q], t) => Sending(pc[q], loc[q], t)
        BY <1>1, <2>3, <3>2 DEF Sending
      <4>2. signup'[t[2]] = signup[t[2]]
        BY <2>1, <3>2
      <4> QED BY <2>2, <2>6, <4>1, <4>2 DEF Quick
    <3> QED BY <3>1, <3>2
  <2> QED BY <2>1, <2>5, <2>6, SendsMetStays DEF SendInv, Acts
<1>4. CASE Resend(r)
  <2>1. PICK s \in Open, w \in Worker :
           /\ <<w, s>> \notin cooling /\ UNCHANGED public
           /\ Begin(r, "resend", Session("resend", None, [sid |-> s, worker |-> w]))
    BY <1>4 DEF Resend
  <2> DEFINE x == <<w, s>>
  <2>2. /\ pc'[r] = "resend" /\ Place(loc'[r]) = x /\ loc'[r].op = "resend"
        /\ pc[r] = "idle"
    BY <1>2, <2>1, BeginLaunches, SessionHolds DEF Launch, Place
  <2>3. /\ s \in Sid /\ signup[s].state = "open" /\ UNCHANGED <<signup, sends, cooling>>
        /\ x \in Worker \X Sid
    BY <2>1 DEF Open, public, form
  <2>4. SignupTyped' /\ SendsTyped'
    BY <1>1, <2>2, <2>3 DEF SendInv, SendsTyped, SignupTyped
  <2>5. ASSUME ~SendsMet', NEW q \in Req \ {r} PROVE ~Sending(pc'[q], loc'[q], x)
    <3> SUFFICES ASSUME Sending(pc'[q], loc'[q], x) PROVE FALSE
      OBVIOUS
    <3>1. q \in Active' /\ r \in Active'
      BY <2>2 DEF Sending, Active, Over
    <3>2. {loc'[q].op, loc'[r].op} \in met'
      BY <3>1 DEF Desk, Noticed, Met
    <3>3. SignupKind(pc'[q], loc'[q])
      BY DEF Desk, SignupKinds
    <3>4. loc'[q].op \in {"signup", "resend"}
      BY <3>3 DEF SignupKind, Sending
    <3> QED BY <2>2, <2>5, <3>2, <3>4 DEF SendsMet, Met
  <2>6. ASSUME ~SendsMet', NEW t \in Worker \X Sid, Quick(t) PROVE Quick(t)'
    <3>1. CASE t = x
      <4>1. /\ sends[t].mailed = sends[t].unheard /\ t \notin cooling
            /\ signup[t[2]].state # "free"
        BY <2>1, <2>3, <2>6, <3>1 DEF Quick
      <4>2. \A q \in Req : Sending(pc'[q], loc'[q], t) => q = r
        BY <2>5, <2>6, <3>1
      <4>3. sends[t].mailed <= sends[t].unheard + 1
        BY <2>6 DEF Quick
      <4> QED BY <2>3, <4>1, <4>2, <4>3 DEF Quick
    <3>2. CASE t # x
      <4>1. \A q \in Req : Sending(pc'[q], loc'[q], t) => Sending(pc[q], loc[q], t)
        BY <1>1, <2>2, <3>2 DEF Sending
      <4> QED BY <2>3, <2>6, <4>1 DEF Quick
    <3> QED BY <3>1, <3>2
  <2> QED BY <2>4, <2>6, SendsMetStays DEF SendInv, Acts
<1>5. CASE SendFirst(r)
  BY <1>2, <1>5, SendDone DEF SendFirst, Place, Finish, Goto, Over, Desk
<1>6. CASE SendAgain(r)
  BY <1>2, <1>6, SendDone DEF SendAgain, Place, Finish, Broken, Goto, Over, Desk
<1>7. CASE ~InsertSignup(r) /\ ~Resend(r) /\ ~SendFirst(r) /\ ~SendAgain(r)
  <2>1. SignupTyped' /\ FreeKept
    BY <1>7, SignupRows DEF SendInv, Desk
  <2>2. /\ UNCHANGED <<sends, cooling>> /\ pc'[r] \notin {"send", "resend"}
        /\ pc'[r] = "sign_up" => loc'[r].arg.worker \in Worker
    <3>1. CASE Visit(r) \/ Verify(r) \/ Erase(r) \/ OptOut(r)
      <4>1. \E label \in {"visit", "check", "erase", "opt_out"} :
               \E session : Begin(r, label, session) /\ UNCHANGED public
        BY <3>1 DEF Visit, Verify, Erase, OptOut
      <4> QED BY <1>2, <4>1, BeginLaunches DEF Launch, public, form
    <3>2. CASE InsertVisit(r) \/ BumpPage(r) \/ GetVariant(r) \/ BumpVariant(r) \/ GetVisitor(r)
      BY <1>2, <3>2 DEF InsertVisit, BumpPage, GetVariant, BumpVariant, GetVisitor, public, form,
                        Goto, Finish
    <3>3. CASE TurnCurious(r) \/ BumpSignup(r) \/ FindLead(r) \/ NewLead(r) \/ Register(r)
      BY <1>2, <3>3 DEF TurnCurious, BumpSignup, FindLead, NewLead, Register, public, form,
                        Goto, Finish
    <3>4. CASE MarkVerified(r)
      BY <1>2, <3>4 DEF MarkVerified, Goto, Finish, Broken
    <3>5. CASE Attach(r) \/ CommitErase(r)
      BY <1>2, <3>5 DEF Attach, CommitErase, Goto, Finish, Broken
    <3>6. CASE InsertOptOut(r) \/ LeaveFunnel(r) \/ NameLead(r)
      BY <1>2, <3>6 DEF InsertOptOut, LeaveFunnel, NameLead, Goto, Finish, Broken, public, form
    <3>7. CASE SignUp(r)
      <4>1. PICK e \in FormEmails, w \in Worker :
               /\ Begin(r, "sign_up",
                        Session("signup", None, [email |-> e, sid |-> None, worker |-> w]))
               /\ UNCHANGED public
        BY <3>7 DEF SignUp
      <4> QED BY <1>2, <4>1, BeginLaunches, SessionHolds DEF Launch, public, form
    <3> QED BY <1>7, <3>1, <3>2, <3>3, <3>4, <3>5, <3>6, <3>7 DEF SignupNext
  <2> QED BY <2>1, <2>2, SendGoesOn
<1> QED BY <1>3, <1>4, <1>5, <1>6, <1>7

\* A step elsewhere, the passing of a minute, and a restart.
LEMMA SendElsewhere ==
  ASSUME SendInv, Elsewhere(SignupLabels), CoolDown \/ Restart \/ UNCHANGED public
  PROVE  SendInv'
<1>1. \A q \in Req : pc'[q] \in {"send", "resend", "sign_up"} => pc[q] = pc'[q] /\ loc[q] = loc'[q]
  BY DEF Elsewhere, SignupLabels
<1>2. \A x \in Worker \X Sid, q \in Req :
         Sending(pc'[q], loc'[q], x) => Sending(pc[q], loc[q], x)
  BY <1>1 DEF Sending
<1>3. SignupTyped' /\ UNCHANGED signup
  BY DEF SendInv, SignupTyped, CoolDown, Restart, public, form
<1>4. met \subseteq met' /\ died \subseteq died'
  BY DEF Elsewhere
<1>5. CASE UNCHANGED <<sends, cooling>>
  <2>1. SendsTyped'
    BY <1>1, <1>5 DEF SendInv, SendsTyped
  <2>2. ASSUME NEW x \in Worker \X Sid, Quick(x) PROVE Quick(x)'
    BY <1>2, <1>3, <1>5, <2>2 DEF Quick
  <2> QED BY <1>3, <1>4, <2>1, <2>2, SendsMetStays DEF SendInv
<1>6. CASE CoolDown
  <2>1. PICK x \in cooling : cooling' = cooling \ {x} /\ sends' = [sends EXCEPT ![x] = NoSends]
    BY <1>6 DEF CoolDown
  <2>2. /\ sends' \in [Worker \X Sid -> [mailed : Nat, unheard : Nat]]
        /\ \A t \in Worker \X Sid : sends'[t] = IF t = x THEN NoSends ELSE sends[t]
    BY <2>1 DEF SendInv, SendsTyped, NoSends
  <2>3. SendsTyped'
    BY <1>1, <2>2 DEF SendInv, SendsTyped
  <2>4. ASSUME NEW t \in Worker \X Sid, Quick(t) PROVE Quick(t)'
    <3>1. CASE t = x
      BY <1>2, <1>3, <2>1, <2>2, <2>4, <3>1 DEF Quick, NoSends
    <3>2. CASE t # x
      BY <1>2, <1>3, <2>1, <2>2, <2>4, <3>2 DEF Quick
    <3> QED BY <3>1, <3>2
  <2> QED BY <1>3, <1>4, <2>3, <2>4, SendsMetStays DEF SendInv
<1>7. CASE Restart
  <2>1. "worker" \in died' /\ sends' = sends
    BY <1>7 DEF Restart
  <2> QED BY <1>1, <1>3, <2>1 DEF SendInv, SendsTyped, SendsMet
<1> QED BY <1>5, <1>6, <1>7 DEF public, form

\* The form at the start.
LEMMA SendStarts == Init => SendInv
<1> SUFFICES ASSUME Init PROVE SendInv
  OBVIOUS
<1>1. \A r \in Req : pc[r] = "idle"
  BY DEF Init, LeadInit, DeskInit
<1>2. signup = Start /\ cooling = {} /\ sends = [x \in Worker \X Sid |-> NoSends]
  BY DEF Init, SignupInit
<1>3. SignupTyped
  BY <1>2, StartAssumption DEF SignupTyped, SignupFields, NewSignup
<1>4. SendsTyped
  BY <1>1, <1>2 DEF SendsTyped, NoSends
<1>5. \A x \in Worker \X Sid : Quick(x)
  BY <1>1, <1>2 DEF Quick, Sending, NoSends
<1> QED BY <1>3, <1>4, <1>5 DEF SendInv

\* A worker mails a signup one password a minute, and one more for each whose answer was
\* lost, unless two requests that send overlapped or a worker forgot its last sends
\* (signups/routes.py resend_otp, _RESEND_TS).
THEOREM OneSendAMinuteHolds == Spec => []OneSendAMinute
<1>1. Init => Desk /\ SendInv
  BY DeskStarts, SendStarts
<1>2. Desk /\ SendInv /\ [Next]_vars => (Desk /\ SendInv)'
  <2> SUFFICES ASSUME Desk, SendInv, [Next]_vars PROVE (Desk /\ SendInv)'
    OBVIOUS
  <2>1. Steps
    BY NextSteps
  <2>2. CASE Elsewhere(SignupLabels) /\ (CoolDown \/ Restart \/ UNCHANGED public)
    BY <2>1, <2>2, SendElsewhere DEF Steps
  <2>3. ASSUME NEW r \in Req, SignupNext(r), Acts(r, SignupLabels) PROVE SendInv'
    BY <2>1, <2>3, SendStep DEF Steps
  <2> QED BY <2>1, <2>2, <2>3 DEF Steps
<1>3. SendInv => OneSendAMinute
  <2> SUFFICES ASSUME SendInv, NEW x \in Worker \X Sid, sends[x].mailed > sends[x].unheard + 1
               PROVE  SendsMet
    BY DEF OneSendAMinute, SendsMet
  <2>1. sends[x].mailed \in Nat /\ sends[x].unheard \in Nat
    BY DEF SendInv, SendsTyped
  <2> QED BY <2>1 DEF SendInv, Quick
<1> QED BY <1>1, <1>2, <1>3, PTL DEF Spec

-----------------------------------------------------------------------------
(***************************************************************************)
(* The prospects table: which columns a step may write.                    *)
(***************************************************************************)
RowFields == {"state", "email", "linkedin", "apollo", "company", "owner", "stage",
              "uid", "registered", "booked"}

\* Places at which a request holds a lead that it loaded.
Holding == {"edit", "remove", "move", "log", "drop", "mark", "call", "link", "convert",
            "curious", "attach", "register", "leave", "name", "book", "event", "fill"}
Held(at, l, t) ==
    at \in Holding \/ (at = "erase" /\ l.lead # None) =>
        /\ l.lead \in Pid /\ t[l.lead].state # "free"
        /\ DOMAIN l.row = RowFields /\ l.row.state # "free"

LeadTyped ==
    /\ DOMAIN lead = Pid
    /\ \A p \in Pid : DOMAIN lead[p] = RowFields
SignupLeads ==
    \A s \in Sid : signup[s].lead # None =>
        signup[s].lead \in Pid /\ lead[signup[s].lead].state # "free"
TableInv ==
    /\ LeadTyped /\ SignupTyped /\ SignupLeads
    /\ \A r \in Req : Held(pc[r], loc[r], lead)

\* What the request at this place writes to the lead that it holds, and where a
\* request adds a lead.
Columns(at) ==
    {f \in RowFields :
        \/ f = "state" /\ at \in {"remove", "drop", "erase"}
        \/ f = "stage" /\ at \in {"move", "convert", "curious", "leave"}
        \/ f \in {"email", "linkedin"} /\ at \in {"edit", "fill"}
        \/ f = "apollo" /\ at = "fill"
        \/ f = "uid" /\ at = "link"
        \/ f = "registered" /\ at = "register"
        \/ f = "booked" /\ at = "book"}
Adding == {"insert", "row", "new_lead", "add"}

\* A step of a request at this place, as the table shows it.
Touches(at) ==
    \A p \in Pid :
        /\ lead[p].state # "free" =>
              /\ \A f \in RowFields \ Columns(at) : lead'[p][f] = lead[p][f]
              /\ lead'[p].state \in {lead[p].state, "deleted"}
        /\ lead[p].state = "free" =>
              \/ lead'[p] = lead[p]
              \/ at \in Adding /\ \E c, o : lead'[p] = NewRow(c, o)

\* Ids are numbers, and NULL is none.
LEMMA NoneNoId == None \notin Pid
BY LeadAssumption

\* A new row has the columns of the table.
LEMMA NewRowFields ==
  ASSUME NEW c, NEW o
  PROVE  DOMAIN NewRow(c, o) = RowFields /\ NewRow(c, o).state = "live"
BY DEF NewRow, RowFields

\* A table that a step leaves alone.
LEMMA KeptTouches ==
  ASSUME LeadTyped, UNCHANGED lead, NEW at
  PROVE  LeadTyped' /\ Touches(at)
BY DEF LeadTyped, Touches

\* An insert takes the smallest free id.
LEMMA AddTouches ==
  ASSUME LeadTyped, NEW c, NEW o, AddLead(NewRow(c, o)), NEW at \in Adding
  PROVE  /\ LeadTyped' /\ Touches(at)
         /\ NextId \in Unused /\ lead'[NextId] = NewRow(c, o)
         /\ \A p \in Pid \ {NextId} : lead'[p] = lead[p]
<1> DEFINE p == NextId
<1>1. Unused \in SUBSET Nat /\ Unused # {}
  BY LeadAssumption DEF AddLead, Unused
<1>2. p \in Unused
  BY <1>1, Smallest DEF NextId
<1>3. lead' = [lead EXCEPT ![p] = NewRow(c, o)]
  BY DEF AddLead
<1> HIDE DEF p
<1>4. p \in Pid /\ lead[p].state = "free"
  BY <1>2 DEF Unused
<1>5. lead'[p] = NewRow(c, o) /\ \A q \in Pid \ {p} : lead'[q] = lead[q]
  BY <1>3, <1>4 DEF LeadTyped
<1>6. LeadTyped'
  BY <1>3, <1>5, NewRowFields DEF LeadTyped
<1>7. Touches(at)
  <2> SUFFICES ASSUME NEW q \in Pid
        PROVE  /\ lead[q].state # "free" => lead'[q] = lead[q]
               /\ lead[q].state = "free" =>
                     lead'[q] = lead[q] \/ \E d, w : lead'[q] = NewRow(d, w)
    BY DEF Touches
  <2> QED BY <1>4, <1>5
<1> QED BY <1>2, <1>5, <1>6, <1>7 DEF p

\* A commit writes to the lead that was loaded the columns that differ.
LEMMA WriteTouches ==
  ASSUME LeadTyped, NEW r \in Req, Held(pc[r], loc[r], lead),
         pc[r] \in Holding \/ (pc[r] = "erase" /\ loc[r].lead # None),
         NEW new, WriteBack(r, new),
         \A f \in RowFields \ Columns(pc[r]) : new[f] = loc[r].row[f],
         new.state \in {loc[r].row.state, "deleted"}
  PROVE  LET p == loc[r].lead IN
         /\ LeadTyped' /\ Touches(pc[r]) /\ p \in Pid /\ lead[p].state # "free"
         /\ \A q \in Pid \ {p} : lead'[q] = lead[q]
         /\ \A f \in RowFields :
               lead'[p][f] = IF loc[r].row[f] = new[f] THEN lead[p][f] ELSE new[f]
<1> DEFINE p == loc[r].lead
           written == WrittenRow(lead[p], loc[r].row, new)
<1>1. p \in Pid /\ lead[p].state # "free"
  BY DEF Held
<1>2. lead' = [lead EXCEPT ![p] = written]
  BY DEF WriteBack
<1>3. DOMAIN written = RowFields
      /\ \A f \in RowFields :
            written[f] = IF loc[r].row[f] = new[f] THEN lead[p][f] ELSE new[f]
  BY <1>1 DEF WrittenRow, Written, LeadTyped
<1> HIDE DEF p, written
<1>4. DOMAIN lead' = Pid /\ lead'[p] = written /\ \A q \in Pid \ {p} : lead'[q] = lead[q]
  BY <1>1, <1>2 DEF LeadTyped
<1>5. LeadTyped'
  BY <1>3, <1>4 DEF LeadTyped
<1>6. Touches(pc[r])
  <2> SUFFICES ASSUME NEW q \in Pid
        PROVE  /\ lead[q].state # "free" =>
                     /\ \A f \in RowFields \ Columns(pc[r]) : lead'[q][f] = lead[q][f]
                     /\ lead'[q].state \in {lead[q].state, "deleted"}
               /\ lead[q].state = "free" => lead'[q] = lead[q]
    BY DEF Touches
  <2>1. CASE q = p
    <3>1. "state" \in RowFields
      BY DEF RowFields
    <3>2. \A f \in RowFields \ Columns(pc[r]) : lead'[p][f] = lead[p][f]
      BY <1>3, <1>4
    <3>3. lead'[p].state \in {lead[p].state, "deleted"}
      BY <1>3, <1>4, <3>1
    <3> QED BY <1>1, <2>1, <3>2, <3>3
  <2>2. CASE q # p
    BY <1>4, <2>2
  <2> QED BY <2>1, <2>2
<1> QED BY <1>1, <1>3, <1>4, <1>5, <1>6 DEF p

\* A lead that is there stays there.
LEMMA RowsStay ==
  ASSUME NEW at, Touches(at), NEW p \in Pid, lead[p].state # "free"
  PROVE  lead'[p].state # "free"
BY DEF Touches

\* A step of r that leaves the signups alone and holds what it loaded.
LEMMA TableGoesOn ==
  ASSUME TableInv, NEW r \in Req, \A q \in Req \ {r} : pc'[q] = pc[q] /\ loc'[q] = loc[q],
         NEW at, Touches(at), LeadTyped', UNCHANGED signup, Held(pc'[r], loc'[r], lead')
  PROVE  TableInv'
<1>1. SignupTyped' /\ SignupLeads'
  BY RowsStay DEF TableInv, SignupTyped, SignupLeads
<1>2. \A q \in Req \ {r} : Held(pc'[q], loc'[q], lead')
  BY RowsStay DEF TableInv, Held
<1> QED BY <1>1, <1>2 DEF TableInv

\* A session that has loaded a lead holds it.
LEMMA LoadedHeld ==
  ASSUME LeadTyped, NEW op, NEW p \in Pid, lead[p].state # "free", NEW arg, NEW at
  PROVE  Held(at, Session(op, p, arg), lead)
BY SessionHolds, NoneNoId DEF Held, LeadTyped

\* What the routes of the prospects write.
LEMMA RouteTouches ==
  ASSUME TableInv, Desk, NEW r \in Req, RoutesNext(r), Acts(r, RouteLabels),
         UNCHANGED public
  PROVE  TableInv' /\ Touches(pc[r])
<1>1. /\ \A q \in Req \ {r} : pc'[q] = pc[q] /\ loc'[q] = loc[q]
      /\ r \in DOMAIN pc /\ r \in DOMAIN loc
  BY DEF Acts, Desk, Placed
<1>2. LeadTyped /\ Held(pc[r], loc[r], lead) /\ RouteKind(pc[r], loc[r]) /\ UNCHANGED signup
  BY DEF TableInv, Desk, RouteKinds, public, form
<1>3. ASSUME UNCHANGED lead, Held(pc'[r], loc'[r], lead)
      PROVE  TableInv' /\ Touches(pc[r])
  BY <1>1, <1>2, <1>3, KeptTouches, TableGoesOn
<1>4. ASSUME NEW label, NEW session, Begin(r, label, session), Held(label, session, lead)
      PROVE  TableInv' /\ Touches(pc[r])
  BY <1>1, <1>3, <1>4, BeginLaunches DEF Launch
<1>5. ASSUME UNCHANGED lead, Finish(r) \/ Broken(r)
      PROVE  TableInv' /\ Touches(pc[r])
  BY <1>1, <1>3, <1>5 DEF Finish, Broken, Goto, Held, Holding
<1>6. ASSUME UNCHANGED lead, NEW label, Goto(r, label, loc[r]), pc[r] \in Holding
      PROVE  TableInv' /\ Touches(pc[r])
  BY <1>1, <1>2, <1>3, <1>6 DEF Goto, Held
<1>7. ASSUME Touches(pc[r]), LeadTyped', Held(pc'[r], loc'[r], lead')
      PROVE  TableInv' /\ Touches(pc[r])
  BY <1>1, <1>2, <1>7, TableGoesOn
<1>8. ASSUME Touches(pc[r]), LeadTyped', Finish(r)
      PROVE  TableInv' /\ Touches(pc[r])
  BY <1>1, <1>7, <1>8 DEF Finish, Goto, Held, Holding
<1>9. ASSUME NEW c, NEW o, AddLead(NewRow(c, o)), pc[r] \in Adding, Finish(r)
      PROVE  TableInv' /\ Touches(pc[r])
  BY <1>2, <1>8, <1>9, AddTouches
<1>10. ASSUME pc[r] \in Holding, NEW new, WriteBack(r, new),
              \A f \in RowFields \ Columns(pc[r]) : new[f] = loc[r].row[f],
              new.state \in {loc[r].row.state, "deleted"}
       PROVE  LeadTyped' /\ Touches(pc[r])
  BY <1>2, <1>10, WriteTouches
<1>11. ASSUME NEW p \in LiveIn(lead), NEW op, NEW arg, NEW at
       PROVE  Held(at, Session(op, p, arg), lead)
  BY <1>2, LoadedHeld DEF LiveIn
<1>21. CASE CreateLead(r) \/ RejectMerge(r) \/ ImportFile(r)
  <2>1. ASSUME NEW label, label \in {"insert", "reject", "row"}, NEW session,
               Begin(r, label, session)
        PROVE  TableInv' /\ Touches(pc[r])
    BY <1>4, <2>1 DEF Held, Holding
  <2> QED BY <1>21, <2>1 DEF CreateLead, RejectMerge, ImportFile
<1>22. CASE PatchLead(r) \/ DeleteLead(r) \/ MoveLead(r) \/ Decide(r) \/ Promote(r)
  <2>1. ASSUME NEW p \in LiveIn(lead), NEW label, NEW op, NEW arg,
               Begin(r, label, Session(op, p, arg))
        PROVE  TableInv' /\ Touches(pc[r])
    BY <1>4, <1>11, <2>1
  <2>2. CASE PatchLead(r)
    BY <2>1, <2>2 DEF PatchLead
  <2> QED BY <1>22, <2>1, <2>2 DEF DeleteLead, MoveLead, Decide, Promote
<1>23. CASE CommitLead(r)
  BY <1>5, <1>9, <1>23 DEF CommitLead, Adding
<1>24. CASE CommitEdit(r)
  <2>1. CASE Broken(r) /\ UNCHANGED lead
    BY <1>5, <2>1
  <2> DEFINE old == loc[r].row
             e == loc[r].arg
             new == [old EXCEPT !.email = IF e.email = None THEN @ ELSE e.email,
                                !.linkedin = IF e.linkedin = None THEN @ ELSE e.linkedin]
  <2>2. CASE WriteBack(r, new) /\ Finish(r)
    <3>1. pc[r] = "edit"
      BY <1>24 DEF CommitEdit
    <3>2. DOMAIN old = RowFields
      BY <1>2, <3>1 DEF Held, Holding
    <3>3. \A f \in RowFields \ {"email", "linkedin"} : new[f] = old[f]
      BY <3>2 DEF RowFields
    <3>4. {"email", "linkedin"} \subseteq Columns(pc[r]) /\ "state" \in RowFields \ {"email", "linkedin"}
      BY <3>1 DEF Columns, RowFields
    <3> HIDE DEF new
    <3> QED BY <1>8, <1>10, <2>2, <3>1, <3>3, <3>4 DEF Holding
  <2> QED BY <1>24, <2>1, <2>2 DEF CommitEdit
<1>25. ASSUME NEW f \in RowFields, NEW v, f \in Columns(pc[r]), pc[r] \in Holding,
              WriteBack(r, [loc[r].row EXCEPT ![f] = v]), f = "state" => v = "deleted"
       PROVE  LeadTyped' /\ Touches(pc[r])
  <2> DEFINE new == [loc[r].row EXCEPT ![f] = v]
  <2>1. DOMAIN loc[r].row = RowFields /\ "state" \in RowFields
    BY <1>2, <1>25 DEF Held, RowFields
  <2>2. \A g \in RowFields : new[g] = IF g = f THEN v ELSE loc[r].row[g]
    BY <2>1
  <2> HIDE DEF new
  <2>3. WriteBack(r, new)
    BY <1>25 DEF new
  <2> QED BY <1>10, <1>25, <2>1, <2>2, <2>3
<1>26. CASE CommitDelete(r)
  BY <1>8, <1>25, <1>26 DEF CommitDelete, Columns, RowFields, Holding
<1>27. CASE CommitMove(r)
  BY <1>8, <1>25, <1>27 DEF CommitMove, Columns, RowFields, Holding
<1>28. CASE LogMerge(r)
  BY <1>6, <1>28 DEF LogMerge, Holding
<1>29. CASE DropLoser(r)
  <2>1. LeadTyped' /\ Touches(pc[r]) /\ pc[r] = "drop" /\ pc'[r] = "mark" /\ loc'[r] = loc[r]
    BY <1>1, <1>25, <1>29 DEF DropLoser, Columns, RowFields, Holding, Goto
  <2> QED BY <1>2, <1>7, <2>1, RowsStay DEF Held, Holding
<1>30. CASE MarkMerged(r) \/ MarkRejected(r) \/ ImportDone(r)
  BY <1>5, <1>30 DEF MarkMerged, MarkRejected, ImportDone
<1>31. CASE CallHhBe(r)
  <2>1. CASE Finish(r)
    BY <1>5, <1>31, <2>1 DEF CallHhBe
  <2>2. ASSUME NEW n, Goto(r, "link", [loc[r] EXCEPT !.arg = n])
        PROVE  TableInv' /\ Touches(pc[r])
    <3>1. pc[r] = "call" /\ UNCHANGED lead /\ DOMAIN loc[r] = Fields
      BY <1>2, <1>31 DEF CallHhBe, RouteKind, RouteLabels
    <3>2. loc'[r].lead = loc[r].lead /\ loc'[r].row = loc[r].row
      BY <1>1, <2>2, <3>1 DEF Goto, Fields
    <3> QED BY <1>2, <1>3, <3>1, <3>2 DEF Held, Holding
  <2> QED BY <1>31, <2>1, <2>2 DEF CallHhBe
<1>32. CASE LinkAccount(r)
  <2>1. LeadTyped' /\ Touches(pc[r]) /\ pc[r] = "link"
    BY <1>25, <1>32 DEF LinkAccount, Columns, RowFields, Holding
  <2>2. CASE Finish(r)
    BY <1>8, <2>1, <2>2
  <2>3. CASE Goto(r, "convert", [loc[r] EXCEPT !.row = lead'[loc[r].lead]])
    <3>1. DOMAIN loc[r] = Fields
      BY <1>2, <2>1 DEF RouteKind, RouteLabels
    <3>2. pc'[r] = "convert" /\ loc'[r].lead = loc[r].lead /\ loc'[r].row = lead'[loc[r].lead]
      BY <1>1, <2>3, <3>1 DEF Goto, Fields
    <3>3. loc[r].lead \in Pid /\ lead[loc[r].lead].state # "free"
      BY <1>2, <2>1 DEF Held, Holding
    <3>4. lead'[loc[r].lead].state # "free" /\ DOMAIN (lead'[loc[r].lead]) = RowFields
      BY <2>1, <3>3, RowsStay DEF LeadTyped
    <3>5. Held(pc'[r], loc'[r], lead')
      BY <3>2, <3>3, <3>4 DEF Held
    <3> QED BY <1>7, <2>1, <3>5
  <2> QED BY <1>32, <2>2, <2>3 DEF LinkAccount
<1>33. CASE Convert(r)
  BY <1>8, <1>25, <1>33 DEF Convert, Columns, RowFields, Holding
<1>34. CASE ImportRow(r)
  <2>1. CASE UNCHANGED lead /\ Broken(r)
    BY <1>5, <2>1
  <2>2. ASSUME NEW c, NEW o, AddLead(NewRow(c, o)), NEW s, Goto(r, "row", s)
        PROVE  TableInv' /\ Touches(pc[r])
    <3>1. pc[r] \in Adding /\ pc'[r] = "row"
      BY <1>1, <1>34, <2>2 DEF ImportRow, Adding, Goto
    <3> QED BY <1>2, <1>7, <2>2, <3>1, AddTouches DEF Held, Holding
  <2>3. \/ UNCHANGED lead /\ Broken(r)
        \/ \E c, o, s : AddLead(NewRow(c, o)) /\ Goto(r, "row", s)
    BY <1>34, Zenon DEF ImportRow
  <2> QED BY <2>1, <2>2, <2>3
<1> QED BY <1>21, <1>22, <1>23, <1>24, <1>26, <1>27, <1>28, <1>29, <1>30, <1>31, <1>32,
           <1>33, <1>34 DEF RoutesNext

\* A step that changes signups as well.
LEMMA SignupsGoOn ==
  ASSUME TableInv, NEW r \in Req, \A q \in Req \ {r} : pc'[q] = pc[q] /\ loc'[q] = loc[q],
         NEW at, Touches(at), LeadTyped', SignupTyped', Held(pc'[r], loc'[r], lead'),
         \A s \in Sid : \/ signup'[s].lead \in {signup[s].lead, None}
                        \/ signup'[s].lead \in Pid /\ lead[signup'[s].lead].state # "free"
  PROVE  TableInv'
<1>1. SignupLeads'
  BY RowsStay, NoneNoId DEF TableInv, SignupLeads
<1>2. \A q \in Req \ {r} : Held(pc'[q], loc'[q], lead')
  BY RowsStay DEF TableInv, Held
<1> QED BY <1>1, <1>2 DEF TableInv

\* What visits, signups and opt-outs write.
LEMMA SignupTouches ==
  ASSUME TableInv, Desk, NEW r \in Req, SignupNext(r), Acts(r, SignupLabels)
  PROVE  TableInv' /\ Touches(pc[r])
<1>1. /\ \A q \in Req \ {r} : pc'[q] = pc[q] /\ loc'[q] = loc[q]
      /\ r \in DOMAIN pc /\ r \in DOMAIN loc
  BY DEF Acts, Desk, Placed
<1>2. /\ LeadTyped /\ SignupTyped /\ SignupLeads /\ Held(pc[r], loc[r], lead)
      /\ SignupKind(pc[r], loc[r])
  BY DEF TableInv, Desk, SignupKinds
<1>3. ASSUME UNCHANGED lead, UNCHANGED signup, Held(pc'[r], loc'[r], lead)
      PROVE  TableInv' /\ Touches(pc[r])
  BY <1>1, <1>2, <1>3, KeptTouches, TableGoesOn
<1>4. ASSUME NEW label, NEW session, Begin(r, label, session), Held(label, session, lead),
             UNCHANGED public
      PROVE  TableInv' /\ Touches(pc[r])
  BY <1>1, <1>3, <1>4, BeginLaunches DEF Launch, public, form
<1>5. ASSUME UNCHANGED lead, UNCHANGED signup, Finish(r) \/ Broken(r)
      PROVE  TableInv' /\ Touches(pc[r])
  BY <1>1, <1>3, <1>5 DEF Finish, Broken, Goto, Held, Holding
<1>6. ASSUME UNCHANGED lead, UNCHANGED signup, NEW label, NEW s, Goto(r, label, s),
             label \notin Holding, label # "erase"
      PROVE  TableInv' /\ Touches(pc[r])
  BY <1>1, <1>3, <1>6 DEF Goto, Held
<1>7. ASSUME Touches(pc[r]), LeadTyped', UNCHANGED signup, Held(pc'[r], loc'[r], lead')
      PROVE  TableInv' /\ Touches(pc[r])
  BY <1>1, <1>2, <1>7, TableGoesOn
<1>8. ASSUME NEW f \in RowFields, NEW v, f \in Columns(pc[r]),
             pc[r] \in Holding \/ (pc[r] = "erase" /\ loc[r].lead # None),
             WriteBack(r, [loc[r].row EXCEPT ![f] = v]), f = "state" => v = "deleted"
      PROVE  LeadTyped' /\ Touches(pc[r])
  <2> DEFINE new == [loc[r].row EXCEPT ![f] = v]
  <2>1. DOMAIN loc[r].row = RowFields /\ "state" \in RowFields
    BY <1>2, <1>8 DEF Held, RowFields
  <2>2. \A g \in RowFields : new[g] = IF g = f THEN v ELSE loc[r].row[g]
    BY <2>1
  <2> HIDE DEF new
  <2>3. WriteBack(r, new)
    BY <1>8 DEF new
  <2> QED BY <1>2, <1>8, <2>1, <2>2, <2>3, WriteTouches
<1>9. ASSUME NEW f \in RowFields, NEW v, f \in Columns(pc[r]), pc[r] \in Holding,
             f # "state", WriteBack(r, [loc[r].row EXCEPT ![f] = v]), UNCHANGED signup,
             Finish(r) \/ Goto(r, "name", loc[r])
      PROVE  TableInv' /\ Touches(pc[r])
  <2>1. LeadTyped' /\ Touches(pc[r])
    BY <1>8, <1>9
  <2>2. Held(pc'[r], loc'[r], lead')
    <3>1. CASE Finish(r)
      BY <1>1, <3>1 DEF Finish, Goto, Held, Holding
    <3>2. CASE Goto(r, "name", loc[r])
      BY <1>1, <1>2, <1>9, <2>1, <3>2, RowsStay DEF Goto, Held
    <3> QED BY <1>9, <3>1, <3>2
  <2> QED BY <1>7, <1>9, <2>1, <2>2
<1>10. ASSUME NEW p \in Pid, lead[p].state # "free", UNCHANGED lead, UNCHANGED signup,
              NEW label, NEW op, NEW arg, Goto(r, label, Session(op, p, arg))
       PROVE  TableInv' /\ Touches(pc[r])
  BY <1>1, <1>2, <1>3, <1>10, LoadedHeld DEF Goto
<1>21. CASE Visit(r) \/ SignUp(r) \/ Resend(r) \/ Verify(r) \/ OptOut(r)
  <2>1. ASSUME NEW label, label \in {"visit", "sign_up", "resend", "check", "opt_out"},
               NEW session, Begin(r, label, session), UNCHANGED public
        PROVE  TableInv' /\ Touches(pc[r])
    BY <1>4, <2>1 DEF Held, Holding
  <2> QED BY <1>21, <2>1 DEF Visit, SignUp, Resend, Verify, OptOut
<1>22. CASE Erase(r)
  <2>1. PICK s \in Open : Begin(r, "erase", Session("erase", signup[s].lead, [email |-> signup[s].email]))
                          /\ UNCHANGED public
    BY <1>22 DEF Erase
  <2> DEFINE p == signup[s].lead
             session == Session("erase", p, [email |-> signup[s].email])
  <2>2. p # None => p \in Pid /\ lead[p].state # "free"
    BY <1>2, <2>1 DEF SignupLeads, Open
  <2>3. Held("erase", session, lead)
    <3>1. CASE p = None
      BY <3>1, SessionHolds DEF Held, Holding
    <3>2. CASE p # None
      BY <1>2, <2>2, <3>2, LoadedHeld
    <3> QED BY <3>1, <3>2
  <2> QED BY <1>4, <2>1, <2>3
<1>23. CASE InsertVisit(r) \/ BumpPage(r) \/ GetVariant(r) \/ BumpSignup(r)
  BY <1>6, <1>23 DEF InsertVisit, BumpPage, GetVariant, BumpSignup, public, form, Holding
<1>24. CASE BumpVariant(r)
  BY <1>5, <1>6, <1>24 DEF BumpVariant, form, Holding
<1>25. CASE GetVisitor(r)
  <2>1. UNCHANGED lead /\ UNCHANGED signup
    BY <1>25 DEF GetVisitor, public, form
  <2>2. \/ Finish(r)
        \/ \E p \in LiveIn(lead) : Goto(r, "curious", Session("visit", p, None))
    BY <1>25 DEF GetVisitor
  <2> QED BY <1>5, <1>10, <2>1, <2>2 DEF LiveIn
<1>26. CASE TurnCurious(r)
  BY <1>9, <1>26 DEF TurnCurious, Columns, RowFields, Holding, public, form
<1>27. CASE InsertSignup(r)
  <2> DEFINE taken == Min(Blank)
  <2>3. /\ taken \in Blank /\ SignupTyped' /\ signup'[taken] = NewSignup(loc[r].arg.email)
        /\ \A t \in Sid \ {taken} : signup'[t] = signup[t]
    BY <1>2, <1>27, BlankTaken
  <2>4. UNCHANGED lead /\ pc'[r] = "send"
    BY <1>1, <1>27 DEF InsertSignup, Goto
  <2> HIDE DEF taken
  <2>1. UNCHANGED lead /\ pc'[r] = "send" /\ SignupTyped'
        /\ \A s \in Sid : signup'[s].lead \in {signup[s].lead, None}
    BY <2>3, <2>4 DEF NewSignup
  <2>2. Held(pc'[r], loc'[r], lead')
    BY <2>1 DEF Held, Holding
  <2> QED BY <1>1, <1>2, <2>1, <2>2, KeptTouches, SignupsGoOn
<1>28. CASE SendFirst(r) \/ SendAgain(r)
  BY <1>5, <1>28 DEF SendFirst, SendAgain
<1>29. CASE MarkVerified(r)
  <2>1. UNCHANGED lead /\ pc'[r] \in {"done", "error", "find", "bump_signup"}
    BY <1>1, <1>29 DEF MarkVerified, Goto, Finish, Broken
  <2>2. UNCHANGED signup \/ \E s \in Sid : signup' = [signup EXCEPT ![s].verified = TRUE]
    BY <1>29 DEF MarkVerified, Open
  <2>3. SignupTyped' /\ \A s \in Sid : signup'[s].lead = signup[s].lead
    BY <1>2, <2>2, SignupColumns DEF SignupTyped
  <2>4. Held(pc'[r], loc'[r], lead')
    BY <2>1 DEF Held, Holding
  <2> QED BY <1>1, <1>2, <2>1, <2>3, <2>4, KeptTouches, SignupsGoOn
<1>30. CASE FindLead(r)
  <2>1. UNCHANGED lead /\ UNCHANGED signup
    BY <1>30 DEF FindLead, public, form
  <2>2. \/ Finish(r) \/ Goto(r, "new_lead", loc[r])
        \/ \E c : \E p \in Existing(lead, c) : Goto(r, "attach", Session("verify", p, loc[r].arg))
    BY <1>30 DEF FindLead
  <2>3. \A c : \A p \in Existing(lead, c) : p \in Pid /\ lead[p].state # "free"
    BY DEF Existing, ByLinkedin, ByEmail, LiveIn
  <2> QED BY <1>5, <1>6, <1>10, <2>1, <2>2, <2>3 DEF Holding
<1>31. CASE NewLead(r)
  <2>1. PICK c : /\ pc[r] = "new_lead" /\ AddLead(NewRow(c, None)) /\ UNCHANGED public
                 /\ Goto(r, "attach", [loc[r] EXCEPT !.lead = NextId, !.row = NewRow(c, None)])
    BY <1>31, Zenon DEF NewLead
  <2>2. /\ LeadTyped' /\ Touches(pc[r]) /\ NextId \in Unused
        /\ lead'[NextId] = NewRow(c, None)
    BY <1>2, <2>1, AddTouches DEF Adding
  <2>3. pc'[r] = "attach" /\ loc'[r].lead = NextId /\ loc'[r].row = NewRow(c, None)
    BY <1>1, <1>2, <2>1 DEF Goto, SignupKind, SignupLabels, VerifyLabels, Fields
  <2>4. Held(pc'[r], loc'[r], lead')
    BY <2>2, <2>3, NewRowFields DEF Held, Unused
  <2> QED BY <1>7, <2>1, <2>2, <2>4 DEF public, form
<1>32. CASE Attach(r)
  <2>1. UNCHANGED lead /\ pc[r] = "attach"
        /\ (Finish(r) \/ Broken(r) \/ Goto(r, "register", loc[r]))
    BY <1>32 DEF Attach
  <2>2. loc[r].lead \in Pid /\ lead[loc[r].lead].state # "free"
    BY <1>2, <2>1 DEF Held, Holding
  <2>3. UNCHANGED signup \/ \E s \in Sid : signup' = [signup EXCEPT ![s].lead = loc[r].lead]
    BY <1>32 DEF Attach, Open
  <2>4. SignupTyped' /\ \A s \in Sid : signup'[s].lead \in {signup[s].lead, loc[r].lead}
    BY <1>2, <2>3, SignupColumns DEF SignupTyped
  <2>5. Held(pc'[r], loc'[r], lead')
    <3>1. CASE Finish(r) \/ Broken(r)
      BY <1>1, <3>1 DEF Finish, Broken, Goto, Held, Holding
    <3>2. CASE Goto(r, "register", loc[r])
      BY <1>1, <1>2, <2>1, <3>2 DEF Goto, Held, Holding
    <3> QED BY <2>1, <3>1, <3>2
  <2> QED BY <1>1, <1>2, <2>1, <2>2, <2>4, <2>5, KeptTouches, SignupsGoOn
<1>33. CASE Register(r)
  BY <1>9, <1>33 DEF Register, Columns, RowFields, Holding, public, form
<1>34. CASE CommitErase(r)
  <2>1. SignupTyped' /\ \A s \in Sid : signup'[s].lead = signup[s].lead
    BY <1>2, <1>34, SignupsErased
  <2>2. Held(pc'[r], loc'[r], lead')
    BY <1>1, <1>34 DEF CommitErase, Finish, Goto, Held, Holding
  <2>3. LeadTyped' /\ Touches(pc[r])
    <3>1. CASE UNCHANGED lead
      BY <1>2, <3>1, KeptTouches
    <3>2. CASE loc[r].lead # None /\ WriteBack(r, [loc[r].row EXCEPT !.state = "deleted"])
      BY <1>8, <1>34, <3>2 DEF CommitErase, Columns, RowFields
    <3> QED BY <1>34, <3>1, <3>2 DEF CommitErase
  <2> QED BY <1>1, <1>2, <2>1, <2>2, <2>3, SignupsGoOn
<1>35. CASE InsertOptOut(r)
  <2>1. UNCHANGED lead /\ UNCHANGED signup
    BY <1>35 DEF InsertOptOut, form
  <2>2. \/ Finish(r) \/ Broken(r)
        \/ \E p \in LiveIn(lead) : Goto(r, "leave", Session("optout", p, loc[r].arg))
    BY <1>35 DEF InsertOptOut, ByEmail
  <2> QED BY <1>5, <1>10, <2>1, <2>2 DEF LiveIn
<1>36. CASE LeaveFunnel(r)
  BY <1>9, <1>36 DEF LeaveFunnel, Columns, RowFields, Holding, public, form
<1>37. CASE NameLead(r)
  BY <1>5, <1>37 DEF NameLead, form
<1> QED BY <1>21, <1>22, <1>23, <1>24, <1>25, <1>26, <1>27, <1>28, <1>29, <1>30, <1>31,
           <1>32, <1>33, <1>34, <1>35, <1>36, <1>37 DEF SignupNext

\* What the providers' deliveries write.
LEMMA HookTouches ==
  ASSUME TableInv, Desk, NEW r \in Req, WebhookNext(r), Acts(r, HookLabels),
         UNCHANGED public
  PROVE  TableInv' /\ Touches(pc[r])
<1>1. /\ \A q \in Req \ {r} : pc'[q] = pc[q] /\ loc'[q] = loc[q]
      /\ r \in DOMAIN pc /\ r \in DOMAIN loc
  BY DEF Acts, Desk, Placed
<1>2. LeadTyped /\ Held(pc[r], loc[r], lead) /\ HookKind(pc[r], loc[r]) /\ UNCHANGED signup
  BY DEF TableInv, Desk, HookKinds, public, form
<1>3. ASSUME UNCHANGED lead, Held(pc'[r], loc'[r], lead)
      PROVE  TableInv' /\ Touches(pc[r])
  BY <1>1, <1>2, <1>3, KeptTouches, TableGoesOn
<1>4. ASSUME UNCHANGED lead, Finish(r) \/ Broken(r)
      PROVE  TableInv' /\ Touches(pc[r])
  BY <1>1, <1>3, <1>4 DEF Finish, Broken, Goto, Held, Holding
<1>5. ASSUME UNCHANGED lead, NEW label, NEW s, Goto(r, label, s),
             label \notin Holding, label # "erase"
      PROVE  TableInv' /\ Touches(pc[r])
  BY <1>1, <1>3, <1>5 DEF Goto, Held
<1>6. ASSUME Touches(pc[r]), LeadTyped', NEW label, Goto(r, label, loc[r]),
             pc[r] \in Holding \/ label \notin Holding \cup {"erase"}
      PROVE  TableInv' /\ Touches(pc[r])
  <2>1. Held(pc'[r], loc'[r], lead')
    BY <1>1, <1>2, <1>6, RowsStay DEF Goto, Held
  <2> QED BY <1>1, <1>2, <1>6, <2>1, TableGoesOn
<1>7. CASE Deliver(r)
  <2>1. ASSUME NEW s, Begin(r, "receive", s) PROVE TableInv' /\ Touches(pc[r])
    BY <1>1, <1>3, <2>1, BeginLaunches DEF Launch, Held, Holding
  <2> QED BY <1>7, <2>1 DEF Deliver
<1>8. CASE Receive(r)
  <2>1. UNCHANGED lead
    BY <1>8 DEF Receive
  <2>2. ASSUME NEW label, NEW p \in Pid, lead[p].state # "free",
               Goto(r, label, Session(loc[r].op, p, loc[r].arg))
        PROVE  TableInv' /\ Touches(pc[r])
    BY <1>1, <1>2, <1>3, <2>1, <2>2, LoadedHeld DEF Goto
  <2>3. \A p \in Matched(loc[r].arg.key) : p \in Pid /\ lead[p].state # "free"
    BY DEF Matched, ByEmail, LiveIn
  <2>4. ASSUME Begun(r) PROVE TableInv' /\ Touches(pc[r])
    <3>1. CASE Goto(r, "add", loc[r]) \/ Goto(r, "processed", loc[r])
      BY <1>5, <2>1, <3>1 DEF Holding
    <3> QED BY <2>2, <2>3, <2>4, <3>1 DEF Begun
  <2> QED BY <1>4, <1>8, <2>1, <2>4 DEF Receive
<1>9. CASE Book(r)
  <2> DEFINE new == [loc[r].row EXCEPT !.booked = TRUE]
  <2>1. pc[r] = "book" /\ WriteBack(r, new) /\ Goto(r, "event", loc[r])
    BY <1>9 DEF Book
  <2>2. DOMAIN loc[r].row = RowFields
    BY <1>2, <2>1 DEF Held, Holding
  <2>3. \A f \in RowFields \ {"booked"} : new[f] = loc[r].row[f]
    BY <2>2
  <2> HIDE DEF new
  <2>4. LeadTyped' /\ Touches(pc[r])
    BY <1>2, <2>1, <2>3, WriteTouches DEF Holding, Columns, RowFields
  <2> QED BY <1>6, <2>1, <2>4 DEF Holding
<1>10. CASE LogEvent(r) \/ Fault(r)
  BY <1>5, <1>10 DEF LogEvent, Fault, Holding
<1>11. CASE AddContact(r)
  <2>1. CASE UNCHANGED lead /\ Broken(r)
    BY <1>4, <2>1
  <2>2. ASSUME NEW c, AddLead(NewRow(c, None)), Goto(r, "processed", loc[r])
        PROVE  TableInv' /\ Touches(pc[r])
    <3>1. pc[r] \in Adding
      BY <1>11 DEF AddContact, Adding
    <3>2. LeadTyped' /\ Touches(pc[r])
      BY <1>2, <2>2, <3>1, AddTouches
    <3> QED BY <1>6, <2>2, <3>2 DEF Holding
  <2> QED BY <1>11, <2>1, <2>2, Zenon DEF AddContact
<1>12. CASE FillBlanks(r)
  <2> DEFINE c == Hooks[loc[r].arg.key].card
             old == loc[r].row
             Or(value, other) == IF value = None THEN other ELSE value
             new == [old EXCEPT !.apollo = Or(@, c.apollo), !.linkedin = Or(@, c.linkedin),
                                !.email = Or(@, c.email)]
  <2>1. pc[r] = "fill"
    BY <1>12 DEF FillBlanks
  <2>2. \/ UNCHANGED lead /\ Broken(r)
        \/ WriteBack(r, new) /\ Goto(r, "processed", loc[r])
    BY <1>12, Zenon DEF FillBlanks
  <2>3. DOMAIN old = RowFields
    BY <1>2, <2>1 DEF Held, Holding
  <2>4. \A f \in RowFields \ {"apollo", "linkedin", "email"} : new[f] = old[f]
    BY <2>3
  <2> HIDE DEF new
  <2>5. CASE WriteBack(r, new) /\ Goto(r, "processed", loc[r])
    <3>1. LeadTyped' /\ Touches(pc[r])
      BY <1>2, <2>1, <2>4, <2>5, WriteTouches DEF Holding, Columns, RowFields
    <3> QED BY <1>6, <2>1, <2>5, <3>1 DEF Holding
  <2> QED BY <1>4, <2>2, <2>5
<1>13. CASE MarkProcessed(r)
  BY <1>4, <1>5, <1>13 DEF MarkProcessed, Holding
<1>14. CASE AuditApollo(r) \/ MarkFailed(r)
  BY <1>4, <1>14 DEF AuditApollo, MarkFailed
<1> QED BY <1>7, <1>8, <1>9, <1>10, <1>11, <1>12, <1>13, <1>14 DEF WebhookNext

-----------------------------------------------------------------------------
(***************************************************************************)
(* Steps, once more, with what they leave alone.                           *)
(***************************************************************************)
\* A step that is no request's: the tables stay, and the requests but for those
\* that die.
Aside ==
    /\ Elsewhere(RouteLabels) /\ Elsewhere(SignupLabels) /\ Elsewhere(HookLabels)
    /\ UNCHANGED <<lead, moved, routes, hooks, signup, page, optout>>

\* A step is one request's, or leaves the tables alone.
LEMMA Moves ==
  ASSUME Desk, [Next]_vars
  PROVE  \/ \E r \in Req : RoutesNext(r) /\ Acts(r, RouteLabels) /\ UNCHANGED <<public, hooks>>
         \/ \E r \in Req : SignupNext(r) /\ Acts(r, SignupLabels) /\ UNCHANGED <<routes, hooks>>
         \/ \E r \in Req : WebhookNext(r) /\ Acts(r, HookLabels) /\ UNCHANGED <<routes, public>>
         \/ Aside
<1> USE LabelsApart DEF Desk
<1>1. ASSUME NEW r \in Req, Abort(r), UNCHANGED <<lead, moved, routes, public, hooks>>
      PROVE  Aside
  BY <1>1, AbortElsewhere DEF Aside, public, form
<1>2. ASSUME CoolDown, UNCHANGED <<routes, hooks>> PROVE Aside
  <2>1. UNCHANGED desk
    BY <1>2 DEF CoolDown
  <2> QED BY <1>2, <2>1, IdleElsewhere DEF Aside, CoolDown
<1>3. ASSUME Restart, UNCHANGED <<routes, hooks>> PROVE Aside
  <2>1. Elsewhere(RouteLabels) /\ Elsewhere(SignupLabels) /\ Elsewhere(HookLabels)
    BY <1>3, RestartElsewhere
  <2> QED BY <1>3, <2>1 DEF Aside, Restart
<1>4. ASSUME UNCHANGED vars PROVE Aside
  <2>1. UNCHANGED desk
    BY <1>4 DEF vars
  <2> QED BY <1>4, <2>1, IdleElsewhere DEF Aside, vars, public, form
<1>5. ASSUME NEW r \in Req, RoutesNext(r) PROVE Acts(r, RouteLabels)
  BY <1>5, RoutesActs
<1>6. ASSUME NEW r \in Req, SignupNext(r) PROVE Acts(r, SignupLabels)
  BY <1>6, SignupActs
<1>7. ASSUME NEW r \in Req, WebhookNext(r) PROVE Acts(r, HookLabels)
  BY <1>7, WebhookActs
<1> QED BY <1>1, <1>2, <1>3, <1>4, <1>5, <1>6, <1>7 DEF Next, Quiet

\* The desk and the tables at any step.
LEMMA TableSteps ==
  ASSUME Desk, TableInv, [Next]_vars
  PROVE  /\ Desk' /\ TableInv'
         /\ \/ \E r \in Req : /\ RoutesNext(r) /\ Acts(r, RouteLabels) /\ Touches(pc[r])
                              /\ Elsewhere(SignupLabels) /\ Elsewhere(HookLabels)
                              /\ UNCHANGED <<public, hooks>>
            \/ \E r \in Req : /\ SignupNext(r) /\ Acts(r, SignupLabels) /\ Touches(pc[r])
                              /\ Elsewhere(RouteLabels) /\ Elsewhere(HookLabels)
                              /\ UNCHANGED <<routes, hooks>>
            \/ \E r \in Req : /\ WebhookNext(r) /\ Acts(r, HookLabels) /\ Touches(pc[r])
                              /\ Elsewhere(RouteLabels) /\ Elsewhere(SignupLabels)
                              /\ UNCHANGED <<routes, public>>
            \/ Aside
<1>1. Desk'
  BY NextSteps DEF Steps
<1>2. ASSUME NEW r \in Req, RoutesNext(r), Acts(r, RouteLabels), UNCHANGED <<public, hooks>>
      PROVE  /\ TableInv' /\ Touches(pc[r])
             /\ Elsewhere(SignupLabels) /\ Elsewhere(HookLabels)
  BY <1>2, RouteTouches, ActsElsewhere, LabelsApart
<1>3. ASSUME NEW r \in Req, SignupNext(r), Acts(r, SignupLabels), UNCHANGED <<routes, hooks>>
      PROVE  /\ TableInv' /\ Touches(pc[r])
             /\ Elsewhere(RouteLabels) /\ Elsewhere(HookLabels)
  BY <1>3, SignupTouches, ActsElsewhere, LabelsApart
<1>4. ASSUME NEW r \in Req, WebhookNext(r), Acts(r, HookLabels), UNCHANGED <<routes, public>>
      PROVE  /\ TableInv' /\ Touches(pc[r])
             /\ Elsewhere(RouteLabels) /\ Elsewhere(SignupLabels)
  BY <1>4, HookTouches, ActsElsewhere, LabelsApart
<1>5. ASSUME Aside PROVE TableInv'
  <2>1. LeadTyped' /\ SignupTyped' /\ SignupLeads' /\ UNCHANGED lead
    BY <1>5 DEF Aside, TableInv, LeadTyped, SignupTyped, SignupLeads
  <2>2. ASSUME NEW r \in Req PROVE Held(pc'[r], loc'[r], lead')
    <3>1. CASE pc'[r] \in RouteLabels \cup SignupLabels \cup HookLabels
      <4>1. pc'[r] = pc[r] /\ loc'[r] = loc[r]
        BY <1>5, <3>1 DEF Aside, Elsewhere
      <4> QED BY <2>1, <4>1 DEF TableInv
    <3>2. CASE pc'[r] \notin RouteLabels \cup SignupLabels \cup HookLabels
      BY <3>2 DEF Held, Holding, RouteLabels, SignupLabels, HookLabels, VisitLabels, VerifyLabels
    <3> QED BY <3>1, <3>2
  <2> QED BY <2>1, <2>2 DEF TableInv
<1> QED BY <1>1, <1>2, <1>3, <1>4, <1>5, Moves

\* The tables at the start.
LEMMA TableStarts == Init => TableInv
<1> SUFFICES ASSUME Init PROVE TableInv
  OBVIOUS
<1>1. \A r \in Req : pc[r] = "idle"
  BY DEF Init, LeadInit, DeskInit
<1>2. lead = Seed /\ signup = Start
  BY DEF Init, LeadInit, SignupInit
<1>3. DOMAIN NoRow = RowFields
  BY DEF NoRow, NewRow, RowFields
<1>4. LeadTyped
  BY <1>2, <1>3, SeedAssumption DEF LeadTyped
<1>5. SignupTyped /\ SignupLeads
  BY <1>2, StartAssumption DEF SignupTyped, SignupLeads, SignupFields, NewSignup
<1> QED BY <1>1, <1>4, <1>5 DEF TableInv, Held, Holding

-----------------------------------------------------------------------------
(***************************************************************************)
(* One account for a lead.                                                 *)
(***************************************************************************)
\* Two promotions overlapped, or one died.
PromotionsMet == Met("promote", "promote") \/ "promote" \in died

\* A lead whose account's id arrived has it, or the promotion that heard of it is about
\* to store it, and whoever is about to ask for one finds none.
Fair(p) ==
    /\ accounts[p].made <= accounts[p].unheard + 1
    /\ accounts[p].made # accounts[p].unheard =>
          /\ lead[p].state # "free"
          /\ \/ lead[p].uid # None
             \/ \E r \in Req : pc[r] = "link" /\ loc[r].lead = p
    /\ \A r \in Req : pc[r] = "call" /\ loc[r].lead = p => accounts[p].made = accounts[p].unheard
AccountsTyped ==
    /\ accounts \in [Pid -> [made : Nat, unheard : Nat]]
    /\ \A r \in Req : /\ pc[r] \in {"call", "link"} => loc[r].row.uid = None
                      /\ pc[r] = "link" => loc[r].arg \in Nat
AccountInv == AccountsTyped /\ (PromotionsMet \/ \A p \in Pid : Fair(p))

\* What was met or died stays so.
LEMMA PromotionsMetStays ==
  ASSUME met \subseteq met', died \subseteq died', PromotionsMet
  PROVE  PromotionsMet'
BY DEF PromotionsMet, Met

\* A step that leaves promotions, accounts and their ids alone.
LEMMA AccountGoesOn ==
  ASSUME TableInv, AccountInv, UNCHANGED accounts,
         met \subseteq met', died \subseteq died',
         \A q \in Req : pc'[q] \in {"call", "link"} => pc'[q] = pc[q] /\ loc'[q] = loc[q],
         \A q \in Req : pc[q] = "link" =>
            (pc'[q] = pc[q] /\ loc'[q] = loc[q]) \/ PromotionsMet',
         \A p \in Pid : lead[p].state # "free" =>
            lead'[p].state # "free" /\ lead'[p].uid = lead[p].uid
  PROVE  AccountInv'
<1>1. AccountsTyped'
  BY DEF AccountInv, AccountsTyped
<1>2. ASSUME ~PromotionsMet', NEW p \in Pid, Fair(p) PROVE Fair(p)'
  BY <1>2 DEF Fair
<1> QED BY <1>1, <1>2, PromotionsMetStays DEF AccountInv

\* Promotions that did not meet do not share the desk, after a step as before it.
LEMMA PromotesAlone ==
  ASSUME Desk', ~PromotionsMet', NEW r \in Req, NEW q \in Req,
         pc'[r] \in {"call", "link", "convert"}, pc'[q] \in {"call", "link", "convert"}
  PROVE  q = r
<1>1. r \in Active' /\ q \in Active'
  BY DEF Active, Over
<1>2. loc'[r].op = "promote" /\ loc'[q].op = "promote"
  BY DEF Desk, RouteKinds, RouteKind
<1> QED BY <1>1, <1>2 DEF Desk, Noticed, PromotionsMet, Met

\* Each step of the routes.
LEMMA AccountStep ==
  ASSUME TableInv, Desk, Desk', AccountInv, NEW r \in Req, RoutesNext(r),
         Acts(r, RouteLabels), Touches(pc[r])
  PROVE  AccountInv'
<1>1. /\ \A q \in Req \ {r} : pc'[q] = pc[q] /\ loc'[q] = loc[q]
      /\ r \in DOMAIN pc /\ r \in DOMAIN loc
      /\ met \subseteq met' /\ died \subseteq died'
  BY DEF Acts, Desk, Placed
<1>2. RouteKind(pc[r], loc[r]) /\ Held(pc[r], loc[r], lead)
  BY DEF Desk, RouteKinds, TableInv
<1>3. \A p \in Pid : lead[p].state # "free" =>
         /\ lead'[p].state # "free"
         /\ pc[r] # "link" => lead'[p].uid = lead[p].uid
  BY RowsStay DEF Touches, Columns, RowFields
<1>4. ASSUME pc[r] # "link", UNCHANGED accounts, pc'[r] \notin {"call", "link"}
      PROVE  AccountInv'
  BY <1>1, <1>3, <1>4, AccountGoesOn
<1>5. CASE Promote(r)
  <2>1. PICK p \in LiveIn(lead) : /\ lead[p].uid = None /\ UNCHANGED routes
                                  /\ Begin(r, "call", Session("promote", p, None))
    BY <1>5 DEF Promote
  <2>2. p \in Pid /\ p # None /\ lead[p].state # "free"
    BY NoneNoId DEF LiveIn
  <2>3. /\ pc[r] = "idle" /\ pc'[r] = "call" /\ loc'[r].lead = p
        /\ loc'[r].row.uid = None /\ UNCHANGED <<accounts, lead>>
    BY <1>1, <2>1, <2>2, BeginLaunches, SessionHolds DEF Launch, routes
  <2>4. AccountsTyped'
    BY <1>1, <2>3 DEF AccountInv, AccountsTyped
  <2>5. ASSUME ~PromotionsMet', NEW t \in Pid, Fair(t) PROVE Fair(t)'
    <3>1. \A q \in Req : pc'[q] # "link"
      BY <2>3, <2>5, PromotesAlone
    <3>2. \A q \in Req : pc[q] # "link"
      BY <1>1, <2>3, <3>1
    <3>3. accounts[p].made = accounts[p].unheard \/ t # p
      BY <2>1, <2>5, <3>2 DEF Fair
    <3>4. \A q \in Req : pc'[q] = "call" /\ loc'[q].lead = t =>
                 q = r \/ accounts[t].made = accounts[t].unheard
      BY <1>1, <2>5 DEF Fair
    <3> QED BY <2>3, <2>5, <3>2, <3>3, <3>4 DEF Fair
  <2> QED BY <1>1, <2>4, <2>5, PromotionsMetStays DEF AccountInv
<1>6. CASE CallHhBe(r)
  <2> DEFINE p == loc[r].lead
             n == accounts[p].made + 1
             u == accounts[p].unheard
  <2>1. pc[r] = "call" /\ UNCHANGED lead /\ p \in Pid
    BY <1>2, <1>6 DEF CallHhBe, Held, Holding
  <2>2. CASE Finish(r) /\ UNCHANGED accounts
    BY <1>1, <1>4, <2>1, <2>2 DEF Finish, Goto
  <2>3. /\ n \in Nat /\ u \in Nat /\ u + 1 \in Nat /\ loc[r].row.uid = None
        /\ accounts \in [Pid -> [made : Nat, unheard : Nat]]
    BY <2>1 DEF AccountInv, AccountsTyped
  <2>4. ASSUME NEW row \in [made : Nat, unheard : Nat], accounts' = [accounts EXCEPT ![p] = row]
        PROVE  /\ accounts' \in [Pid -> [made : Nat, unheard : Nat]]
               /\ \A t \in Pid : accounts'[t] = IF t = p THEN row ELSE accounts[t]
    BY <2>1, <2>3, <2>4
  <2>5. CASE /\ accounts' = [accounts EXCEPT ![p] = [made |-> n, unheard |-> u]]
             /\ Goto(r, "link", [loc[r] EXCEPT !.arg = n])
    <3>1. DOMAIN loc[r] = Fields
      BY <1>2, <2>1 DEF RouteKind, RouteLabels
    <3>3. /\ accounts' \in [Pid -> [made : Nat, unheard : Nat]]
          /\ \A t \in Pid : accounts'[t] = IF t = p THEN [made |-> n, unheard |-> u]
                                           ELSE accounts[t]
      BY <2>3, <2>4, <2>5
    <3>4. /\ pc'[r] = "link" /\ loc'[r].lead = p /\ loc'[r].row = loc[r].row /\ loc'[r].arg = n
      BY <1>1, <2>5, <3>1 DEF Goto, Fields
    <3>5. AccountsTyped'
      BY <1>1, <2>3, <3>3, <3>4 DEF AccountInv, AccountsTyped
    <3>6. ASSUME ~PromotionsMet', NEW t \in Pid, Fair(t) PROVE Fair(t)'
      <4>1. \A q \in Req : pc'[q] \in {"call", "link"} => q = r
        BY <3>4, <3>6, PromotesAlone
      <4>2. CASE t = p
        <5>1. accounts[t].made = accounts[t].unheard /\ lead[t].state # "free"
          BY <1>2, <2>1, <3>6, <4>2 DEF Fair, Held, Holding
        <5>2. accounts'[t].made = accounts'[t].unheard + 1
          BY <2>3, <3>3, <4>2, <5>1
        <5>3. lead'[t].state # "free" /\ accounts'[t].unheard \in Nat
          BY <2>1, <3>3, <5>1
        <5>4. pc'[r] = "link" /\ loc'[r].lead = t /\ \A q \in Req : pc'[q] # "call"
          BY <3>4, <4>1, <4>2
        <5> QED BY <5>2, <5>3, <5>4 DEF Fair
      <4>3. CASE t # p
        <5>1. \A q \in Req : pc[q] = "link" => q = r
          BY <1>1, <4>1
        <5> HIDE DEF p
        <5> QED BY <1>1, <2>1, <3>3, <3>4, <3>6, <4>1, <4>3, <5>1 DEF Fair
      <4> QED BY <4>2, <4>3
    <3> QED BY <1>1, <3>5, <3>6, PromotionsMetStays DEF AccountInv
  <2>6. CASE /\ accounts' = [accounts EXCEPT ![p] = [made |-> n, unheard |-> u + 1]]
             /\ Finish(r)
    <3>1. /\ accounts' \in [Pid -> [made : Nat, unheard : Nat]]
          /\ \A t \in Pid : accounts'[t] = IF t = p THEN [made |-> n, unheard |-> u + 1]
                                           ELSE accounts[t]
      BY <2>3, <2>4, <2>6
    <3>2. pc'[r] = "done" /\ UNCHANGED lead
      BY <1>1, <2>1, <2>6 DEF Finish, Goto
    <3>3. AccountsTyped'
      BY <1>1, <3>1, <3>2 DEF AccountInv, AccountsTyped
    <3>4. \A q \in Req : pc'[q] \in {"call", "link"} => pc'[q] = pc[q] /\ loc'[q] = loc[q]
      BY <1>1, <3>2
    <3>5. \A q \in Req : pc[q] = "link" => pc'[q] = pc[q] /\ loc'[q] = loc[q]
      BY <1>1, <2>1
    <3>6. ASSUME ~PromotionsMet', NEW t \in Pid, Fair(t) PROVE Fair(t)'
      <4>1. /\ accounts[t].made \in Nat /\ accounts[t].unheard \in Nat
            /\ \/ accounts'[t] = accounts[t]
               \/ /\ accounts'[t].made = accounts[t].made + 1
                  /\ accounts'[t].unheard = accounts[t].unheard + 1
        BY <2>3, <3>1
      <4> HIDE DEF p, n, u
      <4>2. /\ accounts'[t].made <= accounts'[t].unheard + 1
            /\ accounts'[t].made = accounts'[t].unheard <=> accounts[t].made = accounts[t].unheard
        BY <3>6, <4>1 DEF Fair
      <4> QED BY <3>2, <3>4, <3>5, <3>6, <4>2 DEF Fair
    <3> QED BY <1>1, <3>3, <3>6, PromotionsMetStays DEF AccountInv
  <2> QED BY <1>6, <2>2, <2>5, <2>6 DEF CallHhBe
<1>7. CASE LinkAccount(r)
  <2> DEFINE p == loc[r].lead
             new == [loc[r].row EXCEPT !.uid = loc[r].arg]
  <2>1. /\ pc[r] = "link" /\ UNCHANGED accounts /\ WriteBack(r, new)
        /\ pc'[r] \in {"done", "convert"}
    BY <1>1, <1>7 DEF LinkAccount, Finish, Goto, routes
  <2>2. /\ p \in Pid /\ lead[p].state # "free" /\ DOMAIN loc[r].row = RowFields
        /\ loc[r].row.uid = None /\ loc[r].arg \in Nat
    BY <1>2, <2>1 DEF Held, Holding, AccountInv, AccountsTyped
  <2>3. /\ \A f \in RowFields \ {"uid"} : new[f] = loc[r].row[f]
        /\ new.uid = loc[r].arg /\ {"uid", "state"} \subseteq RowFields
    BY <2>2 DEF RowFields
  <2> HIDE DEF new
  <2>4. loc[r].arg # None
    BY <2>2, LeadAssumption
  <2>5. \A t \in Pid \ {p} : lead'[t] = lead[t]
    BY <1>2, <2>1, <2>3, WriteTouches DEF Holding, Columns, TableInv
  <2>6. lead'[p].uid # None
    <3>1. lead'[p].uid = IF loc[r].row.uid = new.uid THEN lead[p].uid ELSE new.uid
      BY <1>2, <2>1, <2>3, WriteTouches DEF Holding, Columns, TableInv
    <3> QED BY <2>2, <2>3, <2>4, <3>1
  <2>7. AccountsTyped'
    BY <1>1, <2>1 DEF AccountInv, AccountsTyped
  <2>8. ASSUME ~PromotionsMet', NEW t \in Pid, Fair(t) PROVE Fair(t)'
    <3>1. \A q \in Req : pc'[q] \in {"call", "link"} => pc'[q] = pc[q] /\ loc'[q] = loc[q]
      BY <1>1, <2>1
    <3>2. CASE t = p
      BY <1>3, <2>1, <2>2, <2>6, <2>8, <3>1, <3>2 DEF Fair
    <3>3. CASE t # p
      <4>1. \A q \in Req : pc[q] = "link" /\ loc[q].lead = t => q # r
        BY <3>3
      <4> HIDE DEF p
      <4> QED BY <1>1, <2>1, <2>5, <2>8, <3>1, <3>3, <4>1 DEF Fair
    <3> QED BY <3>2, <3>3
  <2> QED BY <1>1, <2>7, <2>8, PromotionsMetStays DEF AccountInv
<1>8. CASE ~Promote(r) /\ ~CallHhBe(r) /\ ~LinkAccount(r)
  <2>1. pc[r] # "link" /\ UNCHANGED accounts /\ pc'[r] \notin {"call", "link"}
    <3>1. ASSUME NEW label, label \in {"insert", "edit", "remove", "move", "log", "reject", "row"},
                 NEW session, Begin(r, label, session), UNCHANGED routes
          PROVE  pc[r] # "link" /\ UNCHANGED accounts /\ pc'[r] \notin {"call", "link"}
      BY <1>1, <3>1, BeginLaunches DEF Launch, routes
    <3>2. CASE CreateLead(r) \/ DeleteLead(r) \/ MoveLead(r) \/ Decide(r)
      BY <3>1, <3>2 DEF CreateLead, DeleteLead, MoveLead, Decide
    <3>7. CASE PatchLead(r)
      BY <3>1, <3>7 DEF PatchLead
    <3>8. CASE RejectMerge(r) \/ ImportFile(r)
      BY <3>1, <3>8 DEF RejectMerge, ImportFile
    <3>3. CASE CommitLead(r) \/ CommitEdit(r) \/ CommitDelete(r) \/ CommitMove(r)
      BY <1>1, <3>3 DEF CommitLead, CommitEdit, CommitDelete, CommitMove, Finish, Broken, Goto, routes
    <3>4. CASE LogMerge(r) \/ DropLoser(r) \/ MarkMerged(r) \/ MarkRejected(r) \/ ImportDone(r)
      BY <1>1, <3>4 DEF LogMerge, DropLoser, MarkMerged, MarkRejected, ImportDone, Finish, Goto, routes
    <3>5. CASE Convert(r)
      BY <1>1, <3>5 DEF Convert, Finish, Goto, routes
    <3>6. CASE ImportRow(r)
      BY <1>1, <3>6 DEF ImportRow, Broken, Goto, routes
    <3> QED BY <1>8, <3>2, <3>3, <3>4, <3>5, <3>6, <3>7, <3>8 DEF RoutesNext
  <2> QED BY <1>4, <2>1
<1> QED BY <1>5, <1>6, <1>7, <1>8

\* A step of others, or of nobody.
LEMMA AccountElsewhere ==
  ASSUME TableInv, Desk, AccountInv, Elsewhere(RouteLabels), UNCHANGED routes,
         UNCHANGED lead \/ \E at : at # "link" /\ Touches(at)
  PROVE  AccountInv'
<1>1. UNCHANGED accounts /\ met \subseteq met' /\ died \subseteq died'
  BY DEF routes, Elsewhere
<1>2. \A q \in Req : pc'[q] \in {"call", "link"} => pc'[q] = pc[q] /\ loc'[q] = loc[q]
  BY DEF Elsewhere, RouteLabels
<1>3. \A q \in Req : pc[q] = "link" => (pc'[q] = pc[q] /\ loc'[q] = loc[q]) \/ PromotionsMet'
  BY DEF Elsewhere, RouteLabels, Desk, RouteKinds, RouteKind, PromotionsMet
<1>4. \A p \in Pid : lead[p].state # "free" =>
         lead'[p].state # "free" /\ lead'[p].uid = lead[p].uid
  <2>1. ASSUME NEW at, at # "link", Touches(at), NEW p \in Pid, lead[p].state # "free"
        PROVE  lead'[p].state # "free" /\ lead'[p].uid = lead[p].uid
    BY <2>1, RowsStay DEF Touches, Columns, RowFields
  <2> QED BY <2>1
<1> QED BY <1>1, <1>2, <1>3, <1>4, AccountGoesOn

\* The accounts at the start.
LEMMA AccountStarts == Init => AccountInv
<1> SUFFICES ASSUME Init PROVE AccountInv
  OBVIOUS
<1>1. \A r \in Req : pc[r] = "idle"
  BY DEF Init, LeadInit, DeskInit
<1>2. accounts = [p \in Pid |-> NoAccount]
  BY DEF Init, RoutesInit
<1>3. AccountsTyped
  BY <1>1, <1>2 DEF AccountsTyped, NoAccount
<1>4. \A p \in Pid : Fair(p)
  BY <1>1, <1>2 DEF Fair, NoAccount
<1> QED BY <1>3, <1>4 DEF AccountInv

\* A lead gets one HH-BE account, and one more for each whose id did not arrive, and an id
\* that arrived is stored, unless two promotions overlapped or one died behind the call
\* (prospects/routes.py promote_to_thh).
THEOREM OneAccountHolds == Spec => []OneAccount
<1>1. Init => Desk /\ TableInv /\ AccountInv
  BY DeskStarts, TableStarts, AccountStarts
<1>2. Desk /\ TableInv /\ AccountInv /\ [Next]_vars => (Desk /\ TableInv /\ AccountInv)'
  <2> SUFFICES ASSUME Desk, TableInv, AccountInv, [Next]_vars
               PROVE  (Desk /\ TableInv /\ AccountInv)'
    OBVIOUS
  <2>1. Desk' /\ TableInv'
    BY TableSteps
  <2>2. ASSUME NEW r \in Req, RoutesNext(r), Acts(r, RouteLabels), Touches(pc[r])
        PROVE  AccountInv'
    BY <2>1, <2>2, AccountStep
  <2>3. ASSUME NEW r \in Req, NEW labels, Acts(r, labels), labels \in {SignupLabels, HookLabels},
               Touches(pc[r]), Elsewhere(RouteLabels), UNCHANGED routes
        PROVE  AccountInv'
    <3>1. "link" \notin SignupLabels /\ "link" \notin HookLabels
      BY DEF SignupLabels, VisitLabels, VerifyLabels, HookLabels
    <3>2. pc[r] # "link"
      BY <2>3, <3>1 DEF Acts
    <3> QED BY <2>1, <2>3, <3>2, AccountElsewhere
  <2>4. CASE Aside
    BY <2>1, <2>4, AccountElsewhere DEF Aside
  <2> QED BY <2>1, <2>2, <2>3, <2>4, TableSteps
<1>3. Desk /\ AccountInv => OneAccount
  <2> SUFFICES ASSUME Desk, AccountInv, ~PromotionsMet, NEW p \in Pid
               PROVE  /\ accounts[p].made <= accounts[p].unheard + 1
                      /\ accounts[p].made > accounts[p].unheard =>
                            \/ lead[p].uid # None
                            \/ \E r \in Active : loc[r].op = "promote" /\ loc[r].lead = p
    BY DEF OneAccount, PromotionsMet
  <2>1. Fair(p) /\ accounts[p].made \in Nat /\ accounts[p].unheard \in Nat
    BY DEF AccountInv, AccountsTyped
  <2>2. \A r \in Req : pc[r] = "link" => r \in Active /\ loc[r].op = "promote"
    BY DEF Desk, RouteKinds, RouteKind, Active, Over
  <2> QED BY <2>1, <2>2 DEF Fair
<1> QED BY <1>1, <1>2, <1>3, PTL DEF Spec

-----------------------------------------------------------------------------
(***************************************************************************)
(* Opt-outs.                                                               *)
(***************************************************************************)
\* An opt-out overlapped with a visit, or one died.
OptOutsMet == Met("optout", "visit") \/ "optout" \in died

\* A lead whose opt-out is on record is unsubscribed or about to be, and no visit is
\* about to write over it.
Kept(p) ==
    /\ lead[p].state # "free"
    /\ \/ lead[p].stage = "unsubscribed"
       \/ \E r \in Req : pc[r] = "leave" /\ loc[r].lead = p
    /\ \A r \in Req : pc[r] = "curious" => loc[r].lead # p
Leaving == \A r \in Req : pc[r] = "leave" => loc[r].row.stage # "unsubscribed"
OutInv == Leaving /\ out \subseteq Pid /\ (OptOutsMet \/ \A p \in out : Kept(p))

\* What was met or died stays so.
LEMMA OptOutsMetStays ==
  ASSUME met \subseteq met', died \subseteq died', OptOutsMet
  PROVE  OptOutsMet'
BY DEF OptOutsMet, Met

\* A step that takes no lead out and leaves the stages of those that are out alone.
LEMMA OutGoesOn ==
  ASSUME TableInv, OutInv, out' \subseteq out,
         met \subseteq met', died \subseteq died',
         \A q \in Req : pc'[q] \in {"leave", "curious"} => pc'[q] = pc[q] /\ loc'[q] = loc[q],
         \A q \in Req : pc[q] = "leave" =>
            (pc'[q] = pc[q] /\ loc'[q] = loc[q]) \/ OptOutsMet',
         OptOutsMet' \/ \A p \in out' : lead[p].state # "free" =>
            lead'[p].state # "free" /\ lead'[p].stage = lead[p].stage
  PROVE  OutInv'
<1>1. Leaving' /\ out' \subseteq Pid
  BY DEF OutInv, Leaving
<1>2. ASSUME ~OptOutsMet', NEW p \in out', Kept(p) PROVE Kept(p)'
  BY <1>2 DEF Kept
<1> QED BY <1>1, <1>2, OptOutsMetStays DEF OutInv

\* Opt-outs and visits that did not meet do not share the desk.
LEMMA OptsOutAlone ==
  ASSUME Desk', ~OptOutsMet', NEW r \in Req, NEW q \in Req,
         pc'[r] \in {"opt_out", "leave", "name"}, pc'[q] \in {"curious?", "curious"}
  PROVE  FALSE
<1>1. r \in Active' /\ q \in Active' /\ q # r
  BY DEF Active, Over
<1>2. loc'[r].op = "optout" /\ loc'[q].op = "visit"
  BY DEF Desk, SignupKinds, SignupKind, VisitLabels
<1> QED BY <1>1, <1>2 DEF Desk, Noticed, OptOutsMet, Met

\* Stages are written where Columns says.
LEMMA StageKept ==
  ASSUME NEW at, Touches(at), at \notin {"move", "convert", "curious", "leave"},
         NEW p \in Pid, lead[p].state # "free"
  PROVE  lead'[p].state # "free" /\ lead'[p].stage = lead[p].stage
BY RowsStay DEF Touches, Columns, RowFields

\* Each step of the routes.
LEMMA OutRouteStep ==
  ASSUME TableInv, Desk, OutInv, NEW r \in Req, RoutesNext(r), Acts(r, RouteLabels),
         Touches(pc[r]), Elsewhere(SignupLabels)
  PROVE  OutInv'
<1>1. /\ met \subseteq met' /\ died \subseteq died'
      /\ \A q \in Req : pc'[q] \in {"leave", "curious"} => pc'[q] = pc[q] /\ loc'[q] = loc[q]
  BY DEF Elsewhere, SignupLabels, VisitLabels
<1>2. \A q \in Req : pc[q] = "leave" =>
         (pc'[q] = pc[q] /\ loc'[q] = loc[q]) \/ OptOutsMet'
  BY DEF Elsewhere, SignupLabels, OptOutsMet, Desk, SignupKinds, SignupKind
<1>3. LeadTyped /\ Held(pc[r], loc[r], lead) /\ out \subseteq Pid
  BY DEF TableInv, OutInv
<1>4. ASSUME pc[r] \in {"move", "convert"}, NEW v,
             WriteBack(r, [loc[r].row EXCEPT !.stage = v]), out' = out \ {loc[r].lead}
      PROVE  OutInv'
  <2> DEFINE new == [loc[r].row EXCEPT !.stage = v]
  <2>1. DOMAIN loc[r].row = RowFields
    BY <1>3, <1>4 DEF Held, Holding
  <2>2. \A f \in RowFields \ {"stage"} : new[f] = loc[r].row[f]
    BY <2>1
  <2>3. WriteBack(r, new)
    BY <1>4
  <2> HIDE DEF new
  <2>4. \A q \in Pid \ {loc[r].lead} : lead'[q] = lead[q]
    BY <1>3, <1>4, <2>2, <2>3, WriteTouches DEF Holding, Columns, RowFields
  <2> QED BY <1>1, <1>2, <1>3, <1>4, <2>4, OutGoesOn
<1>5. CASE CommitMove(r)
  BY <1>4, <1>5 DEF CommitMove
<1>6. CASE Convert(r)
  BY <1>4, <1>6 DEF Convert
<1>7. ASSUME pc[r] \notin {"move", "convert"}, UNCHANGED out PROVE OutInv'
  <2>1. pc[r] \notin {"curious", "leave"}
    BY DEF Acts, RouteLabels
  <2>2. \A p \in out' : lead[p].state # "free" =>
           lead'[p].state # "free" /\ lead'[p].stage = lead[p].stage
    BY <1>3, <1>7, <2>1, StageKept
  <2> QED BY <1>1, <1>2, <1>7, <2>2, OutGoesOn
<1>8. CASE ~CommitMove(r) /\ ~Convert(r)
  <2>1. ASSUME NEW label, NEW s, Begin(r, label, s)
        PROVE  pc[r] \notin {"move", "convert"} /\ UNCHANGED out
    BY <2>1 DEF Begin, Launch, moved
  <2>2. CASE CreateLead(r) \/ DeleteLead(r) \/ MoveLead(r) \/ Decide(r)
    BY <1>7, <2>1, <2>2 DEF CreateLead, DeleteLead, MoveLead, Decide
  <2>3. CASE PatchLead(r)
    BY <1>7, <2>1, <2>3 DEF PatchLead
  <2>4. CASE RejectMerge(r) \/ ImportFile(r) \/ Promote(r)
    BY <1>7, <2>1, <2>4 DEF RejectMerge, ImportFile, Promote
  <2>5. CASE CommitLead(r) \/ CommitEdit(r) \/ CommitDelete(r)
    BY <1>7, <2>5 DEF CommitLead, CommitEdit, CommitDelete, moved
  <2>6. CASE LogMerge(r) \/ DropLoser(r) \/ MarkMerged(r) \/ MarkRejected(r) \/ ImportDone(r)
    BY <1>7, <2>6 DEF LogMerge, DropLoser, MarkMerged, MarkRejected, ImportDone, moved
  <2>7. CASE CallHhBe(r) \/ LinkAccount(r)
    BY <1>7, <2>7 DEF CallHhBe, LinkAccount, moved
  <2>8. CASE ImportRow(r)
    BY <1>7, <2>8 DEF ImportRow, moved
  <2> QED BY <1>8, <2>2, <2>3, <2>4, <2>5, <2>6, <2>7, <2>8 DEF RoutesNext
<1> QED BY <1>5, <1>6, <1>8

\* Each step of visits, signups and opt-outs.
LEMMA OutSignupStep ==
  ASSUME TableInv, Desk, Desk', OutInv, NEW r \in Req, SignupNext(r),
         Acts(r, SignupLabels), Touches(pc[r])
  PROVE  OutInv'
<1>1. /\ \A q \in Req \ {r} : pc'[q] = pc[q] /\ loc'[q] = loc[q]
      /\ r \in DOMAIN pc /\ r \in DOMAIN loc
      /\ met \subseteq met' /\ died \subseteq died'
  BY DEF Acts, Desk, Placed
<1>2. /\ LeadTyped /\ Held(pc[r], loc[r], lead) /\ out \subseteq Pid
      /\ SignupKind(pc[r], loc[r])
  BY DEF TableInv, OutInv, Desk, SignupKinds
<1>3. CASE GetVisitor(r)
  <2>1. pc[r] = "curious?" /\ UNCHANGED <<lead, out>>
    BY <1>3 DEF GetVisitor, moved
  <2>2. CASE Finish(r)
    BY <1>1, <2>1, <2>2, OutGoesOn DEF Finish, Goto
  <2>3. ASSUME NEW p \in LiveIn(lead), lead[p].stage = "cold",
               Goto(r, "curious", Session("visit", p, None))
        PROVE  OutInv'
    <3>1. pc'[r] = "curious" /\ loc'[r].lead = p
      BY <1>1, <2>3, SessionHolds DEF Goto
    <3>2. Leaving'
      BY <1>1, <3>1 DEF OutInv, Leaving
    <3>3. ASSUME ~OptOutsMet', \A t \in out : Kept(t), NEW t \in out PROVE Kept(t)'
      <4>1. \A q \in Req : pc'[q] # "leave"
        BY <3>1, <3>3, OptsOutAlone
      <4>2. \A q \in Req : pc[q] # "leave"
        BY <1>1, <2>1, <4>1
      <4>3. lead[t].stage = "unsubscribed" /\ t # p
        BY <2>3, <3>3, <4>2 DEF Kept
      <4> QED BY <1>1, <2>1, <3>1, <3>3, <4>3 DEF Kept
    <3> QED BY <1>1, <1>2, <2>1, <3>2, <3>3, OptOutsMetStays DEF OutInv
  <2> QED BY <1>3, <2>2, <2>3 DEF GetVisitor
<1>4. CASE TurnCurious(r)
  <2> DEFINE new == [loc[r].row EXCEPT !.stage = "curious"]
             p == loc[r].lead
  <2>1. pc[r] = "curious" /\ WriteBack(r, new) /\ pc'[r] = "done" /\ UNCHANGED out
    BY <1>1, <1>4 DEF TurnCurious, Finish, Goto, moved
  <2>2. DOMAIN loc[r].row = RowFields
    BY <1>2, <2>1 DEF Held, Holding
  <2>3. \A f \in RowFields \ {"stage"} : new[f] = loc[r].row[f]
    BY <2>2
  <2> HIDE DEF new
  <2>4. \A q \in Pid \ {p} : lead'[q] = lead[q]
    BY <1>2, <2>1, <2>3, WriteTouches DEF Holding, Columns, RowFields
  <2>5. OptOutsMet \/ p \notin out
    BY <2>1 DEF OutInv, Kept
  <2>6. OptOutsMet' \/ \A t \in out' : lead[t].state # "free" =>
           lead'[t].state # "free" /\ lead'[t].stage = lead[t].stage
    BY <1>1, <1>2, <2>1, <2>4, <2>5, OptOutsMetStays
  <2> QED BY <1>1, <2>1, <2>6, OutGoesOn
<1>5. CASE InsertOptOut(r)
  <2>1. pc[r] = "opt_out" /\ UNCHANGED <<lead, removed>>
    BY <1>5 DEF InsertOptOut
  <2>2. CASE UNCHANGED out /\ (Finish(r) \/ Broken(r))
    BY <1>1, <2>1, <2>2, OutGoesOn DEF Finish, Broken, Goto
  <2>3. ASSUME NEW p \in LiveIn(lead), out' = out \cup {p},
               \/ lead[p].stage = "unsubscribed" /\ Finish(r)
               \/ /\ lead[p].stage # "unsubscribed"
                  /\ Goto(r, "leave", Session("optout", p, loc[r].arg))
        PROVE  OutInv'
    <3>1. p \in Pid /\ lead[p].state # "free" /\ p # None
      BY NoneNoId DEF LiveIn
    <3>2. \/ lead[p].stage = "unsubscribed" /\ pc'[r] = "done"
          \/ /\ pc'[r] = "leave" /\ loc'[r].lead = p
             /\ loc'[r].row.stage # "unsubscribed"
      BY <1>1, <2>3, <3>1, SessionHolds DEF Finish, Goto
    <3>3. Leaving'
      BY <1>1, <3>2 DEF OutInv, Leaving
    <3>4. pc[r] # "leave" /\ pc'[r] # "curious"
      BY <2>1, <3>2
    <3>5. ASSUME ~OptOutsMet', \A t \in out : Kept(t), NEW t \in out' PROVE Kept(t)'
      <4>1. CASE t = p
        <5>1. \A q \in Req : q # r => pc'[q] # "curious"
          <6> SUFFICES ASSUME NEW q \in Req, q # r, pc'[q] = "curious" PROVE FALSE
            OBVIOUS
          <6>1. pc[q] = "curious" /\ loc[q].op = "visit" /\ loc[r].op = "optout"
            BY <1>1, <1>2, <2>1 DEF Desk, SignupKinds, SignupKind, VisitLabels
          <6>2. q \in Active /\ r \in Active
            BY <2>1, <6>1 DEF Active, Over
          <6>3. Met("optout", "visit")
            BY <6>1, <6>2 DEF Desk, Noticed, Met
          <6> QED BY <1>1, <3>5, <6>3 DEF OptOutsMet, Met
        <5> QED BY <2>1, <3>1, <3>2, <3>4, <4>1, <5>1 DEF Kept
      <4>2. CASE t # p
        <5>1. t \in out
          BY <2>3, <4>2
        <5> QED BY <1>1, <2>1, <3>4, <3>5, <5>1 DEF Kept
      <4> QED BY <4>1, <4>2
    <3> QED BY <1>1, <1>2, <2>3, <3>1, <3>3, <3>5, OptOutsMetStays DEF OutInv
  <2> QED BY <1>5, <2>2, <2>3 DEF InsertOptOut, ByEmail
<1>6. CASE LeaveFunnel(r)
  <2> DEFINE new == [loc[r].row EXCEPT !.stage = "unsubscribed"]
             p == loc[r].lead
  <2>1. pc[r] = "leave" /\ WriteBack(r, new) /\ pc'[r] = "name" /\ out' = out \cup {p}
    BY <1>1, <1>6 DEF LeaveFunnel, Goto
  <2>2. /\ DOMAIN loc[r].row = RowFields /\ loc[r].row.stage # "unsubscribed"
        /\ p \in Pid /\ lead[p].state # "free"
    BY <1>2, <2>1 DEF Held, Holding, OutInv, Leaving
  <2>3. /\ \A f \in RowFields \ {"stage"} : new[f] = loc[r].row[f]
        /\ new.stage = "unsubscribed" /\ "stage" \in RowFields
    BY <2>2 DEF RowFields
  <2> HIDE DEF new
  <2>4. /\ \A q \in Pid \ {p} : lead'[q] = lead[q]
        /\ lead'[p].stage = IF loc[r].row.stage = new.stage THEN lead[p].stage ELSE new.stage
    BY <1>2, <2>1, <2>3, WriteTouches DEF Holding, Columns, RowFields
  <2>5. lead'[p].stage = "unsubscribed"
    BY <2>2, <2>3, <2>4
  <2>6. lead'[p].state # "free"
    BY <2>2, RowsStay
  <2>7. Leaving'
    BY <1>1, <2>1 DEF OutInv, Leaving
  <2>8. ASSUME ~OptOutsMet', \A t \in out : Kept(t), NEW t \in out' PROVE Kept(t)'
    <3>1. CASE t = p
      <4>1. \A q \in Req : pc'[q] # "curious"
        BY <2>1, <2>8, OptsOutAlone
      <4> QED BY <2>5, <2>6, <3>1, <4>1 DEF Kept
    <3>2. CASE t # p
      <4>1. t \in out /\ t \in Pid
        BY <1>2, <2>1, <3>2
      <4>2. \A q \in Req : pc[q] = "leave" /\ loc[q].lead = t => q # r
        BY <3>2
      <4> HIDE DEF p
      <4> QED BY <1>1, <2>1, <2>4, <2>8, <3>2, <4>1, <4>2 DEF Kept
    <3> QED BY <3>1, <3>2
  <2> QED BY <1>1, <1>2, <2>1, <2>2, <2>7, <2>8, OptOutsMetStays DEF OutInv
<1>7. ASSUME pc[r] \notin {"curious", "leave"}, UNCHANGED out, pc'[r] \notin {"curious", "leave"}
      PROVE  OutInv'
  <2>1. pc[r] \notin {"move", "convert"}
    BY DEF Acts, SignupLabels, VisitLabels, VerifyLabels
  <2>2. \A p \in out' : lead[p].state # "free" =>
           lead'[p].state # "free" /\ lead'[p].stage = lead[p].stage
    BY <1>2, <1>7, <2>1, StageKept
  <2> QED BY <1>1, <1>7, <2>2, OutGoesOn
<1>8. CASE ~GetVisitor(r) /\ ~TurnCurious(r) /\ ~InsertOptOut(r) /\ ~LeaveFunnel(r)
  <2> DEFINE Elsewise == /\ pc[r] \notin {"curious", "leave"} /\ UNCHANGED out
                         /\ pc'[r] \notin {"curious", "leave"}
  <2>1. ASSUME NEW label \in {"visit", "sign_up", "resend", "check", "erase", "opt_out"},
               NEW s, Begin(r, label, s)
        PROVE  Elsewise
    BY <1>1, <2>1, BeginLaunches DEF Launch, moved
  <2>2. CASE Visit(r) \/ SignUp(r) \/ Resend(r)
    BY <1>7, <2>1, <2>2 DEF Visit, SignUp, Resend
  <2>3. CASE Verify(r) \/ Erase(r) \/ OptOut(r)
    BY <1>7, <2>1, <2>3 DEF Verify, Erase, OptOut
  <2>4. CASE InsertVisit(r) \/ BumpPage(r) \/ GetVariant(r) \/ BumpVariant(r)
    BY <1>1, <1>7, <2>4 DEF InsertVisit, BumpPage, GetVariant, BumpVariant, Goto, Finish, moved
  <2>5. CASE InsertSignup(r) \/ SendFirst(r) \/ SendAgain(r) \/ BumpSignup(r)
    BY <1>1, <1>7, <2>5 DEF InsertSignup, SendFirst, SendAgain, BumpSignup, Goto, Finish, Broken, moved
  <2>6. CASE MarkVerified(r) \/ FindLead(r)
    BY <1>1, <1>7, <2>6 DEF MarkVerified, FindLead, Goto, Finish, Broken, moved
  <2>7. CASE NewLead(r) \/ Attach(r) \/ Register(r)
    BY <1>1, <1>7, <2>7 DEF NewLead, Attach, Register, Goto, Finish, Broken, moved
  <2>8. CASE CommitErase(r) \/ NameLead(r)
    BY <1>1, <1>7, <2>8 DEF CommitErase, NameLead, Goto, Finish, moved
  <2> QED BY <1>8, <2>2, <2>3, <2>4, <2>5, <2>6, <2>7, <2>8 DEF SignupNext
<1> QED BY <1>3, <1>4, <1>5, <1>6, <1>8

\* Webhooks leave the stages alone.
LEMMA HooksMoveNobody ==
  ASSUME NEW r \in Req, WebhookNext(r)
  PROVE  UNCHANGED moved
<1>1. CASE Deliver(r)
  BY <1>1 DEF Deliver, Begin
<1>2. CASE Receive(r) \/ Book(r) \/ LogEvent(r)
  BY <1>2 DEF Receive, Book, LogEvent
<1>3. CASE AddContact(r) \/ FillBlanks(r)
  BY <1>3 DEF AddContact, FillBlanks
<1>4. CASE MarkProcessed(r) \/ AuditApollo(r) \/ Fault(r) \/ MarkFailed(r)
  BY <1>4 DEF MarkProcessed, AuditApollo, Fault, MarkFailed
<1> QED BY <1>1, <1>2, <1>3, <1>4 DEF WebhookNext

\* A step of others, or of nobody.
LEMMA OutElsewhere ==
  ASSUME TableInv, Desk, OutInv, Elsewhere(SignupLabels), UNCHANGED out,
         \/ UNCHANGED lead
         \/ \E at : at \notin {"move", "convert", "curious", "leave"} /\ Touches(at)
  PROVE  OutInv'
<1>1. /\ met \subseteq met' /\ died \subseteq died'
      /\ \A q \in Req : pc'[q] \in {"leave", "curious"} => pc'[q] = pc[q] /\ loc'[q] = loc[q]
  BY DEF Elsewhere, SignupLabels, VisitLabels
<1>2. \A q \in Req : pc[q] = "leave" =>
         (pc'[q] = pc[q] /\ loc'[q] = loc[q]) \/ OptOutsMet'
  BY DEF Elsewhere, SignupLabels, OptOutsMet, Desk, SignupKinds, SignupKind
<1>3. \A p \in out' : lead[p].state # "free" =>
         lead'[p].state # "free" /\ lead'[p].stage = lead[p].stage
  BY StageKept DEF OutInv
<1> QED BY <1>1, <1>2, <1>3, OutGoesOn

\* Nobody opted out at the start.
LEMMA OutStarts == Init => OutInv
BY DEF Init, LeadInit, DeskInit, OutInv, Leaving

\* A lead whose opt-out is on record is unsubscribed, or its opt-out is at work on
\* it, unless an opt-out overlapped with a visit or died (unsubscribes/routes.py,
\* landing_pages promote_to_curious_on_visit).
THEOREM StaysOutHolds == Spec => []StaysOut
<1>1. Init => Desk /\ TableInv /\ OutInv
  BY DeskStarts, TableStarts, OutStarts
<1>2. Desk /\ TableInv /\ OutInv /\ [Next]_vars => (Desk /\ TableInv /\ OutInv)'
  <2> SUFFICES ASSUME Desk, TableInv, OutInv, [Next]_vars
               PROVE  (Desk /\ TableInv /\ OutInv)'
    OBVIOUS
  <2>1. Desk' /\ TableInv'
    BY TableSteps
  <2>2. ASSUME NEW r \in Req, RoutesNext(r), Acts(r, RouteLabels), Touches(pc[r]),
               Elsewhere(SignupLabels)
        PROVE  OutInv'
    BY <2>2, OutRouteStep
  <2>3. ASSUME NEW r \in Req, SignupNext(r), Acts(r, SignupLabels), Touches(pc[r])
        PROVE  OutInv'
    BY <2>1, <2>3, OutSignupStep
  <2>4. ASSUME NEW r \in Req, WebhookNext(r), Acts(r, HookLabels), Touches(pc[r]),
               Elsewhere(SignupLabels)
        PROVE  OutInv'
    <3>1. pc[r] \notin {"move", "convert", "curious", "leave"}
      BY <2>4 DEF Acts, HookLabels
    <3>2. UNCHANGED out
      BY <2>4, HooksMoveNobody DEF moved
    <3> QED BY <2>4, <3>1, <3>2, OutElsewhere
  <2>5. ASSUME Aside PROVE OutInv'
    BY <2>5, OutElsewhere DEF Aside, moved
  <2> QED BY <2>1, <2>2, <2>3, <2>4, <2>5, TableSteps
<1>3. Desk /\ OutInv => StaysOut
  <2> SUFFICES ASSUME Desk, OutInv, NEW p \in out, ~OptOutsMet
               PROVE  \/ lead[p].stage = "unsubscribed"
                      \/ \E r \in Active : loc[r].op = "optout" /\ loc[r].lead = p
    BY DEF StaysOut, OptOutsMet
  <2>1. ASSUME NEW r \in Req, pc[r] = "leave"
        PROVE  r \in Active /\ loc[r].op = "optout"
    BY <2>1 DEF Active, Over, Desk, SignupKinds, SignupKind
  <2> QED BY <2>1 DEF OutInv, Kept
<1> QED BY <1>1, <1>2, <1>3, PTL DEF Spec

-----------------------------------------------------------------------------
(***************************************************************************)
(* Merges.                                                                 *)
(***************************************************************************)
\* Who lives, or was removed by a person.
Lives(p) == lead[p].state = "live" \/ p \in removed

\* The lead that an entry of the log keeps lives on, or a later entry merges it.
Outlives(i) ==
    LET kept == mergeLog[i][1] IN
    kept # mergeLog[i][2] =>
        Lives(kept) \/ \E j \in DOMAIN mergeLog : j > i /\ mergeLog[j][2] = kept

\* A decision keeps a lead that lives, and its entry is the last one of the log when
\* it drops the other.
Decides(r) ==
    /\ pc[r] = "log" => Lives(loc[r].arg.kept)
    /\ pc[r] = "drop" => /\ Len(mergeLog) > 0
                         /\ mergeLog[Len(mergeLog)][2] = loc[r].lead
MergeTyped ==
    /\ mergeLog \in Seq(Pid \X Pid)
    /\ \A r \in Req : pc[r] = "log" => loc[r].arg.kept \in Pid
MergeInv ==
    /\ MergeTyped
    /\ \/ Met("decide", "decide")
       \/ (\A i \in DOMAIN mergeLog : Outlives(i)) /\ \A r \in Req : Decides(r)

\* A lead that a person removes is on record as removed.
LEMMA RoutesRemove ==
  ASSUME NEW r \in Req, RoutesNext(r), ~CommitDelete(r)
  PROVE  pc[r] # "remove" /\ removed' = removed
<1>1. ASSUME NEW label, NEW s, Begin(r, label, s) PROVE pc[r] # "remove" /\ removed' = removed
  BY <1>1 DEF Begin, Launch, moved
<1>2. CASE CreateLead(r) \/ DeleteLead(r) \/ MoveLead(r) \/ Decide(r)
  BY <1>1, <1>2 DEF CreateLead, DeleteLead, MoveLead, Decide
<1>3. CASE PatchLead(r)
  BY <1>1, <1>3 DEF PatchLead
<1>4. CASE RejectMerge(r) \/ ImportFile(r) \/ Promote(r)
  BY <1>1, <1>4 DEF RejectMerge, ImportFile, Promote
<1>5. CASE CommitLead(r) \/ CommitEdit(r) \/ CommitMove(r)
  BY <1>5 DEF CommitLead, CommitEdit, CommitMove, moved
<1>6. CASE LogMerge(r) \/ DropLoser(r) \/ MarkMerged(r) \/ MarkRejected(r) \/ ImportDone(r)
  BY <1>6 DEF LogMerge, DropLoser, MarkMerged, MarkRejected, ImportDone, moved
<1>7. CASE CallHhBe(r) \/ LinkAccount(r) \/ Convert(r)
  BY <1>7 DEF CallHhBe, LinkAccount, Convert, moved
<1>8. CASE ImportRow(r)
  BY <1>8 DEF ImportRow, moved
<1> QED BY <1>2, <1>3, <1>4, <1>5, <1>6, <1>7, <1>8 DEF RoutesNext

\* The same of a signup that is erased.
LEMMA SignupsRemove ==
  ASSUME NEW r \in Req, SignupNext(r), ~CommitErase(r)
  PROVE  pc[r] # "erase" /\ removed' = removed
<1>1. ASSUME NEW label, NEW s, Begin(r, label, s) PROVE pc[r] # "erase" /\ removed' = removed
  BY <1>1 DEF Begin, Launch, moved
<1>2. CASE Visit(r) \/ SignUp(r) \/ Resend(r)
  BY <1>1, <1>2 DEF Visit, SignUp, Resend
<1>3. CASE Verify(r) \/ Erase(r) \/ OptOut(r)
  BY <1>1, <1>3 DEF Verify, Erase, OptOut
<1>4. CASE InsertVisit(r) \/ BumpPage(r) \/ GetVariant(r) \/ BumpVariant(r)
  BY <1>4 DEF InsertVisit, BumpPage, GetVariant, BumpVariant, moved
<1>5. CASE InsertSignup(r) \/ SendFirst(r) \/ SendAgain(r) \/ BumpSignup(r)
  BY <1>5 DEF InsertSignup, SendFirst, SendAgain, BumpSignup, moved
<1>6. CASE MarkVerified(r) \/ FindLead(r) \/ GetVisitor(r) \/ TurnCurious(r)
  BY <1>6 DEF MarkVerified, FindLead, GetVisitor, TurnCurious, moved
<1>7. CASE NewLead(r) \/ Attach(r) \/ Register(r)
  BY <1>7 DEF NewLead, Attach, Register, moved
<1>8. CASE InsertOptOut(r) \/ LeaveFunnel(r) \/ NameLead(r)
  BY <1>8 DEF InsertOptOut, LeaveFunnel, NameLead, moved
<1> QED BY <1>2, <1>3, <1>4, <1>5, <1>6, <1>7, <1>8 DEF SignupNext

\* A step at a place that writes no state leaves the living alive.
LEMMA StateKept ==
  ASSUME NEW at, Touches(at), at \notin {"remove", "drop", "erase"}, removed \subseteq removed'
  PROVE  \A p \in Pid : Lives(p) => Lives(p)'
BY DEF Touches, Columns, RowFields, Lives

\* A step that writes to one lead, which it has on record as removed.
LEMMA RemovedLives ==
  ASSUME NEW p, \A q \in Pid \ {p} : lead'[q] = lead[q], removed' = removed \cup {p}
  PROVE  \A q \in Pid : Lives(q) => Lives(q)'
BY DEF Lives

\* What lives goes on living, but for whom a decision drops.
LEMMA RoutesLive ==
  ASSUME TableInv, NEW r \in Req, RoutesNext(r), Acts(r, RouteLabels), Touches(pc[r]),
         pc[r] # "drop"
  PROVE  \A p \in Pid : Lives(p) => Lives(p)'
<1>1. CASE CommitDelete(r)
  <2> DEFINE new == [loc[r].row EXCEPT !.state = "deleted"]
  <2>1. pc[r] = "remove" /\ WriteBack(r, new) /\ removed' = removed \cup {loc[r].lead}
    BY <1>1 DEF CommitDelete
  <2>2. Held(pc[r], loc[r], lead) /\ LeadTyped
    BY DEF TableInv
  <2>3. DOMAIN loc[r].row = RowFields
    BY <2>1, <2>2 DEF Held, Holding
  <2>4. new.state = "deleted" /\ \A f \in RowFields \ {"state"} : new[f] = loc[r].row[f]
    BY <2>3 DEF RowFields
  <2> HIDE DEF new
  <2>5. \A q \in Pid \ {loc[r].lead} : lead'[q] = lead[q]
    BY <2>1, <2>2, <2>4, WriteTouches DEF Holding, Columns, RowFields
  <2> QED BY <2>1, <2>5, RemovedLives
<1>2. CASE ~CommitDelete(r)
  <2>1. pc[r] \notin {"remove", "erase"} /\ removed' = removed
    BY <1>2, RoutesRemove DEF Acts, RouteLabels
  <2> QED BY <2>1, StateKept
<1> QED BY <1>1, <1>2

\* The same of visits, signups and opt-outs.
LEMMA SignupsLive ==
  ASSUME TableInv, NEW r \in Req, SignupNext(r), Acts(r, SignupLabels), Touches(pc[r])
  PROVE  \A p \in Pid : Lives(p) => Lives(p)'
<1>1. CASE CommitErase(r)
  <2> DEFINE new == [loc[r].row EXCEPT !.state = "deleted"]
             p == loc[r].lead
  <2>1. /\ pc[r] = "erase"
        /\ UNCHANGED lead \/ (p # None /\ WriteBack(r, new))
        /\ removed' = IF p = None THEN removed ELSE removed \cup {p}
    BY <1>1 DEF CommitErase
  <2>2. CASE UNCHANGED lead
    BY <2>1, <2>2 DEF Lives
  <2>3. CASE pc[r] = "erase" /\ p # None /\ WriteBack(r, new)
    <3>2. Held(pc[r], loc[r], lead) /\ LeadTyped
      BY DEF TableInv
    <3>3. DOMAIN loc[r].row = RowFields
      BY <2>3, <3>2 DEF Held
    <3>4. new.state = "deleted" /\ \A f \in RowFields \ {"state"} : new[f] = loc[r].row[f]
      BY <3>3 DEF RowFields
    <3> HIDE DEF new
    <3>5. \A q \in Pid \ {p} : lead'[q] = lead[q]
      BY <2>3, <3>2, <3>4, WriteTouches DEF Columns, RowFields
    <3> QED BY <2>1, <2>3, <3>5, RemovedLives
  <2> QED BY <2>1, <2>2, <2>3
<1>2. CASE ~CommitErase(r)
  <2>1. pc[r] \notin {"remove", "drop", "erase"} /\ removed' = removed
    BY <1>2, SignupsRemove DEF Acts, SignupLabels, VisitLabels, VerifyLabels
  <2> QED BY <2>1, StateKept
<1> QED BY <1>1, <1>2

\* The same of deliveries.
LEMMA HooksLive ==
  ASSUME NEW r \in Req, WebhookNext(r), Acts(r, HookLabels), Touches(pc[r])
  PROVE  \A p \in Pid : Lives(p) => Lives(p)'
<1>1. removed' = removed
  BY HooksMoveNobody DEF moved
<1>2. pc[r] \notin {"remove", "drop", "erase"}
  BY DEF Acts, HookLabels
<1> QED BY <1>1, <1>2, StateKept

\* A step that leaves the log and the decisions alone.
LEMMA MergeGoesOn ==
  ASSUME MergeInv, UNCHANGED mergeLog, met \subseteq met',
         \A q \in Req : pc'[q] \in {"log", "drop"} => pc'[q] = pc[q] /\ loc'[q] = loc[q],
         \A p \in Pid : Lives(p) => Lives(p)'
  PROVE  MergeInv'
<1>1. MergeTyped'
  BY DEF MergeInv, MergeTyped
<1>2. \A i \in DOMAIN mergeLog : mergeLog[i][1] \in Pid
  BY DEF MergeInv, MergeTyped
<1>3. ASSUME NEW i \in DOMAIN mergeLog, Outlives(i) PROVE Outlives(i)'
  BY <1>2, <1>3 DEF Outlives
<1>4. ASSUME NEW q \in Req, Decides(q) PROVE Decides(q)'
  BY <1>4 DEF Decides, MergeInv, MergeTyped
<1> QED BY <1>1, <1>3, <1>4 DEF MergeInv, Met

\* Each step of the routes.
LEMMA MergeRouteStep ==
  ASSUME TableInv, Desk, Desk', MergeInv, NEW r \in Req, RoutesNext(r),
         Acts(r, RouteLabels), Touches(pc[r])
  PROVE  MergeInv'
<1>1. /\ \A q \in Req \ {r} : pc'[q] = pc[q] /\ loc'[q] = loc[q]
      /\ r \in DOMAIN pc /\ r \in DOMAIN loc /\ met \subseteq met'
  BY DEF Acts, Desk, Placed
<1>2. Held(pc[r], loc[r], lead) /\ LeadTyped
  BY DEF TableInv
<1>3. ASSUME ~Met("decide", "decide")', NEW q \in Req, pc'[q] \in {"log", "drop", "mark"},
             pc'[r] \in {"log", "drop", "mark"}
      PROVE  q = r
  <2>1. q \in Active' /\ r \in Active'
    BY <1>3 DEF Active, Over
  <2>2. loc'[q].op = "decide" /\ loc'[r].op = "decide"
    BY <1>3 DEF Desk, RouteKinds, RouteKind
  <2> QED BY <1>3, <2>1, <2>2 DEF Desk, Noticed, Met
<1>4. CASE Decide(r)
  <2>1. PICK kept \in LiveIn(lead), loser \in LiveIn(lead) :
             /\ Begin(r, "log", Session("decide", loser, [kept |-> kept, seen |-> review]))
             /\ UNCHANGED routes
    BY <1>4 DEF Decide
  <2>2. /\ pc[r] = "idle" /\ pc'[r] = "log" /\ loc'[r].arg.kept = kept
        /\ UNCHANGED <<lead, removed, mergeLog>>
    BY <1>1, <2>1, BeginLaunches, SessionHolds DEF Launch, routes, moved
  <2>3. Lives(kept) /\ kept \in Pid
    BY <2>1 DEF Lives, LiveIn
  <2>4. MergeTyped'
    BY <1>1, <2>2, <2>3 DEF MergeInv, MergeTyped
  <2>5. ASSUME NEW i \in DOMAIN mergeLog, Outlives(i) PROVE Outlives(i)'
    BY <2>2, <2>5 DEF Outlives, Lives
  <2>6. ASSUME \A q \in Req : Decides(q), NEW q \in Req PROVE Decides(q)'
    BY <1>1, <2>2, <2>3, <2>6 DEF Decides, Lives
  <2> QED BY <1>1, <2>2, <2>4, <2>5, <2>6 DEF MergeInv, Met
<1>5. CASE LogMerge(r)
  <2> DEFINE kept == loc[r].arg.kept
             loser == loc[r].lead
             n == Len(mergeLog)
  <2>1. /\ pc[r] = "log" /\ mergeLog' = Append(mergeLog, <<kept, loser>>)
        /\ pc'[r] = "drop" /\ loc'[r] = loc[r] /\ UNCHANGED <<lead, removed>>
    BY <1>1, <1>5 DEF LogMerge, Goto, moved
  <2>2. kept \in Pid /\ loser \in Pid /\ mergeLog \in Seq(Pid \X Pid)
    BY <1>2, <2>1 DEF MergeInv, MergeTyped, Held, Holding
  <2> HIDE DEF kept, loser
  <2>3. /\ n \in Nat /\ Len(mergeLog') = n + 1 /\ DOMAIN mergeLog' = 1 .. n + 1
        /\ DOMAIN mergeLog = 1 .. n
        /\ mergeLog' \in Seq(Pid \X Pid) /\ mergeLog'[n + 1] = <<kept, loser>>
        /\ \A i \in 1 .. n : mergeLog'[i] = mergeLog[i]
    BY <2>1, <2>2
  <2>4. MergeTyped'
    BY <1>1, <2>1, <2>3 DEF MergeInv, MergeTyped
  <2>5. ASSUME ~Met("decide", "decide")', \A i \in DOMAIN mergeLog : Outlives(i),
               \A q \in Req : Decides(q), NEW i \in DOMAIN mergeLog'
        PROVE  Outlives(i)'
    <3>1. CASE i = n + 1
      <4>1. Lives(kept)
        BY <2>1, <2>5 DEF Decides, kept
      <4>2. mergeLog'[i][1] = kept
        BY <2>3, <3>1
      <4> QED BY <2>1, <4>1, <4>2 DEF Outlives, Lives
    <3>2. CASE i \in 1 .. n
      <4>1. mergeLog'[i] = mergeLog[i] /\ Outlives(i)
        BY <2>3, <2>5, <3>2
      <4>2. \A j \in DOMAIN mergeLog : j \in DOMAIN mergeLog' /\ mergeLog'[j] = mergeLog[j]
        BY <2>3
      <4> QED BY <2>1, <4>1, <4>2 DEF Outlives, Lives
    <3> QED BY <2>3, <2>5, <3>1, <3>2
  <2>6. ASSUME ~Met("decide", "decide")', NEW q \in Req PROVE Decides(q)'
    <3>1. pc'[q] \in {"log", "drop"} => q = r
      BY <1>3, <2>1, <2>6
    <3>2. mergeLog'[Len(mergeLog')][2] = loser /\ Len(mergeLog') > 0
      BY <2>3
    <3> QED BY <2>1, <3>1, <3>2 DEF Decides, loser
  <2> QED BY <1>1, <2>4, <2>5, <2>6 DEF MergeInv, Met
<1>6. CASE DropLoser(r)
  <2> DEFINE new == [loc[r].row EXCEPT !.state = "deleted"]
             loser == loc[r].lead
             n == Len(mergeLog)
  <2>1. /\ pc[r] = "drop" /\ WriteBack(r, new) /\ pc'[r] = "mark"
        /\ UNCHANGED <<mergeLog, removed>>
    BY <1>1, <1>6 DEF DropLoser, Goto, routes, moved
  <2>2. DOMAIN loc[r].row = RowFields
    BY <1>2, <2>1 DEF Held, Holding
  <2>3. new.state = "deleted" /\ \A f \in RowFields \ {"state"} : new[f] = loc[r].row[f]
    BY <2>2 DEF RowFields
  <2> HIDE DEF new
  <2>4. \A q \in Pid \ {loser} : lead'[q] = lead[q]
    BY <1>2, <2>1, <2>3, WriteTouches DEF Holding, Columns, RowFields
  <2>5. MergeTyped' /\ \A i \in DOMAIN mergeLog : mergeLog[i][1] \in Pid
    BY <1>1, <2>1 DEF MergeInv, MergeTyped
  <2>6. ASSUME NEW q \in Req, ~Met("decide", "decide")' PROVE Decides(q)'
    BY <1>3, <2>1, <2>6 DEF Decides
  <2>7. ASSUME \A q \in Req : Decides(q), NEW i \in DOMAIN mergeLog, Outlives(i)
        PROVE  Outlives(i)'
    <3> SUFFICES ASSUME mergeLog[i][1] # mergeLog[i][2],
                        \A j \in DOMAIN mergeLog : j > i => mergeLog[j][2] # mergeLog[i][1]
                 PROVE  Lives(mergeLog[i][1])'
      BY <2>1 DEF Outlives
    <3>1. Lives(mergeLog[i][1])
      BY <2>7 DEF Outlives
    <3>2. mergeLog[n][2] = loser /\ n > 0
      BY <2>1, <2>7 DEF Decides
    <3>3. n \in DOMAIN mergeLog /\ (n > i \/ n = i)
      BY <3>2 DEF MergeInv, MergeTyped
    <3>4. mergeLog[i][1] # loser
      BY <3>2, <3>3
    <3> HIDE DEF loser
    <3> QED BY <2>1, <2>4, <2>5, <3>1, <3>4 DEF Lives
  <2> QED BY <1>1, <2>1, <2>5, <2>6, <2>7 DEF MergeInv, Met
<1>7. CASE ~Decide(r) /\ ~LogMerge(r) /\ ~DropLoser(r)
  <2>1. pc[r] # "drop" /\ UNCHANGED mergeLog /\ pc'[r] \notin {"log", "drop"}
    <3>1. ASSUME NEW label \in {"insert", "edit", "remove", "move", "call", "reject", "row"},
                 NEW s, Begin(r, label, s), UNCHANGED routes
          PROVE  pc[r] # "drop" /\ UNCHANGED mergeLog /\ pc'[r] \notin {"log", "drop"}
      BY <1>1, <3>1, BeginLaunches DEF Launch, routes
    <3>2. CASE CreateLead(r) \/ DeleteLead(r) \/ MoveLead(r)
      BY <3>1, <3>2 DEF CreateLead, DeleteLead, MoveLead
    <3>3. CASE PatchLead(r)
      BY <3>1, <3>3 DEF PatchLead
    <3>4. CASE RejectMerge(r) \/ ImportFile(r) \/ Promote(r)
      BY <3>1, <3>4 DEF RejectMerge, ImportFile, Promote
    <3>5. CASE CommitLead(r) \/ CommitEdit(r) \/ CommitDelete(r) \/ CommitMove(r)
      BY <1>1, <3>5 DEF CommitLead, CommitEdit, CommitDelete, CommitMove, Finish, Broken, Goto, routes
    <3>6. CASE MarkMerged(r) \/ MarkRejected(r) \/ ImportDone(r)
      BY <1>1, <3>6 DEF MarkMerged, MarkRejected, ImportDone, Finish, Goto, routes
    <3>7. CASE CallHhBe(r) \/ LinkAccount(r) \/ Convert(r)
      BY <1>1, <3>7 DEF CallHhBe, LinkAccount, Convert, Finish, Goto, routes
    <3>8. CASE ImportRow(r)
      BY <1>1, <3>8 DEF ImportRow, Broken, Goto
    <3> QED BY <1>7, <3>2, <3>3, <3>4, <3>5, <3>6, <3>7, <3>8 DEF RoutesNext
  <2>2. \A p \in Pid : Lives(p) => Lives(p)'
    BY <2>1, RoutesLive
  <2> QED BY <1>1, <2>1, <2>2, MergeGoesOn
<1> QED BY <1>4, <1>5, <1>6, <1>7

\* A step of others, or of nobody.
LEMMA MergeElsewhere ==
  ASSUME MergeInv, Elsewhere(RouteLabels), UNCHANGED routes,
         \A p \in Pid : Lives(p) => Lives(p)'
  PROVE  MergeInv'
<1>1. UNCHANGED mergeLog /\ met \subseteq met'
  BY DEF routes, Elsewhere
<1>2. \A q \in Req : pc'[q] \in {"log", "drop"} => pc'[q] = pc[q] /\ loc'[q] = loc[q]
  BY DEF Elsewhere, RouteLabels
<1> QED BY <1>1, <1>2, MergeGoesOn

\* Nothing was merged at the start.
LEMMA MergeStarts == Init => MergeInv
<1> SUFFICES ASSUME Init PROVE MergeInv
  OBVIOUS
<1>1. \A r \in Req : pc[r] = "idle"
  BY DEF Init, LeadInit, DeskInit
<1>2. mergeLog = <<>>
  BY DEF Init, RoutesInit
<1> QED BY <1>1, <1>2 DEF MergeInv, MergeTyped, Decides

\* The log of the merges at any step.
LEMMA MergeSteps ==
  ASSUME Desk, TableInv, MergeInv, [Next]_vars
  PROVE  MergeInv'
<1>1. Desk' /\ TableInv'
  BY TableSteps
<1>2. ASSUME NEW r \in Req, RoutesNext(r), Acts(r, RouteLabels), Touches(pc[r])
      PROVE  MergeInv'
  BY <1>1, <1>2, MergeRouteStep
<1>3. ASSUME NEW r \in Req, SignupNext(r), Acts(r, SignupLabels), Touches(pc[r]),
             Elsewhere(RouteLabels), UNCHANGED routes
      PROVE  MergeInv'
  BY <1>3, SignupsLive, MergeElsewhere
<1>4. ASSUME NEW r \in Req, WebhookNext(r), Acts(r, HookLabels), Touches(pc[r]),
             Elsewhere(RouteLabels), UNCHANGED routes
      PROVE  MergeInv'
  BY <1>4, HooksLive, MergeElsewhere
<1>5. ASSUME Aside PROVE MergeInv'
  <2>1. \A p \in Pid : Lives(p) => Lives(p)'
    BY <1>5 DEF Aside, moved, Lives
  <2> QED BY <1>5, <2>1, MergeElsewhere DEF Aside
<1> QED BY <1>2, <1>3, <1>4, <1>5, TableSteps

\* The lead that a merge keeps lives until a later merge or a person takes it away,
\* unless two decisions overlapped (prospects/routes.py decide_merge).
THEOREM MergeKeepsOneHolds == Spec => []MergeKeepsOne
<1>1. Init => Desk /\ TableInv /\ MergeInv
  BY DeskStarts, TableStarts, MergeStarts
<1>2. Desk /\ TableInv /\ MergeInv /\ [Next]_vars => (Desk /\ TableInv /\ MergeInv)'
  BY TableSteps, MergeSteps
<1>3. MergeInv => MergeKeepsOne
  BY DEF MergeInv, MergeKeepsOne, Outlives, Lives
<1> QED BY <1>1, <1>2, <1>3, PTL DEF Spec

-----------------------------------------------------------------------------
(***************************************************************************)
(* Verified signups.                                                       *)
(***************************************************************************)
\* Who was merged into another, and who lives, or went by a merge or a person.
Merged(p) == \E i \in DOMAIN mergeLog : mergeLog[i][2] = p
Fate(p) == Lives(p) \/ Merged(p)

\* Places of a verify that still has to give its signup a lead.
Finding == {"bump_signup", "find", "new_lead", "attach"}
Finds(q, s) == pc[q] \in Finding /\ loc[q].arg.sid = s /\ loc[q].arg.lead = None
Registers(q, s) ==
    pc[q] = "register" /\ loc[q].arg.sid = s /\ loc[q].lead = signup[s].lead

\* The lead of a signup is registered or about to be, and who verified a signup
\* without a lead is at work on it.
Served(s) ==
    /\ signup[s].lead # None =>
          /\ Fate(signup[s].lead)
          /\ lead[signup[s].lead].registered \/ \E q \in Req : Registers(q, s)
    /\ signup[s].verified /\ signup[s].lead = None => \E q \in Req : Finds(q, s)

\* What the sessions of a verify, and of a decision behind its log entry, hold.
Attaches(q) ==
    /\ pc[q] = "attach" =>
          /\ Fate(loc[q].lead)
          /\ loc[q].row.registered => lead[loc[q].lead].registered
    /\ pc[q] = "register" => ~loc[q].row.registered
Drops(q) == pc[q] = "drop" => Merged(loc[q].lead)
VerifyInv ==
    /\ \A q \in Req : Drops(q) /\ Attaches(q)
    /\ "verify" \in died \/ \A s \in Open : Served(s)

\* A step that takes nobody's fate or registration away, as all steps do.
Keeps ==
    /\ \A p \in Pid : Fate(p) => Fate(p)'
    /\ \A p \in Pid : lead[p].state # "free" /\ lead[p].registered => lead'[p].registered

\* The log of the merges grows by LogMerge alone.
LEMMA LogKept ==
  ASSUME NEW r \in Req, RoutesNext(r), Acts(r, RouteLabels), Desk, ~LogMerge(r)
  PROVE  UNCHANGED mergeLog /\ pc'[r] # "drop"
<1>1. r \in DOMAIN pc /\ r \in DOMAIN loc
  BY DEF Desk, Placed
<1>2. ASSUME NEW label \in RouteLabels \ {"drop"}, NEW s, Begin(r, label, s), UNCHANGED routes
      PROVE  UNCHANGED mergeLog /\ pc'[r] # "drop"
  BY <1>1, <1>2, BeginLaunches DEF Launch, routes
<1> USE DEF RouteLabels
<1>3. CASE CreateLead(r) \/ DeleteLead(r) \/ MoveLead(r) \/ Decide(r)
  BY <1>2, <1>3 DEF CreateLead, DeleteLead, MoveLead, Decide
<1>4. CASE PatchLead(r)
  BY <1>2, <1>4 DEF PatchLead
<1>5. CASE RejectMerge(r) \/ ImportFile(r) \/ Promote(r)
  BY <1>2, <1>5 DEF RejectMerge, ImportFile, Promote
<1>6. CASE CommitLead(r) \/ CommitEdit(r) \/ CommitDelete(r) \/ CommitMove(r)
  BY <1>1, <1>6 DEF CommitLead, CommitEdit, CommitDelete, CommitMove, Finish, Broken, Goto, routes
<1>7. CASE DropLoser(r) \/ MarkMerged(r) \/ MarkRejected(r) \/ ImportDone(r)
  BY <1>1, <1>7 DEF DropLoser, MarkMerged, MarkRejected, ImportDone, Finish, Goto, routes
<1>8. CASE CallHhBe(r) \/ LinkAccount(r) \/ Convert(r)
  BY <1>1, <1>8 DEF CallHhBe, LinkAccount, Convert, Finish, Goto, routes
<1>9. CASE ImportRow(r)
  BY <1>1, <1>9 DEF ImportRow, Broken, Goto
<1> QED BY <1>3, <1>4, <1>5, <1>6, <1>7, <1>8, <1>9 DEF RoutesNext

\* What the log says it goes on saying, and a decision drops whom it logged.
LEMMA RoutesLog ==
  ASSUME Desk, TableInv, MergeInv, \A q \in Req : Drops(q),
         NEW r \in Req, RoutesNext(r), Acts(r, RouteLabels)
  PROVE  (\A p : Merged(p) => Merged(p)') /\ \A q \in Req : Drops(q)'
<1>1. /\ \A q \in Req \ {r} : pc'[q] = pc[q] /\ loc'[q] = loc[q]
      /\ r \in DOMAIN pc /\ r \in DOMAIN loc
  BY DEF Acts, Desk, Placed
<1>2. CASE LogMerge(r)
  <2> DEFINE n == Len(mergeLog)
             new == <<loc[r].arg.kept, loc[r].lead>>
  <2>1. /\ pc[r] = "log" /\ mergeLog' = Append(mergeLog, new) /\ loc'[r] = loc[r]
    BY <1>1, <1>2 DEF LogMerge, Goto
  <2>2. new \in Pid \X Pid /\ mergeLog \in Seq(Pid \X Pid)
    BY <2>1 DEF MergeInv, MergeTyped, TableInv, Held, Holding
  <2>3. new[2] = loc[r].lead
    OBVIOUS
  <2> HIDE DEF new
  <2>4. /\ DOMAIN mergeLog = 1 .. n /\ DOMAIN mergeLog' = 1 .. n + 1 /\ n \in Nat
        /\ mergeLog'[n + 1] = new /\ \A i \in 1 .. n : mergeLog'[i] = mergeLog[i]
    BY <2>1, <2>2
  <2>5. ASSUME NEW p, Merged(p) PROVE Merged(p)'
    BY <2>4, <2>5 DEF Merged
  <2>6. (\E i \in DOMAIN mergeLog : mergeLog[i][2] = loc[r].lead)'
    BY <2>1, <2>3, <2>4
  <2>7. Drops(r)'
    BY <2>6 DEF Drops, Merged
  <2>8. ASSUME NEW q \in Req \ {r} PROVE Drops(q)'
    BY <1>1, <2>5, <2>8 DEF Drops
  <2> QED BY <2>5, <2>7, <2>8
<1>3. CASE ~LogMerge(r)
  <2>1. UNCHANGED mergeLog /\ pc'[r] # "drop"
    BY <1>3, LogKept
  <2>2. ASSUME NEW q \in Req PROVE Drops(q)'
    BY <1>1, <2>1, <2>2 DEF Drops, Merged
  <2> QED BY <2>1, <2>2 DEF Merged
<1> QED BY <1>2, <1>3

\* Registrations are never taken back.
LEMMA RegistrationKept ==
  ASSUME NEW at, Touches(at), at # "register", NEW p \in Pid, lead[p].state # "free"
  PROVE  lead'[p].registered = lead[p].registered
BY DEF Touches, Columns, RowFields

\* The routes take no fate away: whom a decision drops is in the log.
LEMMA RoutesKeep ==
  ASSUME Desk, TableInv, MergeInv, \A q \in Req : Drops(q),
         NEW r \in Req, RoutesNext(r), Acts(r, RouteLabels), Touches(pc[r])
  PROVE  Keeps
<1>1. \A p : Merged(p) => Merged(p)'
  BY RoutesLog
<1>2. pc[r] # "register"
  BY DEF Acts, RouteLabels
<1>3. \A p \in Pid : lead[p].state # "free" /\ lead[p].registered => lead'[p].registered
  BY <1>2, RegistrationKept
<1>4. CASE pc[r] # "drop"
  BY <1>1, <1>3, <1>4, RoutesLive DEF Keeps, Fate
<1>5. CASE pc[r] = "drop"
  <2> DEFINE new == [loc[r].row EXCEPT !.state = "deleted"]
  <2>1. DropLoser(r)
    <3>1. ASSUME NEW label, NEW s, Begin(r, label, s) PROVE FALSE
      BY <1>5, <3>1, BeginLaunches DEF Launch
    <3>2. ~CreateLead(r) /\ ~DeleteLead(r)
      BY <3>1 DEF CreateLead, DeleteLead
    <3>8. ~MoveLead(r)
      BY <3>1 DEF MoveLead
    <3>9. ~Decide(r)
      <4>1. Decide(r) => \E s : Begin(r, "log", s)
        BY Zenon DEF Decide
      <4> QED BY <3>1, <4>1, Zenon
    <3>3. ~PatchLead(r)
      BY <3>1 DEF PatchLead
    <3>4. ~RejectMerge(r) /\ ~ImportFile(r) /\ ~Promote(r)
      BY <3>1 DEF RejectMerge, ImportFile, Promote
    <3>5. ~CommitLead(r) /\ ~CommitEdit(r) /\ ~CommitDelete(r) /\ ~CommitMove(r)
      BY <1>5 DEF CommitLead, CommitEdit, CommitDelete, CommitMove
    <3>6. ~LogMerge(r) /\ ~MarkMerged(r) /\ ~MarkRejected(r) /\ ~ImportDone(r)
      BY <1>5 DEF LogMerge, MarkMerged, MarkRejected, ImportDone
    <3>7. ~CallHhBe(r) /\ ~LinkAccount(r) /\ ~Convert(r) /\ ~ImportRow(r)
      BY <1>5 DEF CallHhBe, LinkAccount, Convert, ImportRow
    <3> QED BY <3>2, <3>3, <3>4, <3>5, <3>6, <3>7, <3>8, <3>9 DEF RoutesNext
  <2>2. WriteBack(r, new) /\ UNCHANGED <<mergeLog, removed>> /\ Merged(loc[r].lead)
    BY <1>5, <2>1 DEF DropLoser, routes, moved, Drops
  <2>3. LeadTyped /\ Held(pc[r], loc[r], lead) /\ DOMAIN loc[r].row = RowFields
    BY <1>5 DEF TableInv, Held, Holding
  <2>4. new.state = "deleted" /\ \A f \in RowFields \ {"state"} : new[f] = loc[r].row[f]
    BY <2>3 DEF RowFields
  <2> HIDE DEF new
  <2>5. \A q \in Pid \ {loc[r].lead} : lead'[q] = lead[q]
    BY <1>5, <2>2, <2>3, <2>4, WriteTouches DEF Holding, Columns, RowFields
  <2>6. ASSUME NEW p \in Pid \ {loc[r].lead}, Fate(p) PROVE Fate(p)'
    <3>1. removed' = removed /\ lead'[p] = lead[p]
      BY <2>2, <2>5
    <3> QED BY <1>1, <2>6, <3>1 DEF Fate, Lives
  <2>7. ASSUME NEW p, p = loc[r].lead PROVE Fate(p)'
    BY <1>1, <2>2, <2>7 DEF Fate
  <2> QED BY <1>3, <2>6, <2>7 DEF Keeps
<1> QED BY <1>4, <1>5
\* A signup is served on through a step that lets its verifies go on.
LEMMA ServedOn ==
  ASSUME TableInv, Keeps, NEW s \in Sid, Served(s),
         signup'[s].lead = signup[s].lead,
         \/ signup'[s].verified => signup[s].verified
         \/ \E q \in Req : Finds(q, s)',
         \A q \in Req : Registers(q, s) =>
            Registers(q, s)' \/ lead'[signup[s].lead].registered,
         \A q \in Req : Finds(q, s) => Finds(q, s)'
  PROVE  Served(s)'
<1>1. ASSUME NEW p, p = signup[s].lead, p # None
      PROVE  Fate(p)' /\ (lead[p].registered => lead'[p].registered)
  <2>1. p \in Pid /\ lead[p].state # "free"
    BY <1>1 DEF TableInv, SignupLeads
  <2> QED BY <1>1, <2>1 DEF Served, Keeps
<1>2. signup'[s].lead # None => Fate(signup[s].lead)'
  BY <1>1
<1> QED BY <1>1, <1>2 DEF Served

\* What the session of a verify holds stays true.
LEMMA AttachesOn ==
  ASSUME TableInv, Keeps, NEW q \in Req, Attaches(q),
         pc'[q] \in {"attach", "register"} => pc'[q] = pc[q] /\ loc'[q] = loc[q]
  PROVE  Attaches(q)'
<1>1. CASE pc[q] = "attach" /\ pc'[q] = pc[q] /\ loc'[q] = loc[q]
  <2>1. Held(pc[q], loc[q], lead)
    BY DEF TableInv
  <2>2. loc[q].lead \in Pid /\ lead[loc[q].lead].state # "free"
    BY <1>1, <2>1 DEF Held, Holding
  <2>3. ASSUME NEW p, p = loc[q].lead
        PROVE  Fate(p)' /\ (loc[q].row.registered => lead'[p].registered)
    BY <1>1, <2>2, <2>3 DEF Attaches, Keeps
  <2>4. loc'[q].row.registered => lead'[loc'[q].lead].registered
    BY <1>1, <2>3
  <2>5. Fate(loc[q].lead)'
    BY <1>1, <2>3
  <2> QED BY <1>1, <2>4, <2>5 DEF Attaches
<1>2. CASE ~(pc[q] = "attach" /\ pc'[q] = pc[q] /\ loc'[q] = loc[q])
  BY <1>2 DEF Attaches
<1> QED BY <1>1, <1>2

\* A step in which no verify acts.
LEMMA VerifyGoesOn ==
  ASSUME TableInv, VerifyInv, Keeps, \A q \in Req : Drops(q)', died \subseteq died',
         \A q \in Req : pc'[q] \in {"attach", "register"} => pc'[q] = pc[q] /\ loc'[q] = loc[q],
         \A q \in Req : pc[q] \in {"register"} \cup Finding =>
            (pc'[q] = pc[q] /\ loc'[q] = loc[q]) \/ "verify" \in died',
         \A s \in Open' : \/ signup'[s].lead = None /\ ~signup'[s].verified
                          \/ s \in Open /\ signup'[s] = signup[s]
  PROVE  VerifyInv'
<1>1. \A q \in Req : Attaches(q)'
  BY AttachesOn DEF VerifyInv
<1>2. ASSUME "verify" \notin died', NEW s \in Open' PROVE Served(s)'
  <2>1. CASE signup'[s].lead = None /\ ~signup'[s].verified
    BY <2>1 DEF Served
  <2>2. CASE s \in Open /\ signup'[s] = signup[s]
    <3>1. Served(s) /\ s \in Sid
      BY <1>2, <2>2 DEF VerifyInv, Open
    <3>2. \A q \in Req : (Registers(q, s) => Registers(q, s)') /\ (Finds(q, s) => Finds(q, s)')
      BY <1>2, <2>2 DEF Registers, Finds
    <3> QED BY <2>2, <3>1, <3>2, ServedOn
  <2> QED BY <1>2, <2>1, <2>2
<1> QED BY <1>1, <1>2 DEF VerifyInv

\* A step of others, or of nobody.
LEMMA VerifyElsewhere ==
  ASSUME TableInv, Desk, VerifyInv, Keeps, \A q \in Req : Drops(q)',
         Elsewhere(SignupLabels), UNCHANGED signup
  PROVE  VerifyInv'
<1>1. /\ died \subseteq died'
      /\ \A q \in Req : pc'[q] \in {"attach", "register"} => pc'[q] = pc[q] /\ loc'[q] = loc[q]
  BY DEF Elsewhere, SignupLabels, VerifyLabels
<1>2. \A q \in Req : pc[q] \in {"register"} \cup Finding =>
         (pc'[q] = pc[q] /\ loc'[q] = loc[q]) \/ "verify" \in died'
  <2> SUFFICES ASSUME NEW q \in Req, pc[q] \in {"register"} \cup Finding
               PROVE  (pc'[q] = pc[q] /\ loc'[q] = loc[q]) \/ "verify" \in died'
    OBVIOUS
  <2>1. pc[q] \in VerifyLabels /\ pc[q] \in SignupLabels
    BY DEF Finding, VerifyLabels, SignupLabels
  <2>2. loc[q].op = "verify"
    BY <2>1 DEF Desk, SignupKinds, SignupKind
  <2> QED BY <2>1, <2>2 DEF Elsewhere
<1>3. \A s \in Open' : s \in Open /\ signup'[s] = signup[s]
  BY DEF Open
<1> QED BY <1>1, <1>2, <1>3, VerifyGoesOn

\* Visits, signups and opt-outs take no fate and no registration away.
LEMMA SignupsKeep ==
  ASSUME Desk, TableInv, VerifyInv, NEW r \in Req, SignupNext(r), Acts(r, SignupLabels),
         Touches(pc[r]), UNCHANGED mergeLog
  PROVE  Keeps
<1>1. \A p \in Pid : Fate(p) => Fate(p)'
  BY SignupsLive DEF Fate, Merged
<1>2. CASE pc[r] # "register"
  BY <1>1, <1>2, RegistrationKept DEF Keeps
<1>3. CASE pc[r] = "register"
  <2> DEFINE new == [loc[r].row EXCEPT !.registered = TRUE]
             p == loc[r].lead
  <2>1. Register(r)
    <3>1. ASSUME NEW label, NEW s, Begin(r, label, s) PROVE FALSE
      BY <1>3, <3>1, BeginLaunches DEF Launch
    <3>2. ~Visit(r)
      BY <3>1 DEF Visit
    <3>3. ~SignUp(r) /\ ~Resend(r) /\ ~OptOut(r)
      BY <3>1 DEF SignUp, Resend, OptOut
    <3>4. ~Verify(r) /\ ~Erase(r)
      BY <3>1 DEF Verify, Erase
    <3>5. ~InsertVisit(r) /\ ~BumpPage(r) /\ ~GetVariant(r) /\ ~BumpVariant(r)
      BY <1>3 DEF InsertVisit, BumpPage, GetVariant, BumpVariant
    <3>6. ~GetVisitor(r) /\ ~TurnCurious(r) /\ ~InsertSignup(r) /\ ~SendFirst(r) /\ ~SendAgain(r)
      BY <1>3 DEF GetVisitor, TurnCurious, InsertSignup, SendFirst, SendAgain
    <3>7. ~MarkVerified(r) /\ ~BumpSignup(r) /\ ~FindLead(r) /\ ~NewLead(r) /\ ~Attach(r)
      BY <1>3 DEF MarkVerified, BumpSignup, FindLead, NewLead, Attach
    <3>8. ~CommitErase(r) /\ ~InsertOptOut(r) /\ ~LeaveFunnel(r) /\ ~NameLead(r)
      BY <1>3 DEF CommitErase, InsertOptOut, LeaveFunnel, NameLead
    <3> QED BY <3>2, <3>3, <3>4, <3>5, <3>6, <3>7, <3>8 DEF SignupNext
  <2>2. WriteBack(r, new)
    BY <2>1 DEF Register
  <2>3. LeadTyped /\ Held(pc[r], loc[r], lead) /\ DOMAIN loc[r].row = RowFields
    BY <1>3 DEF TableInv, Held, Holding
  <2>4. new.registered = TRUE /\ \A f \in RowFields \ {"registered"} : new[f] = loc[r].row[f]
    BY <2>3 DEF RowFields
  <2> HIDE DEF new
  <2>5. /\ \A q \in Pid \ {p} : lead'[q] = lead[q]
        /\ lead'[p].registered = IF loc[r].row.registered = new.registered
                                 THEN lead[p].registered ELSE new.registered
    BY <1>3, <2>2, <2>3, <2>4, WriteTouches DEF Holding, Columns, RowFields
  <2> QED BY <1>1, <2>4, <2>5 DEF Keeps
<1> QED BY <1>2, <1>3
\* Register marks the lead it holds.
LEMMA RegisterMarks ==
  ASSUME TableInv, NEW r \in Req, Attaches(r), Register(r)
  PROVE  lead'[loc[r].lead].registered
<1> DEFINE new == [loc[r].row EXCEPT !.registered = TRUE]
           p == loc[r].lead
<1>1. pc[r] = "register" /\ WriteBack(r, new) /\ ~loc[r].row.registered
  BY DEF Register, Attaches
<1>2. LeadTyped /\ Held(pc[r], loc[r], lead) /\ DOMAIN loc[r].row = RowFields
  BY <1>1 DEF TableInv, Held, Holding
<1>3. new.registered = TRUE /\ \A f \in RowFields \ {"registered"} : new[f] = loc[r].row[f]
  BY <1>2 DEF RowFields
<1>4. new.state = loc[r].row.state
  BY <1>3 DEF RowFields
<1> HIDE DEF new
<1>5. lead'[p].registered = IF loc[r].row.registered = new.registered
                            THEN lead[p].registered ELSE new.registered
  BY <1>1, <1>2, <1>3, <1>4, WriteTouches DEF Holding, Columns, RowFields
<1> QED BY <1>1, <1>3, <1>5

\* Each step of a verify, of its neighbours and of a deletion.
LEMMA VerifySignupStep ==
  ASSUME Desk, TableInv, VerifyInv, Keeps, \A q \in Req : Drops(q)',
         NEW r \in Req, SignupNext(r), Acts(r, SignupLabels)
  PROVE  VerifyInv'
<1>1. /\ \A q \in Req \ {r} : pc'[q] = pc[q] /\ loc'[q] = loc[q]
      /\ r \in DOMAIN pc /\ r \in DOMAIN loc /\ died' = died
  BY DEF Acts, Desk, Placed
<1>2. /\ LeadTyped /\ SignupTyped /\ Held(pc[r], loc[r], lead)
      /\ SignupKind(pc[r], loc[r]) /\ SignupKinds
  BY DEF TableInv, Desk, SignupKinds
<1>3. ASSUME Attaches(r)', "verify" \in died \/ \A s \in Open' : Served(s)' PROVE VerifyInv'
  <2>1. \A q \in Req \ {r} : Attaches(q)'
    BY <1>1, AttachesOn DEF VerifyInv
  <2> QED BY <1>1, <1>3, <2>1 DEF VerifyInv
<1>4. ASSUME pc[r] \notin {"register"} \cup Finding, pc'[r] \notin {"attach", "register"},
             \A s \in Open' : \/ signup'[s].lead = None /\ ~signup'[s].verified
                              \/ s \in Open /\ signup'[s] = signup[s]
      PROVE  VerifyInv'
  BY <1>1, <1>4, VerifyGoesOn
<1>5. ASSUME pc[r] \notin {"register"} \cup Finding, pc'[r] \notin {"attach", "register"},
             UNCHANGED signup
      PROVE  VerifyInv'
  BY <1>4, <1>5 DEF Open
<1>6. ASSUME NEW s \in Sid, signup[s].state = "open", "verify" \notin died PROVE Served(s)
  BY <1>6 DEF VerifyInv, Open
<1>7. CASE InsertSignup(r)
  <2>1. pc[r] = "sign_up" /\ pc'[r] = "send"
    BY <1>1, <1>7 DEF InsertSignup, Goto
  <2> DEFINE k == Min(Blank)
             new == NewSignup(loc[r].arg.email)
  <2>2. signup'[k] = new /\ \A t \in Sid \ {k} : signup'[t] = signup[t]
    BY <1>2, <1>7, BlankTaken
  <2>3. new.lead = None /\ ~new.verified
    BY DEF NewSignup
  <2> HIDE DEF k, new
  <2>4. \A s \in Open' : \/ signup'[s].lead = None /\ ~signup'[s].verified
                         \/ s \in Open /\ signup'[s] = signup[s]
    BY <2>2, <2>3 DEF Open
  <2> QED BY <1>4, <2>1, <2>4 DEF Finding
<1>8. CASE CommitErase(r)
  <2>1. pc[r] = "erase" /\ pc'[r] = "done"
    BY <1>1, <1>8 DEF CommitErase, Finish, Goto
  <2>2. \A s \in Open' : s \in Open /\ signup'[s] = signup[s]
    BY <1>2, <1>8, SignupsErased DEF Open
  <2> QED BY <1>4, <2>1, <2>2 DEF Finding
<1>9. CASE MarkVerified(r)
  <2> DEFINE s == loc[r].arg.sid
  <2>1. pc[r] = "check"
    BY <1>9 DEF MarkVerified
  <2>2. CASE (Finish(r) \/ Broken(r)) /\ UNCHANGED signup
    BY <1>1, <1>5, <2>1, <2>2 DEF Finish, Broken, Goto, Finding
  <2>3. ASSUME NEW at \in {"find", "bump_signup"}, NEW v, NEW n, s \in Open,
               signup' = [signup EXCEPT ![s].verified = TRUE],
               Goto(r, at, [loc[r] EXCEPT !.arg = [@ EXCEPT
                   !.lead = signup[s].lead, !.variant = v, !.seen = n]])
        PROVE  VerifyInv'
    <3> DEFINE arg == [loc[r].arg EXCEPT !.lead = signup[s].lead, !.variant = v, !.seen = n]
    <3>1. DOMAIN loc[r] = Fields /\ DOMAIN loc[r].arg = {"sid", "lead", "seen", "variant"}
      BY <1>2, <2>1 DEF SignupKind, SignupLabels, VerifyLabels
    <3>6. arg.sid = s /\ arg.lead = signup[s].lead
      BY <3>1
    <3>7. Goto(r, at, [loc[r] EXCEPT !.arg = arg])
      BY <2>3
    <3> HIDE DEF arg
    <3>2. pc'[r] = at /\ loc'[r].arg.sid = s /\ loc'[r].arg.lead = signup[s].lead
      BY <1>1, <3>1, <3>6, <3>7 DEF Goto, Fields
    <3>8. s \in Sid /\ signup' = [signup EXCEPT ![s].verified = TRUE]
      BY <2>3 DEF Open
    <3>3. /\ \A t \in Sid : /\ signup'[t].state = signup[t].state
                            /\ signup'[t].lead = signup[t].lead
          /\ \A t \in Sid \ {s} : signup'[t] = signup[t]
      <4> HIDE DEF s
      <4> QED BY <1>2, <3>8 DEF SignupTyped, SignupFields
    <3>4. Attaches(r)'
      BY <2>3, <3>2 DEF Attaches
    <3>5. ASSUME NEW t \in Open', "verify" \notin died PROVE Served(t)'
      <4>1. t \in Sid /\ Served(t) /\ signup'[t].lead = signup[t].lead
        BY <1>6, <3>3, <3>5 DEF Open
      <4>2. \A q \in Req : /\ Registers(q, t) => Registers(q, t)'
                           /\ Finds(q, t) => Finds(q, t)'
        BY <1>1, <2>1, <4>1 DEF Registers, Finds, Finding
      <4>3. CASE t # s
        BY <3>3, <4>1, <4>2, <4>3, ServedOn
      <4>4. CASE t = s /\ signup[t].lead # None
        <5>1. ASSUME NEW p, p = signup[t].lead PROVE Fate(p)'
          BY <4>1, <4>4, <5>1 DEF Served, Keeps, TableInv, SignupLeads
        <5>2. Fate(signup[t].lead)'
          BY <4>1, <5>1
        <5>3. lead[signup[t].lead].registered => lead'[signup[t].lead].registered
          BY <4>1, <4>4 DEF Keeps, TableInv, SignupLeads
        <5> QED BY <4>1, <4>2, <4>4, <5>2, <5>3 DEF Served
      <4>5. CASE t = s /\ signup[t].lead = None
        <5>1. Finds(r, t)'
          BY <2>3, <3>2, <4>5 DEF Finds, Finding
        <5> QED BY <4>1, <4>5, <5>1 DEF Served
      <4> QED BY <4>3, <4>4, <4>5
    <3> QED BY <1>3, <3>4, <3>5
  <2>4. ASSUME ~((Finish(r) \/ Broken(r)) /\ UNCHANGED signup) PROVE VerifyInv'
    <3>1. /\ s \in Open /\ signup' = [signup EXCEPT ![s].verified = TRUE]
          /\ Goto(r, IF Latest = None THEN "find" ELSE "bump_signup",
                  [loc[r] EXCEPT !.arg = [@ EXCEPT
                      !.lead = signup[s].lead, !.variant = Latest,
                      !.seen = IF Latest = None THEN 0 ELSE counts.signup[Latest]]])
      BY <1>9, <2>4 DEF MarkVerified
    <3> QED BY <2>3, <3>1, Zenon
  <2> QED BY <2>2, <2>4
<1>10. ASSUME UNCHANGED signup, Attaches(r)',
              \A t \in Open : /\ Registers(r, t) => lead'[signup[t].lead].registered
                              /\ Finds(r, t) => Finds(r, t)'
       PROVE  VerifyInv'
  <2>1. ASSUME NEW t \in Open', "verify" \notin died PROVE Served(t)'
    <3>1. t \in Sid /\ t \in Open /\ Served(t) /\ signup'[t] = signup[t]
      BY <1>6, <1>10, <2>1 DEF Open
    <3>2. \A q \in Req \ {r} : /\ Registers(q, t) => Registers(q, t)'
                               /\ Finds(q, t) => Finds(q, t)'
      BY <1>1, <3>1 DEF Registers, Finds
    <3> QED BY <1>10, <3>1, <3>2, ServedOn
  <2> QED BY <1>3, <1>10, <2>1
<1>11. CASE BumpSignup(r)
  <2>1. /\ pc[r] = "bump_signup" /\ pc'[r] = "find" /\ loc'[r] = loc[r]
        /\ UNCHANGED signup
    BY <1>1, <1>11 DEF BumpSignup, Goto, form
  <2> QED BY <1>10, <2>1 DEF Attaches, Registers, Finds, Finding
<1>12. CASE FindLead(r)
  <2> DEFINE c == [NoCard EXCEPT !.email = signup[loc[r].arg.sid].email]
  <2>1. pc[r] = "find" /\ UNCHANGED <<lead, signup>>
    BY <1>12 DEF FindLead, public, form
  <2>2. CASE loc[r].arg.lead # None /\ Finish(r)
    <3>1. pc'[r] = "done"
      BY <1>1, <2>2 DEF Finish, Goto
    <3> QED BY <1>10, <2>1, <2>2, <3>1 DEF Attaches, Registers, Finds
  <2>3. CASE Goto(r, "new_lead", loc[r])
    <3>1. pc'[r] = "new_lead" /\ loc'[r] = loc[r]
      BY <1>1, <2>3 DEF Goto
    <3> QED BY <1>10, <2>1, <3>1 DEF Attaches, Registers, Finds, Finding
  <2>4. ASSUME NEW p \in Existing(lead, c), Goto(r, "attach", Session("verify", p, loc[r].arg))
        PROVE  VerifyInv'
    <3>1. c.linkedin = None
      BY DEF NoCard
    <3>2. p \in LiveIn(lead)
      BY <2>4, <3>1 DEF Existing, ByEmail
    <3> HIDE DEF c
    <3>3. p \in Pid /\ p # None /\ lead[p].state = "live"
      BY <3>2, NoneNoId DEF LiveIn
    <3>4. /\ pc'[r] = "attach" /\ loc'[r].lead = p /\ loc'[r].row = lead[p]
          /\ loc'[r].arg = loc[r].arg
      BY <1>1, <2>4, <3>3, SessionHolds DEF Goto
    <3>5. Attaches(r)'
      BY <2>1, <3>3, <3>4 DEF Attaches, Fate, Lives
    <3> QED BY <1>10, <2>1, <3>4, <3>5 DEF Registers, Finds, Finding
  <2> QED BY <1>12, <2>2, <2>3, <2>4 DEF FindLead
<1>13. CASE NewLead(r)
  <2> DEFINE c == [NoCard EXCEPT !.email = signup[loc[r].arg.sid].email]
             row == NewRow(c, None)
  <2>1. /\ pc[r] = "new_lead" /\ AddLead(row) /\ UNCHANGED signup
        /\ Goto(r, "attach", [loc[r] EXCEPT !.lead = NextId, !.row = row])
    BY <1>13 DEF NewLead, public, form
  <2>2. ~row.registered /\ row.state = "live"
    BY DEF NewRow
  <2>3. lead'[NextId] = row
    BY <1>2, <2>1, AddTouches DEF Adding
  <2> HIDE DEF row
  <2> DEFINE p == NextId
  <2>4. DOMAIN loc[r] = Fields
    BY <1>2, <2>1 DEF SignupKind, SignupLabels, VerifyLabels
  <2> HIDE DEF p
  <2>5. /\ pc'[r] = "attach" /\ loc'[r].lead = p /\ loc'[r].row = row
        /\ loc'[r].arg = loc[r].arg
    BY <1>1, <2>1, <2>4 DEF Goto, Fields, p
  <2>6. lead'[p].state = "live"
    BY <2>2, <2>3 DEF p
  <2>7. Attaches(r)'
    BY <2>2, <2>5, <2>6 DEF Attaches, Fate, Lives
  <2> QED BY <1>10, <2>1, <2>5, <2>7 DEF Registers, Finds, Finding
<1>14. CASE Attach(r)
  <2> DEFINE s == loc[r].arg.sid
             p == loc[r].lead
  <2>1. pc[r] = "attach" /\ UNCHANGED lead /\ Attaches(r) /\ p \in Pid /\ p # None
    BY <1>2, <1>14, NoneNoId DEF Attach, VerifyInv, Held, Holding
  <2>2. CASE s \notin Open /\ Broken(r) /\ UNCHANGED signup
    <3>1. pc'[r] = "error"
      BY <1>1, <2>2 DEF Broken, Goto
    <3> QED BY <1>10, <2>1, <2>2, <3>1 DEF Attaches, Registers, Finds
  <2>3. CASE s \in Open /\ signup' = [signup EXCEPT ![s].lead = p]
    <3>1. \/ loc[r].row.registered /\ pc'[r] = "done"
          \/ ~loc[r].row.registered /\ pc'[r] = "register" /\ loc'[r] = loc[r]
      BY <1>1, <1>14, <2>3 DEF Attach, Finish, Broken, Goto
    <3>2. s \in Sid
      BY <2>3 DEF Open
    <3>3. /\ \A t \in Sid : signup'[t].state = signup[t].state
          /\ \A t \in Sid \ {s} : signup'[t] = signup[t]
          /\ signup'[s].lead = p
      <4> HIDE DEF s, p
      <4> QED BY <1>2, <2>3, <3>2 DEF SignupTyped, SignupFields
    <3>4. Attaches(r)'
      BY <3>1 DEF Attaches
    <3>5. ASSUME NEW t \in Open', "verify" \notin died PROVE Served(t)'
      <4>1. t \in Sid /\ Served(t)
        BY <1>6, <3>3, <3>5 DEF Open
      <4>2. CASE t # s
        <5>1. \A q \in Req : /\ Registers(q, t) => Registers(q, t)'
                             /\ Finds(q, t) => Finds(q, t)'
          BY <1>1, <2>1, <3>3, <4>1, <4>2 DEF Registers, Finds
        <5> QED BY <3>3, <4>1, <4>2, <5>1, ServedOn
      <4>3. CASE t = s
        <5>1. ASSUME NEW k, k = p PROVE Fate(k)' /\ (loc[r].row.registered => lead'[k].registered)
          BY <2>1, <5>1 DEF Attaches, Keeps
        <5>2. Fate(signup[t].lead)' /\ (loc[r].row.registered => lead'[signup'[t].lead].registered)
          BY <3>3, <4>3, <5>1
        <5>3. ~loc[r].row.registered => Registers(r, t)'
          BY <3>1, <3>3, <4>3 DEF Registers
        <5> QED BY <2>1, <3>3, <4>3, <5>2, <5>3 DEF Served
      <4> QED BY <4>2, <4>3
    <3> QED BY <1>3, <3>4, <3>5
  <2> QED BY <1>14, <2>2, <2>3 DEF Attach
<1>15. CASE Register(r)
  <2>1. pc[r] = "register" /\ pc'[r] = "done" /\ UNCHANGED signup
    BY <1>1, <1>15 DEF Register, Finish, Goto, public, form
  <2>2. lead'[loc[r].lead].registered
    BY <1>15, RegisterMarks DEF VerifyInv
  <2> QED BY <1>10, <2>1, <2>2 DEF Attaches, Registers, Finds, Finding
<1>16. CASE SignUp(r) \/ Resend(r) \/ OptOut(r) \/ Verify(r) \/ Erase(r) \/ Visit(r)
  <2>1. ASSUME NEW label \in {"visit", "sign_up", "resend", "check", "erase", "opt_out"},
               NEW s, Begin(r, label, s), UNCHANGED signup
        PROVE  VerifyInv'
    BY <1>1, <1>5, <2>1, BeginLaunches DEF Launch, Finding
  <2>2. CASE SignUp(r) \/ Resend(r) \/ OptOut(r)
    BY <2>1, <2>2 DEF SignUp, Resend, OptOut, public, form
  <2>3. CASE Verify(r) \/ Erase(r)
    BY <2>1, <2>3 DEF Verify, Erase, public, form
  <2>4. CASE Visit(r)
    BY <2>1, <2>4 DEF Visit, public, form
  <2> QED BY <1>16, <2>2, <2>3, <2>4
<1>17. CASE InsertVisit(r) \/ BumpPage(r) \/ GetVariant(r) \/ BumpVariant(r)
  BY <1>1, <1>5, <1>17 DEF InsertVisit, BumpPage, GetVariant, BumpVariant, Goto, Finish,
     Finding, public, form
<1>18. CASE GetVisitor(r) \/ TurnCurious(r) \/ SendFirst(r) \/ SendAgain(r)
  BY <1>1, <1>5, <1>18 DEF GetVisitor, TurnCurious, SendFirst, SendAgain, Goto, Finish, Broken,
     Finding, public, form
<1>19. CASE InsertOptOut(r) \/ LeaveFunnel(r) \/ NameLead(r)
  BY <1>1, <1>5, <1>19 DEF InsertOptOut, LeaveFunnel, NameLead, Goto, Finish, Broken,
     Finding, public, form
<1> QED BY <1>7, <1>8, <1>9, <1>11, <1>12, <1>13, <1>14, <1>15, <1>16, <1>17, <1>18, <1>19
        DEF SignupNext
\* At the start the verified signups have their leads, and no other does.
LEMMA VerifyStarts == Init => VerifyInv
<1> SUFFICES ASSUME Init PROVE VerifyInv
  OBVIOUS
<1>1. \A r \in Req : pc[r] = "idle"
  BY DEF Init, LeadInit, DeskInit
<1>2. lead = Seed /\ signup = Start
  BY DEF Init, LeadInit, SignupInit
<1>3. ASSUME NEW s \in Open PROVE Served(s)
  <2>1. s \in Sid /\ Start[s].state = "open"
    BY <1>2 DEF Open
  <2>2. CASE Start[s].lead = None
    BY <1>2, <2>1, <2>2, StartAssumption DEF Served
  <2>3. CASE Start[s].lead # None
    <3>1. Seed[Start[s].lead].registered /\ Seed[Start[s].lead].state = "live"
      BY <2>1, <2>3, StartAssumption
    <3> QED BY <1>2, <2>3, <3>1 DEF Served, Fate, Lives
  <2> QED BY <2>2, <2>3
<1> QED BY <1>1, <1>3 DEF VerifyInv, Drops, Attaches

\* A verified signup has a registered lead that lives unless a person or a merge took
\* it away, or a verify is at work on it, unless one died (signups/routes.py
\* verify_otp).
THEOREM VerifiedHasLeadHolds == Spec => []VerifiedHasLead
<1>1. Init => Desk /\ TableInv /\ MergeInv /\ VerifyInv
  BY DeskStarts, TableStarts, MergeStarts, VerifyStarts
<1>2. Desk /\ TableInv /\ MergeInv /\ VerifyInv /\ [Next]_vars
         => (Desk /\ TableInv /\ MergeInv /\ VerifyInv)'
  <2> SUFFICES ASSUME Desk, TableInv, MergeInv, VerifyInv, [Next]_vars
               PROVE  (Desk /\ TableInv /\ MergeInv /\ VerifyInv)'
    OBVIOUS
  <2>1. Desk' /\ TableInv' /\ MergeInv'
    BY TableSteps, MergeSteps
  <2>2. \A q \in Req : Drops(q)
    BY DEF VerifyInv
  <2>3. ASSUME Elsewhere(RouteLabels), UNCHANGED routes PROVE \A q \in Req : Drops(q)'
    <3>1. UNCHANGED mergeLog /\ "drop" \in RouteLabels
      BY <2>3 DEF routes, RouteLabels
    <3> QED BY <2>2, <2>3, <3>1 DEF Elsewhere, Drops, Merged
  <2>4. ASSUME NEW r \in Req, RoutesNext(r), Acts(r, RouteLabels), Touches(pc[r]),
               Elsewhere(SignupLabels), UNCHANGED public
        PROVE  VerifyInv'
    <3>1. Keeps /\ \A q \in Req : Drops(q)'
      BY <2>2, <2>4, RoutesKeep, RoutesLog
    <3> QED BY <2>4, <3>1, VerifyElsewhere DEF public, form
  <2>5. ASSUME NEW r \in Req, SignupNext(r), Acts(r, SignupLabels), Touches(pc[r]),
               Elsewhere(RouteLabels), UNCHANGED routes
        PROVE  VerifyInv'
    BY <2>3, <2>5, SignupsKeep, VerifySignupStep DEF routes
  <2>6. ASSUME NEW r \in Req, WebhookNext(r), Acts(r, HookLabels), Touches(pc[r]),
               Elsewhere(RouteLabels), Elsewhere(SignupLabels), UNCHANGED <<routes, public>>
        PROVE  VerifyInv'
    <3>1. \A p \in Pid : Fate(p) => Fate(p)'
      BY <2>6, HooksLive DEF Fate, Merged, routes
    <3>2. pc[r] # "register"
      BY <2>6 DEF Acts, HookLabels
    <3>3. Keeps
      BY <2>6, <3>1, <3>2, RegistrationKept DEF Keeps
    <3> QED BY <2>3, <2>6, <3>3, VerifyElsewhere DEF public, form
  <2>7. ASSUME Aside PROVE VerifyInv'
    <3>1. Keeps
      BY <2>7 DEF Aside, Keeps, Fate, Lives, Merged, routes, moved
    <3> QED BY <2>3, <2>7, <3>1, VerifyElsewhere DEF Aside
  <2> QED BY <2>1, <2>4, <2>5, <2>6, <2>7, TableSteps
<1>3. Desk /\ VerifyInv => VerifiedHasLead
  <2> SUFFICES ASSUME Desk, VerifyInv, NEW s \in Open, signup[s].verified, "verify" \notin died
               PROVE  \/ LET p == signup[s].lead IN
                         /\ p # None /\ lead[p].registered
                         /\ \/ lead[p].state = "live" \/ p \in removed
                            \/ \E i \in DOMAIN mergeLog : mergeLog[i][2] = p
                      \/ \E r \in Active : loc[r].op = "verify" /\ loc[r].arg.sid = s
    BY DEF VerifiedHasLead
  <2>1. Served(s)
    BY DEF VerifyInv
  <2>2. ASSUME NEW q \in Req, Registers(q, s) \/ Finds(q, s)
        PROVE  q \in Active /\ loc[q].op = "verify" /\ loc[q].arg.sid = s
    <3>1. pc[q] \in VerifyLabels /\ pc[q] \in SignupLabels /\ loc[q].arg.sid = s
      BY <2>2 DEF Registers, Finds, Finding, VerifyLabels, SignupLabels
    <3>2. loc[q].op = "verify"
      BY <3>1 DEF Desk, SignupKinds, SignupKind
    <3> QED BY <3>1, <3>2 DEF Active, Over, VerifyLabels
  <2> QED BY <2>1, <2>2 DEF Served, Fate, Lives, Merged
<1> QED BY <1>1, <1>2, <1>3, PTL DEF Spec

-----------------------------------------------------------------------------
(***************************************************************************)
(* The counters of the landing page.                                       *)
(***************************************************************************)
\* Two visits overlapped, or one died.
VisitsMet == Met("visit", "visit") \/ "visit" \in died

\* Visits that are recorded and still have to count their variant.
Counting == {"bump_page", "get_variant", "bump_variant"}
Pending(v) == {r \in Req : pc[r] \in Counting /\ loc[r].arg.variant = v}

\* The entries of the visits table for a variant.
Rows(v) == {i \in DOMAIN visits : visits[i] = v}

VisitTyped ==
    /\ visits \in Seq(Variant)
    /\ DOMAIN counts = {"page", "visit", "signup"}
    /\ counts.page \in Nat /\ counts.visit \in [Variant -> Nat]
    /\ \A r \in Req : pc[r] \in {"visit"} \cup Counting =>
          /\ loc[r].arg.variant \in Variant
          /\ pc[r] # "get_variant" => loc[r].arg.seen \in Nat
    /\ \A v \in Variant : IsFiniteSet(Pending(v))

\* The count of the page, and those that sessions loaded, against the visits.
PageInv ==
    /\ counts.page <= Len(visits)
    /\ \A r \in Req : /\ pc[r] = "visit" => loc[r].arg.seen <= Len(visits)
                      /\ pc[r] = "bump_page" => loc[r].arg.seen + 1 <= Len(visits)
    /\ \/ VisitsMet
       \/ /\ \A r \in Req : /\ pc[r] = "visit" => loc[r].arg.seen = Len(visits)
                            /\ pc[r] = "bump_page" => loc[r].arg.seen + 1 = Len(visits)
          /\ (\A r \in Req : pc[r] # "bump_page") => counts.page = Len(visits)

\* The same of each variant: the visits still to count are not in its count yet.
VariantInv ==
    /\ \A v \in Variant :
          /\ counts.visit[v] + Cardinality(Pending(v)) <= Seen(v)
          /\ VisitsMet \/ counts.visit[v] + Cardinality(Pending(v)) = Seen(v)
    /\ \A r \in Req : pc[r] = "bump_variant" =>
          LET v == loc[r].arg.variant IN
          /\ loc[r].arg.seen + Cardinality(Pending(v)) <= Seen(v)
          /\ VisitsMet \/ loc[r].arg.seen + Cardinality(Pending(v)) = Seen(v)

\* What was met or died stays so.
LEMMA VisitsMetStays ==
  ASSUME met \subseteq met', died \subseteq died', VisitsMet
  PROVE  VisitsMet'
BY DEF VisitsMet, Met

\* Visits that did not meet are alone.
LEMMA VisitsAlone ==
  ASSUME Desk', ~VisitsMet', NEW r \in Req, NEW q \in Req, q # r,
         pc'[r] \in VisitLabels, pc'[q] \in VisitLabels
  PROVE  FALSE
<1>1. r \in Active' /\ q \in Active'
  BY DEF Active, Over, VisitLabels
<1>2. loc'[r].op = "visit" /\ loc'[q].op = "visit"
  BY DEF Desk, SignupKinds, SignupKind
<1> QED BY <1>1, <1>2 DEF Desk, Noticed, VisitsMet, Met

\* The number of visits of a variant.
LEMMA SeenCounts ==
  ASSUME VisitTyped, NEW v
  PROVE  Seen(v) \in Nat /\ Seen(v) = Cardinality(Rows(v)) /\ IsFiniteSet(Rows(v))
<1>1. DOMAIN visits = 1 .. Len(visits) /\ Len(visits) \in Nat
  BY DEF VisitTyped
<1>2. IsFiniteSet(1 .. Len(visits))
  BY <1>1, FS_Interval
<1>3. IsFiniteSet(Rows(v))
  BY <1>1, <1>2, FS_Subset DEF Rows
<1> QED BY <1>3, FS_CardinalityType DEF Seen, Rows

\* One more visit is seen by its variant alone.
LEMMA SeenGrows ==
  ASSUME VisitTyped, NEW w \in Variant, visits' = Append(visits, w)
  PROVE  /\ visits' \in Seq(Variant) /\ Len(visits') = Len(visits) + 1
         /\ Len(visits) \in Nat
         /\ \A v : Seen(v) \in Nat /\ Seen(v)' = IF v = w THEN Seen(v) + 1 ELSE Seen(v)
<1> DEFINE n == Len(visits)
<1>1. /\ n \in Nat /\ DOMAIN visits = 1 .. n /\ DOMAIN visits' = 1 .. n + 1
      /\ visits'[n + 1] = w /\ \A i \in 1 .. n : visits'[i] = visits[i]
      /\ visits' \in Seq(Variant) /\ Len(visits') = n + 1
  BY DEF VisitTyped
<1> HIDE DEF n
<1>2. ASSUME NEW v PROVE Seen(v) \in Nat /\ Seen(v)' = IF v = w THEN Seen(v) + 1 ELSE Seen(v)
  <2>1. Seen(v) \in Nat /\ Seen(v) = Cardinality(Rows(v)) /\ IsFiniteSet(Rows(v))
    BY SeenCounts
  <2>2. Seen(v)' = Cardinality(Rows(v)')
    BY DEF Seen, Rows
  <2>3. CASE v = w
    <3>1. n + 1 \notin 1 .. n /\ 1 .. n + 1 = (1 .. n) \cup {n + 1}
      BY <1>1
    <3>2. Rows(v)' = {i \in 1 .. n + 1 : visits'[i] = v} /\ Rows(v) = {i \in 1 .. n : visits[i] = v}
      BY <1>1 DEF Rows
    <3>3. ASSUME NEW i PROVE i \in Rows(v)' <=> i \in Rows(v) \/ i = n + 1
      <4>1. CASE i = n + 1
        BY <1>1, <2>3, <3>1, <3>2, <4>1
      <4>2. CASE i # n + 1
        <5>1. i \in 1 .. n + 1 <=> i \in 1 .. n
          BY <3>1, <4>2
        <5>2. i \in 1 .. n => visits'[i] = visits[i]
          BY <1>1
        <5> QED BY <3>2, <4>2, <5>1, <5>2
      <4> QED BY <4>1, <4>2
    <3>4. n + 1 \notin Rows(v)
      BY <3>1, <3>2
    <3>5. ASSUME NEW S, \A i : i \in S <=> i \in Rows(v) \/ i = n + 1
          PROVE  Cardinality(S) = Cardinality(Rows(v)) + 1
      <4>1. S = Rows(v) \cup {n + 1}
        BY <3>5
      <4> QED BY <2>1, <3>4, <4>1, FS_AddElement
    <3>6. Cardinality(Rows(v)') = Cardinality(Rows(v)) + 1
      BY <3>3, <3>5
    <3> QED BY <2>1, <2>2, <2>3, <3>6
  <2>4. CASE v # w
    <3>1. Rows(v)' = Rows(v)
      BY <1>1, <2>4 DEF Rows
    <3> QED BY <2>1, <2>2, <2>4, <3>1
  <2> QED BY <2>3, <2>4
<1> QED BY <1>1, <1>2 DEF n

VisitInv == VisitTyped /\ PageInv /\ VariantInv

\* The visits of a variant that are under way are so many.
LEMMA PendingCounts ==
  ASSUME VisitTyped, NEW v \in Variant
  PROVE  IsFiniteSet(Pending(v)) /\ Cardinality(Pending(v)) \in Nat
BY FS_CardinalityType DEF VisitTyped

\* A step that leaves the counts alone, and the visits but for those that die.
LEMMA VisitGoesOn ==
  ASSUME VisitInv, UNCHANGED visits, DOMAIN counts' = DOMAIN counts,
         counts'.page = counts.page, counts'.visit = counts.visit,
         met \subseteq met', died \subseteq died',
         \A q \in Req : pc'[q] \in {"visit"} \cup Counting =>
            pc'[q] = pc[q] /\ loc'[q] = loc[q],
         \A q \in Req : pc[q] \in {"visit"} \cup Counting =>
            (pc'[q] = pc[q] /\ loc'[q] = loc[q]) \/ VisitsMet'
  PROVE  VisitInv'
<1>1. ASSUME NEW v \in Variant
      PROVE  /\ IsFiniteSet(Pending(v)') /\ Cardinality(Pending(v)') <= Cardinality(Pending(v))
             /\ Cardinality(Pending(v)') \in Nat /\ Cardinality(Pending(v)) \in Nat
             /\ VisitsMet' \/ Pending(v)' = Pending(v)
  <2>1. Pending(v)' \subseteq Pending(v) /\ (VisitsMet' \/ Pending(v)' = Pending(v))
    BY DEF Pending
  <2>2. IsFiniteSet(Pending(v))
    BY DEF VisitInv, VisitTyped
  <2> QED BY <2>1, <2>2, FS_Subset, FS_CardinalityType
<1>2. VisitTyped'
  BY <1>1 DEF VisitInv, VisitTyped
<1>3. Len(visits) \in Nat /\ counts.page \in Nat
  BY DEF VisitInv, VisitTyped
<1>4. PageInv'
  <2>1. ASSUME ~VisitsMet', \A q \in Req : pc'[q] # "bump_page" PROVE counts.page = Len(visits)
    <3>1. \A q \in Req : pc[q] # "bump_page"
      BY <2>1 DEF Counting
    <3> QED BY <2>1, <3>1, VisitsMetStays DEF VisitInv, PageInv
  <2> QED BY <2>1, VisitsMetStays DEF VisitInv, PageInv, Counting
<1>5. \A v : Seen(v)' = Seen(v)
  BY DEF Seen
<1>6. ASSUME NEW v \in Variant
      PROVE  /\ counts'.visit[v] + Cardinality(Pending(v)') <= Seen(v)'
             /\ VisitsMet' \/ counts'.visit[v] + Cardinality(Pending(v)') = Seen(v)'
  <2>1. counts.visit[v] \in Nat /\ Seen(v) \in Nat
    BY SeenCounts DEF VisitInv, VisitTyped
  <2>2. /\ counts.visit[v] + Cardinality(Pending(v)) <= Seen(v)
        /\ VisitsMet' \/ counts.visit[v] + Cardinality(Pending(v)) = Seen(v)
    BY VisitsMetStays DEF VisitInv, VariantInv
  <2> QED BY <1>1, <1>5, <2>1, <2>2
<1>7. ASSUME NEW q \in Req, pc'[q] = "bump_variant", NEW v, v = loc'[q].arg.variant
      PROVE  /\ loc'[q].arg.seen + Cardinality(Pending(v)') <= Seen(v)'
             /\ VisitsMet' \/ loc'[q].arg.seen + Cardinality(Pending(v)') = Seen(v)'
  <2>1. pc[q] = "bump_variant" /\ loc'[q] = loc[q]
    BY <1>7 DEF Counting
  <2>2. loc[q].arg.seen \in Nat /\ v \in Variant /\ Seen(v) \in Nat
    BY <1>7, <2>1, SeenCounts DEF VisitInv, VisitTyped, Counting
  <2>3. /\ loc[q].arg.seen + Cardinality(Pending(v)) <= Seen(v)
        /\ VisitsMet' \/ loc[q].arg.seen + Cardinality(Pending(v)) = Seen(v)
    BY <1>7, <2>1, VisitsMetStays DEF VisitInv, VariantInv
  <2> QED BY <1>1, <1>5, <2>1, <2>2, <2>3
<1>8. VariantInv'
  BY <1>6, <1>7 DEF VariantInv
<1> QED BY <1>2, <1>4, <1>8 DEF VisitInv

\* A step of others, or of nobody.
LEMMA VisitElsewhere ==
  ASSUME Desk, VisitInv, Elsewhere(SignupLabels), UNCHANGED page
  PROVE  VisitInv'
<1>1. /\ met \subseteq met' /\ died \subseteq died' /\ UNCHANGED <<visits, counts>>
      /\ \A q \in Req : pc'[q] \in {"visit"} \cup Counting =>
            pc'[q] = pc[q] /\ loc'[q] = loc[q]
  BY DEF Elsewhere, SignupLabels, VisitLabels, Counting, page
<1>2. \A q \in Req : pc[q] \in {"visit"} \cup Counting =>
         (pc'[q] = pc[q] /\ loc'[q] = loc[q]) \/ VisitsMet'
  <2> SUFFICES ASSUME NEW q \in Req, pc[q] \in {"visit"} \cup Counting
               PROVE  (pc'[q] = pc[q] /\ loc'[q] = loc[q]) \/ VisitsMet'
    OBVIOUS
  <2>1. pc[q] \in VisitLabels /\ pc[q] \in SignupLabels
    BY DEF Counting, VisitLabels, SignupLabels
  <2>2. loc[q].op = "visit"
    BY <2>1 DEF Desk, SignupKinds, SignupKind
  <2> QED BY <2>1, <2>2 DEF Elsewhere, VisitsMet
<1> QED BY <1>1, <1>2, VisitGoesOn

\* Nothing is counted at the start.
LEMMA VisitStarts == Init => VisitInv
<1> SUFFICES ASSUME Init PROVE VisitInv
  OBVIOUS
<1>1. \A r \in Req : pc[r] = "idle"
  BY DEF Init, LeadInit, DeskInit
<1>2. /\ visits = <<>> /\ DOMAIN counts = {"page", "visit", "signup"}
      /\ counts.page = 0 /\ counts.visit = [v \in Variant |-> 0]
  BY DEF Init, SignupInit
<1>3. \A v : Pending(v) = {} /\ Rows(v) = {}
  BY <1>1, <1>2 DEF Pending, Rows, Counting
<1>4. \A v : Cardinality(Pending(v)) = 0 /\ Seen(v) = 0 /\ IsFiniteSet(Pending(v))
  BY <1>3, FS_EmptySet DEF Seen, Rows
<1>5. VisitTyped
  BY <1>1, <1>2, <1>4 DEF VisitTyped, Counting
<1> QED BY <1>1, <1>2, <1>4, <1>5 DEF VisitInv, PageInv, VariantInv

\* A visit is recorded: it is still to count.
LEMMA VisitInserted ==
  ASSUME Desk, Desk', VisitInv, NEW r \in Req, InsertVisit(r), Acts(r, SignupLabels)
  PROVE  VisitInv'
<1> DEFINE v == loc[r].arg.variant
           k == loc[r].arg.seen
<1>1. /\ \A q \in Req \ {r} : pc'[q] = pc[q] /\ loc'[q] = loc[q]
      /\ r \in DOMAIN pc /\ r \in DOMAIN loc /\ met \subseteq met' /\ died \subseteq died'
  BY DEF Acts, Desk, Placed
<1>2. /\ pc[r] = "visit" /\ visits' = Append(visits, v) /\ pc'[r] = "bump_page"
      /\ loc'[r] = loc[r] /\ UNCHANGED counts
  BY <1>1 DEF InsertVisit, Goto
<1>3. VisitTyped /\ PageInv /\ VariantInv /\ v \in Variant /\ k \in Nat
  BY <1>2 DEF VisitInv, VisitTyped
<1> HIDE DEF v, k
<1>4. /\ visits' \in Seq(Variant) /\ Len(visits') = Len(visits) + 1 /\ Len(visits) \in Nat
      /\ \A w : Seen(w) \in Nat /\ Seen(w)' = IF w = v THEN Seen(w) + 1 ELSE Seen(w)
  BY <1>2, <1>3, SeenGrows
<1>5. ~VisitsMet' => \A q \in Req \ {r} : pc'[q] \notin VisitLabels
  BY <1>2, VisitsAlone DEF VisitLabels
<1>6. ASSUME NEW w \in Variant
      PROVE  /\ IsFiniteSet(Pending(w)') /\ Cardinality(Pending(w)) \in Nat
             /\ Cardinality(Pending(w)') = IF w = v THEN Cardinality(Pending(w)) + 1
                                           ELSE Cardinality(Pending(w))
  <2>1. IsFiniteSet(Pending(w)) /\ Cardinality(Pending(w)) \in Nat
    BY <1>3, PendingCounts
  <2>2. CASE w = v
    <3>1. Pending(w)' = Pending(w) \cup {r} /\ r \notin Pending(w)
      BY <1>1, <1>2, <2>2 DEF Pending, Counting, v
    <3> QED BY <2>1, <2>2, <3>1, FS_AddElement
  <2>3. CASE w # v
    <3>1. Pending(w)' = Pending(w)
      BY <1>1, <1>2, <2>3 DEF Pending, Counting, v
    <3> QED BY <2>1, <2>3, <3>1
  <2> QED BY <2>2, <2>3
<1>7. VisitTyped'
  BY <1>1, <1>2, <1>3, <1>4, <1>6 DEF VisitTyped, Counting, v, k
<1>8. PageInv'
  <2>1. counts.page \in Nat /\ counts.page <= Len(visits) /\ k <= Len(visits)
        /\ (VisitsMet' \/ k = Len(visits))
    BY <1>1, <1>2, <1>3, VisitsMetStays DEF PageInv, VisitTyped, k
  <2>2. ASSUME NEW q \in Req, q # r
        PROVE  /\ pc'[q] = "visit" => loc'[q].arg.seen <= Len(visits')
               /\ pc'[q] = "bump_page" => loc'[q].arg.seen + 1 <= Len(visits')
    <3>1. pc[q] \in {"visit", "bump_page"} => loc[q].arg.seen \in Nat
      BY <1>3 DEF VisitTyped, Counting
    <3> QED BY <1>1, <1>3, <1>4, <2>2, <3>1 DEF PageInv
  <2>3. k + 1 <= Len(visits') /\ (VisitsMet' \/ k + 1 = Len(visits'))
    BY <1>3, <1>4, <2>1
  <2>4. counts'.page <= Len(visits')
    BY <1>2, <1>4, <2>1
  <2> QED BY <1>1, <1>2, <1>5, <2>2, <2>3, <2>4 DEF PageInv, VisitLabels, k
<1>9. ASSUME NEW w \in Variant
      PROVE  /\ counts'.visit[w] + Cardinality(Pending(w)') <= Seen(w)'
             /\ VisitsMet' \/ counts'.visit[w] + Cardinality(Pending(w)') = Seen(w)'
  <2>1. counts.visit[w] \in Nat
    BY <1>3 DEF VisitTyped
  <2>2. /\ counts.visit[w] + Cardinality(Pending(w)) <= Seen(w)
        /\ VisitsMet' \/ counts.visit[w] + Cardinality(Pending(w)) = Seen(w)
    BY <1>1, <1>3, VisitsMetStays DEF VariantInv
  <2>3. counts'.visit[w] = counts.visit[w]
    BY <1>2
  <2>4. Seen(w) \in Nat /\ Seen(w)' = IF w = v THEN Seen(w) + 1 ELSE Seen(w)
    BY <1>4
  <2>5. /\ Cardinality(Pending(w)) \in Nat
        /\ Cardinality(Pending(w)') = IF w = v THEN Cardinality(Pending(w)) + 1
                                      ELSE Cardinality(Pending(w))
    BY <1>6
  <2> QED BY <2>1, <2>2, <2>3, <2>4, <2>5
<1>10. ASSUME NEW q \in Req, pc'[q] = "bump_variant", NEW w, w = loc'[q].arg.variant
       PROVE  /\ loc'[q].arg.seen + Cardinality(Pending(w)') <= Seen(w)'
              /\ VisitsMet'
  <2>1. q # r /\ pc[q] = "bump_variant" /\ loc'[q] = loc[q]
    BY <1>1, <1>2, <1>10
  <2>2. loc[q].arg.seen \in Nat /\ w \in Variant
    BY <1>3, <1>10, <2>1 DEF VisitTyped, Counting
  <2>3. loc[q].arg.seen + Cardinality(Pending(w)) <= Seen(w)
    BY <1>3, <1>10, <2>1 DEF VariantInv
  <2>4. Seen(w) \in Nat /\ Seen(w)' = IF w = v THEN Seen(w) + 1 ELSE Seen(w)
    BY <1>4
  <2>5. /\ Cardinality(Pending(w)) \in Nat
        /\ Cardinality(Pending(w)') = IF w = v THEN Cardinality(Pending(w)) + 1
                                      ELSE Cardinality(Pending(w))
    BY <1>6, <2>2
  <2>6. VisitsMet'
    BY <1>5, <1>10, <2>1 DEF VisitLabels
  <2> QED BY <2>1, <2>2, <2>3, <2>4, <2>5, <2>6
<1>11. VariantInv'
  BY <1>9, <1>10 DEF VariantInv
<1> QED BY <1>7, <1>8, <1>11 DEF VisitInv

\* The count of the variant is written: one visit less is still to count.
LEMMA VariantBumped ==
  ASSUME Desk, Desk', VisitInv, NEW r \in Req, BumpVariant(r), Acts(r, SignupLabels)
  PROVE  VisitInv'
<1> DEFINE v == loc[r].arg.variant
           k == loc[r].arg.seen
<1>1. /\ \A q \in Req \ {r} : pc'[q] = pc[q] /\ loc'[q] = loc[q]
      /\ r \in DOMAIN pc /\ r \in DOMAIN loc /\ met \subseteq met' /\ died \subseteq died'
  BY DEF Acts, Desk, Placed
<1>2. /\ pc[r] = "bump_variant" /\ pc'[r] \in {"done", "curious?"} /\ UNCHANGED visits
      /\ counts' = [counts EXCEPT !.visit = [@ EXCEPT ![v] = k + 1]]
  BY <1>1 DEF BumpVariant, Finish, Goto, form
<1>3. VisitTyped /\ PageInv /\ VariantInv /\ v \in Variant /\ k \in Nat
  BY <1>2 DEF VisitInv, VisitTyped, Counting
<1>4. /\ DOMAIN counts' = DOMAIN counts /\ counts'.page = counts.page
      /\ counts'.visit = [counts.visit EXCEPT ![v] = k + 1]
  BY <1>2, <1>3 DEF VisitTyped
<1>5. \A w : Seen(w)' = Seen(w) /\ Seen(w) \in Nat
  BY <1>2, <1>3, SeenCounts DEF Seen
<1>6. k + Cardinality(Pending(v)) <= Seen(v)
      /\ (VisitsMet' \/ k + Cardinality(Pending(v)) = Seen(v))
  BY <1>1, <1>2, <1>3, VisitsMetStays DEF VariantInv, v, k
<1>7. ASSUME NEW w \in Variant
      PROVE  /\ IsFiniteSet(Pending(w)') /\ Cardinality(Pending(w)) \in Nat
             /\ Cardinality(Pending(w)') = IF w = v THEN Cardinality(Pending(w)) - 1
                                           ELSE Cardinality(Pending(w))
             /\ Cardinality(Pending(w)') \in Nat
  <2>1. IsFiniteSet(Pending(w)) /\ Cardinality(Pending(w)) \in Nat
    BY <1>3, PendingCounts
  <2>2. CASE w = v
    <3>1. Pending(w)' = Pending(w) \ {r} /\ r \in Pending(w)
      BY <1>1, <1>2, <2>2 DEF Pending, Counting
    <3>2. IsFiniteSet(Pending(w)') /\ Cardinality(Pending(w)') = Cardinality(Pending(w)) - 1
      BY <2>1, <3>1, FS_RemoveElement
    <3> QED BY <2>1, <2>2, <3>2, FS_CardinalityType
  <2>3. CASE w # v
    <3>1. Pending(w)' = Pending(w)
      BY <1>1, <1>2, <2>3 DEF Pending, Counting
    <3> QED BY <2>1, <2>3, <3>1
  <2> QED BY <2>2, <2>3
<1> HIDE DEF v, k
<1>8. VisitTyped'
  <2>1. counts'.visit \in [Variant -> Nat]
    BY <1>3, <1>4 DEF VisitTyped
  <2> QED BY <1>1, <1>2, <1>3, <1>4, <1>7, <2>1 DEF VisitTyped, Counting
<1>9. PageInv'
  <2>1. ASSUME ~VisitsMet', \A q \in Req : pc'[q] # "bump_page" PROVE counts.page = Len(visits)
    <3>1. \A q \in Req : pc[q] # "bump_page"
      BY <1>1, <1>2, <2>1
    <3> QED BY <1>1, <1>3, <2>1, <3>1, VisitsMetStays DEF PageInv
  <2> QED BY <1>1, <1>2, <1>3, <1>4, <2>1, VisitsMetStays DEF PageInv
<1>10. ASSUME NEW w \in Variant
      PROVE  /\ counts'.visit[w] + Cardinality(Pending(w)') <= Seen(w)'
             /\ VisitsMet' \/ counts'.visit[w] + Cardinality(Pending(w)') = Seen(w)'
  <2>1. counts.visit[w] \in Nat /\ counts'.visit[w] = IF w = v THEN k + 1 ELSE counts.visit[w]
    BY <1>3, <1>4 DEF VisitTyped
  <2>2. /\ counts.visit[w] + Cardinality(Pending(w)) <= Seen(w)
        /\ VisitsMet' \/ counts.visit[w] + Cardinality(Pending(w)) = Seen(w)
    BY <1>1, <1>3, VisitsMetStays DEF VariantInv
  <2>3. CASE w = v
    BY <1>3, <1>5, <1>6, <1>7, <2>1, <2>3
  <2>4. CASE w # v
    BY <1>5, <1>7, <2>1, <2>2, <2>4
  <2> QED BY <2>3, <2>4
<1>11. ASSUME NEW q \in Req, pc'[q] = "bump_variant", NEW w, w = loc'[q].arg.variant
       PROVE  /\ loc'[q].arg.seen + Cardinality(Pending(w)') <= Seen(w)'
              /\ VisitsMet' \/ loc'[q].arg.seen + Cardinality(Pending(w)') = Seen(w)'
  <2>1. q # r /\ pc[q] = "bump_variant" /\ loc'[q] = loc[q]
    BY <1>1, <1>2, <1>11
  <2>2. loc[q].arg.seen \in Nat /\ w \in Variant /\ q \in Pending(w) /\ r # q
    BY <1>3, <1>11, <2>1 DEF VisitTyped, Counting, Pending
  <2>3. loc[q].arg.seen + Cardinality(Pending(w)) <= Seen(w)
    BY <1>3, <1>11, <2>1 DEF VariantInv
  <2>4. VisitsMet
    <3>1. loc[q].op = "visit" /\ loc[r].op = "visit"
      BY <1>2, <2>1 DEF Desk, SignupKinds, SignupKind, VisitLabels, SignupLabels
    <3>2. q \in Active /\ r \in Active
      BY <1>2, <2>1 DEF Active, Over
    <3> QED BY <2>1, <3>1, <3>2 DEF Desk, Noticed, VisitsMet, Met
  <2> QED BY <1>1, <1>5, <1>7, <2>1, <2>2, <2>3, <2>4, VisitsMetStays
<1>12. VariantInv'
  BY <1>10, <1>11 DEF VariantInv
<1> QED BY <1>8, <1>9, <1>12 DEF VisitInv

\* A step of r by which no visit is recorded and no count of a variant written.
LEMMA PendingKept ==
  ASSUME VisitInv, NEW r \in Req, \A q \in Req \ {r} : pc'[q] = pc[q] /\ loc'[q] = loc[q],
         UNCHANGED visits, DOMAIN counts' = DOMAIN counts, counts'.page \in Nat,
         counts'.visit = counts.visit, met \subseteq met', died \subseteq died',
         pc[r] \in Counting <=> pc'[r] \in Counting,
         pc'[r] \in Counting => loc'[r].arg.variant = loc[r].arg.variant,
         pc'[r] \in {"visit"} \cup Counting =>
            /\ loc'[r].arg.variant \in Variant
            /\ pc'[r] # "get_variant" => loc'[r].arg.seen \in Nat,
         pc'[r] = "bump_variant" => loc'[r].arg.seen = counts.visit[loc[r].arg.variant]
  PROVE  VisitTyped' /\ VariantInv'
<1>1. VisitTyped /\ VariantInv
  BY DEF VisitInv
<1>2. \A w : Pending(w)' = Pending(w)
  BY DEF Pending
<1>3. \A w : Seen(w)' = Seen(w)
  BY DEF Seen
<1>4. VisitTyped'
  BY <1>1, <1>2 DEF VisitTyped, Counting
<1>5. ASSUME NEW w \in Variant
      PROVE  /\ counts.visit[w] + Cardinality(Pending(w)) <= Seen(w)
             /\ VisitsMet' \/ counts.visit[w] + Cardinality(Pending(w)) = Seen(w)
  BY <1>1, VisitsMetStays DEF VariantInv
<1>6. ASSUME NEW q \in Req, pc'[q] = "bump_variant", NEW w, w = loc'[q].arg.variant
      PROVE  /\ loc'[q].arg.seen + Cardinality(Pending(w)) <= Seen(w)
             /\ VisitsMet' \/ loc'[q].arg.seen + Cardinality(Pending(w)) = Seen(w)
  <2>1. CASE q = r
    <3>1. w \in Variant /\ loc'[q].arg.seen = counts.visit[w]
      BY <1>6, <2>1 DEF Counting
    <3> QED BY <1>5, <3>1
  <2>2. CASE q # r
    BY <1>1, <1>6, <2>2, VisitsMetStays DEF VariantInv
  <2> QED BY <2>1, <2>2
<1>7. VariantInv'
  BY <1>2, <1>3, <1>5, <1>6 DEF VariantInv
<1> QED BY <1>4, <1>7

\* A visit begins: it has loaded the page.
LEMMA VisitBegun ==
  ASSUME Desk, Desk', VisitInv, NEW r \in Req, Visit(r), Acts(r, SignupLabels)
  PROVE  VisitInv'
<1>1. /\ \A q \in Req \ {r} : pc'[q] = pc[q] /\ loc'[q] = loc[q]
      /\ r \in DOMAIN pc /\ r \in DOMAIN loc /\ met \subseteq met' /\ died \subseteq died'
  BY DEF Acts, Desk, Placed
<1>2. PICK v \in Variant, p \in Visitors :
           /\ Begin(r, "visit", Session("visit", None,
                                        [variant |-> v, lead |-> p, seen |-> counts.page]))
           /\ UNCHANGED public
  BY DEF Visit
<1> DEFINE arg == [variant |-> v, lead |-> p, seen |-> counts.page]
<1>3. arg.variant = v /\ arg.seen = counts.page
  OBVIOUS
<1> HIDE DEF arg
<1>4. Begin(r, "visit", Session("visit", None, arg)) /\ UNCHANGED <<visits, counts>>
  BY <1>2 DEF arg, public, page
<1>5. /\ pc[r] = "idle" /\ pc'[r] = "visit"
      /\ loc'[r].arg.variant = v /\ loc'[r].arg.seen = counts.page
  BY <1>1, <1>3, <1>4, BeginLaunches, SessionHolds DEF Launch
<1>6. VisitTyped /\ PageInv /\ Len(visits) \in Nat /\ counts.page \in Nat
  BY DEF VisitInv, VisitTyped
<1>7. VisitTyped' /\ VariantInv'
  BY <1>1, <1>2, <1>4, <1>5, <1>6, PendingKept DEF Counting
<1>8. ~VisitsMet' => \A q \in Req : pc[q] # "bump_page"
  BY <1>1, <1>5, VisitsAlone DEF VisitLabels
<1>9. VisitsMet' \/ counts.page = Len(visits)
  BY <1>1, <1>6, <1>8, VisitsMetStays DEF PageInv
<1>10. PageInv'
  BY <1>1, <1>4, <1>5, <1>6, <1>9, VisitsMetStays DEF PageInv
<1> QED BY <1>7, <1>10 DEF VisitInv

\* The count of the page is written.
LEMMA PageBumped ==
  ASSUME Desk, Desk', VisitInv, NEW r \in Req, BumpPage(r), Acts(r, SignupLabels)
  PROVE  VisitInv'
<1> DEFINE k == loc[r].arg.seen
<1>1. /\ \A q \in Req \ {r} : pc'[q] = pc[q] /\ loc'[q] = loc[q]
      /\ r \in DOMAIN pc /\ r \in DOMAIN loc /\ met \subseteq met' /\ died \subseteq died'
  BY DEF Acts, Desk, Placed
<1>2. /\ pc[r] = "bump_page" /\ pc'[r] = "get_variant" /\ loc'[r] = loc[r]
      /\ UNCHANGED visits /\ counts' = [counts EXCEPT !.page = k + 1]
  BY <1>1 DEF BumpPage, Goto, form
<1>3. VisitTyped /\ PageInv /\ Len(visits) \in Nat /\ k \in Nat
      /\ loc[r].arg.variant \in Variant
  BY <1>2 DEF VisitInv, VisitTyped, Counting
<1>4. k + 1 <= Len(visits) /\ (VisitsMet' \/ k + 1 = Len(visits))
  BY <1>1, <1>2, <1>3, VisitsMetStays DEF PageInv
<1> HIDE DEF k
<1>5. /\ DOMAIN counts' = DOMAIN counts /\ counts'.page = k + 1
      /\ counts'.visit = counts.visit
  BY <1>2, <1>3 DEF VisitTyped
<1>6. VisitTyped' /\ VariantInv'
  BY <1>1, <1>2, <1>3, <1>5, PendingKept DEF Counting
<1>7. PageInv'
  BY <1>1, <1>2, <1>3, <1>4, <1>5, VisitsMetStays DEF PageInv
<1> QED BY <1>6, <1>7 DEF VisitInv

\* The variant is loaded.
LEMMA VariantLoaded ==
  ASSUME Desk, Desk', VisitInv, NEW r \in Req, GetVariant(r), Acts(r, SignupLabels)
  PROVE  VisitInv'
<1> DEFINE v == loc[r].arg.variant
           n == counts.visit[v]
           arg == [loc[r].arg EXCEPT !.seen = n]
<1>1. /\ \A q \in Req \ {r} : pc'[q] = pc[q] /\ loc'[q] = loc[q]
      /\ r \in DOMAIN pc /\ r \in DOMAIN loc /\ met \subseteq met' /\ died \subseteq died'
  BY DEF Acts, Desk, Placed
<1>2. /\ pc[r] = "get_variant" /\ UNCHANGED <<visits, counts>>
      /\ Goto(r, "bump_variant", [loc[r] EXCEPT !.arg = arg])
  BY DEF GetVariant, public, page
<1>3. /\ VisitTyped /\ PageInv /\ Len(visits) \in Nat /\ v \in Variant
      /\ n \in Nat /\ counts.page \in Nat
  BY <1>2 DEF VisitInv, VisitTyped, Counting
<1>4. DOMAIN loc[r] = Fields /\ DOMAIN loc[r].arg = {"variant", "lead", "seen"}
  BY <1>2 DEF Desk, SignupKinds, SignupKind, SignupLabels, VisitLabels
<1>5. arg.variant = v /\ arg.seen = n
  BY <1>4
<1> HIDE DEF arg
<1>6. pc'[r] = "bump_variant" /\ loc'[r].arg = arg
  BY <1>1, <1>2, <1>4 DEF Goto, Fields
<1>7. VisitTyped' /\ VariantInv'
  BY <1>1, <1>2, <1>3, <1>5, <1>6, PendingKept DEF Counting
<1>8. PageInv'
  BY <1>1, <1>2, <1>3, <1>6, VisitsMetStays DEF PageInv
<1> QED BY <1>7, <1>8 DEF VisitInv

\* Each step of visits, signups and opt-outs.
LEMMA VisitSignupStep ==
  ASSUME Desk, Desk', VisitInv, NEW r \in Req, SignupNext(r), Acts(r, SignupLabels)
  PROVE  VisitInv'
<1>1. /\ \A q \in Req \ {r} : pc'[q] = pc[q] /\ loc'[q] = loc[q]
      /\ r \in DOMAIN pc /\ r \in DOMAIN loc /\ met \subseteq met' /\ died \subseteq died'
  BY DEF Acts, Desk, Placed
<1>2. CASE Visit(r) \/ InsertVisit(r) \/ BumpPage(r) \/ GetVariant(r) \/ BumpVariant(r)
  BY <1>2, VisitBegun, VisitInserted, PageBumped, VariantLoaded, VariantBumped
<1>3. ASSUME pc[r] \notin {"visit"} \cup Counting, pc'[r] \notin {"visit"} \cup Counting,
             UNCHANGED visits, DOMAIN counts' = DOMAIN counts,
             counts'.page = counts.page, counts'.visit = counts.visit
      PROVE  VisitInv'
  BY <1>1, <1>3, VisitGoesOn
<1>4. CASE BumpSignup(r)
  <2>1. /\ pc[r] = "bump_signup" /\ pc'[r] = "find" /\ UNCHANGED visits
        /\ \E f : counts' = [counts EXCEPT !.signup = f]
    BY <1>1, <1>4 DEF BumpSignup, Goto, form
  <2>2. /\ DOMAIN counts' = DOMAIN counts /\ counts'.page = counts.page
        /\ counts'.visit = counts.visit
    BY <2>1 DEF VisitInv, VisitTyped
  <2> QED BY <1>3, <2>1, <2>2 DEF Counting
<1>5. ASSUME pc[r] \notin {"visit"} \cup Counting, pc'[r] \notin {"visit"} \cup Counting,
             UNCHANGED page
      PROVE  VisitInv'
  BY <1>3, <1>5 DEF page
<1>6. CASE SignUp(r) \/ Resend(r) \/ OptOut(r) \/ Verify(r) \/ Erase(r)
  <2>1. ASSUME NEW label \in {"sign_up", "resend", "check", "erase", "opt_out"},
               NEW s, Begin(r, label, s), UNCHANGED page
        PROVE  VisitInv'
    BY <1>1, <1>5, <2>1, BeginLaunches DEF Launch, Counting
  <2>2. CASE SignUp(r) \/ Resend(r) \/ OptOut(r)
    BY <2>1, <2>2 DEF SignUp, Resend, OptOut, public
  <2>3. CASE Verify(r) \/ Erase(r)
    BY <2>1, <2>3 DEF Verify, Erase, public
  <2> QED BY <1>6, <2>2, <2>3
<1>7. CASE InsertSignup(r) \/ SendFirst(r) \/ SendAgain(r) \/ GetVisitor(r) \/ TurnCurious(r)
  BY <1>1, <1>5, <1>7 DEF InsertSignup, SendFirst, SendAgain, GetVisitor, TurnCurious,
     Goto, Finish, Broken, Counting, public
<1>8. CASE MarkVerified(r) \/ FindLead(r)
  BY <1>1, <1>5, <1>8 DEF MarkVerified, FindLead, Goto, Finish, Broken, Counting, public
<1>9. CASE NewLead(r) \/ Attach(r) \/ Register(r) \/ CommitErase(r)
  BY <1>1, <1>5, <1>9 DEF NewLead, Attach, Register, CommitErase, Goto, Finish, Broken,
     Counting, public
<1>10. CASE InsertOptOut(r) \/ LeaveFunnel(r) \/ NameLead(r)
  BY <1>1, <1>5, <1>10 DEF InsertOptOut, LeaveFunnel, NameLead, Goto, Finish, Broken,
     Counting, public
<1> QED BY <1>2, <1>4, <1>6, <1>7, <1>8, <1>9, <1>10 DEF SignupNext

\* The counters of page and variants never exceed the recorded visits, and agree with
\* them at rest unless visits overlapped or one died (landing_pages/routes.py
\* record_visit).
THEOREM VisitsCountedHolds == Spec => []VisitsCounted
<1>1. Init => Desk /\ VisitInv
  BY DeskStarts, VisitStarts
<1>2. Desk /\ VisitInv /\ [Next]_vars => (Desk /\ VisitInv)'
  <2> SUFFICES ASSUME Desk, VisitInv, [Next]_vars PROVE (Desk /\ VisitInv)'
    OBVIOUS
  <2>1. Desk'
    BY NextSteps DEF Steps
  <2>2. ASSUME NEW r \in Req, RoutesNext(r), Acts(r, RouteLabels), UNCHANGED public
        PROVE  VisitInv'
    BY <2>2, ActsElsewhere, LabelsApart, VisitElsewhere DEF public
  <2>3. ASSUME NEW r \in Req, WebhookNext(r), Acts(r, HookLabels), UNCHANGED public
        PROVE  VisitInv'
    BY <2>3, ActsElsewhere, LabelsApart, VisitElsewhere DEF public
  <2>4. ASSUME Aside PROVE VisitInv'
    BY <2>4, VisitElsewhere DEF Aside
  <2> QED BY <2>1, <2>2, <2>3, <2>4, Moves, VisitSignupStep
<1>3. Desk /\ VisitInv => VisitsCounted
  <2> SUFFICES ASSUME Desk, VisitInv PROVE VisitsCounted
    OBVIOUS
  <2> DEFINE quiet == ~Met("visit", "visit") /\ "visit" \notin died
                         /\ \A r \in Active : loc[r].op # "visit"
  <2>1. VisitTyped /\ PageInv /\ VariantInv
    BY DEF VisitInv
  <2>2. quiet => ~VisitsMet /\ \A r \in Req : pc[r] \notin {"visit"} \cup Counting
    <3>1. ASSUME NEW r \in Req, pc[r] \in {"visit"} \cup Counting
          PROVE  r \in Active /\ loc[r].op = "visit"
      <4>1. pc[r] \in VisitLabels /\ pc[r] \in SignupLabels
        BY <3>1 DEF Counting, VisitLabels, SignupLabels
      <4> QED BY <4>1, LabelsApart DEF Active, Desk, SignupKinds, SignupKind
    <3> QED BY <3>1 DEF VisitsMet
  <2> HIDE DEF quiet
  <2>3. counts.page <= Len(visits) /\ (quiet => counts.page = Len(visits))
    BY <2>1, <2>2 DEF PageInv, Counting
  <2>4. ASSUME NEW v \in Variant
        PROVE  counts.visit[v] <= Seen(v) /\ (quiet => counts.visit[v] = Seen(v))
    <3>1. counts.visit[v] \in Nat /\ Cardinality(Pending(v)) \in Nat /\ Seen(v) \in Nat
      BY <2>1, SeenCounts, PendingCounts DEF VisitTyped
    <3>2. quiet => Pending(v) = {}
      BY <2>2 DEF Pending
    <3>3. quiet => Cardinality(Pending(v)) = 0
      BY <3>2, FS_EmptySet
    <3>4. /\ counts.visit[v] + Cardinality(Pending(v)) <= Seen(v)
          /\ VisitsMet \/ counts.visit[v] + Cardinality(Pending(v)) = Seen(v)
      BY <2>1 DEF VariantInv
    <3> QED BY <2>2, <3>1, <3>3, <3>4
  <2> QED BY <2>3, <2>4 DEF VisitsCounted, quiet
<1> QED BY <1>1, <1>2, <1>3, PTL DEF Spec


-----------------------------------------------------------------------------
(***************************************************************************)
(* One live lead for an email.                                             *)
(***************************************************************************)
\* Two requests that may name a lead overlapped; or Apollo brought the email.
NamersMet == \E a, b \in Namers : Met(a, b)
Brought(e) ==
    \E k \in DOMAIN Hooks :
        Hooks[k].kind = "contact" /\ applied[k] > 0 /\ Hooks[k].card.email = e

\* A live lead has the email; at most one has it; none has it.
Bears(p, e) == lead[p].state = "live" /\ lead[p].email = e
Sole(e) == e = None \/ Brought(e) \/ \A p, q \in Pid : Bears(p, e) /\ Bears(q, e) => p = q
Vacant(e) == e = None \/ Brought(e) \/ \A p \in Pid : ~Bears(p, e)

\* Who is about to name a lead gives it an email that no live lead has, or the one
\* that it had.
Naming == {"insert", "edit", "row", "new_lead"}
Names(r) ==
    /\ pc[r] = "insert" => Vacant(loc[r].arg.card.email)
    /\ pc[r] = "edit" => loc[r].arg.email = loc[r].row.email \/ Vacant(loc[r].arg.email)
    /\ pc[r] = "row" /\ loc[r].arg.rows # <<>> => Vacant(Head(loc[r].arg.rows).card.email)
    /\ pc[r] = "new_lead" => Vacant(signup[loc[r].arg.sid].email)

\* What the sessions of an import, of a verify and of a contact hold.
JobFields == {"rows", "by", "turn", "cache"}
FileRows == [card : Cards, long : BOOLEAN]
Verifying == {"check", "bump_signup", "find", "new_lead"}
Carries(r) ==
    /\ pc[r] = "row" => DOMAIN loc[r].arg = JobFields /\ loc[r].arg.rows \in Seq(FileRows)
    /\ pc[r] \in Verifying => /\ loc[r].arg.sid \in Sid
                              /\ signup[loc[r].arg.sid].state # "free"
    /\ pc[r] \in {"add", "fill"} => Hooks[loc[r].arg.key].kind = "contact"
NamesTyped ==
    /\ DOMAIN applied = DOMAIN Hooks /\ \A k \in DOMAIN Hooks : applied[k] \in Nat
    /\ \A r \in Req : Carries(r)
NameInv ==
    /\ NamesTyped
    /\ \/ NamersMet
       \/ (\A e : Sole(e)) /\ \A r \in Req : Names(r)

\* A card that matches nobody has an email that no live lead has.
LEMMA Unmatched ==
  ASSUME NEW t, NEW c, Existing(t, c) = {}
  PROVE  c.email = None \/ \A p \in Pid : ~(t[p].state = "live" /\ t[p].email = c.email)
BY DEF Existing, ByLinkedin, ByEmail, LiveIn

\* The row of a file that an import turns to matches nobody.
LEMMA RemainingHead ==
  ASSUME NEW t, NEW S, NEW rows \in Seq(S), Remaining(t, rows) # <<>>
  PROVE  /\ Remaining(t, rows) \in Seq(S)
         /\ Existing(t, Head(Remaining(t, rows)).card) = {}
<1> DEFINE fresh == {i \in DOMAIN rows : Existing(t, rows[i].card) = {}}
           first == Min(fresh)
<1>1. fresh # {} /\ Remaining(t, rows) = SubSeq(rows, first, Len(rows))
  BY DEF Remaining
<1>2. fresh \in SUBSET Nat
  OBVIOUS
<1>3. \A i \in fresh : i \in 1 .. Len(rows) /\ Existing(t, rows[i].card) = {}
  OBVIOUS
<1> HIDE DEF fresh
<1>4. first \in fresh
  BY <1>1, <1>2, Smallest
<1> HIDE DEF first
<1>6. first \in 1 .. Len(rows) /\ Existing(t, rows[first].card) = {}
  BY <1>3, <1>4
<1>5. /\ SubSeq(rows, first, Len(rows)) \in Seq(S)
      /\ Head(SubSeq(rows, first, Len(rows))) = rows[first]
  BY <1>6
<1> QED BY <1>1, <1>5, <1>6

\* An import goes on with its file or with the rest of it.
LEMMA RemainingTyped ==
  ASSUME NEW t, NEW S, NEW rows \in Seq(S)
  PROVE  Remaining(t, rows) \in Seq(S)
<1>1. CASE Remaining(t, rows) = <<>>
  BY <1>1
<1>2. CASE Remaining(t, rows) # <<>>
  BY <1>2, RemainingHead
<1> QED BY <1>1, <1>2

\* A job with other rows is a job with them, whatever else is set.
LEMMA RowsSet ==
  ASSUME NEW job, DOMAIN job = JobFields, NEW rest, NEW cache, NEW next,
         \/ next = [job EXCEPT !.rows = rest]
         \/ next = [job EXCEPT !.rows = rest, !.cache = cache]
  PROVE  DOMAIN next = JobFields /\ next.rows = rest
BY DEF JobFields

\* Turning to the next row leaves the job a job.
LEMMA TurnedRows ==
  ASSUME NEW t, NEW job, DOMAIN job = JobFields, NEW next \in Turned(t, job)
  PROVE  DOMAIN next = JobFields /\ next.rows = Remaining(t, job.rows)
<1> DEFINE rest == Remaining(t, job.rows)
<1>1. PICK cache : \/ next = [job EXCEPT !.rows = rest]
                   \/ next = [job EXCEPT !.rows = rest, !.cache = cache]
  BY Zenon DEF Turned
<1> HIDE DEF rest
<1>2. DOMAIN next = JobFields /\ next.rows = rest
  BY <1>1, RowsSet, Zenon
<1> QED BY <1>2 DEF rest

\* And so does the row behind it.
LEMMA AfterRowTyped ==
  ASSUME NEW job, DOMAIN job = JobFields
  PROVE  DOMAIN AfterRow(job) = JobFields /\ AfterRow(job).rows = Tail(job.rows)
<1>1. PICK turn, cache : AfterRow(job) = [job EXCEPT !.rows = Tail(job.rows), !.turn = turn,
                                                    !.cache = cache]
  BY Zenon DEF AfterRow
<1> QED BY <1>1 DEF JobFields

\* Two requests that are about to name a lead have met.
LEMMA NamersMeet ==
  ASSUME Desk, NEW q \in Req, NEW r \in Req, q # r, pc[q] \in Naming, pc[r] \in Naming
  PROVE  NamersMet
<1>1. \A s \in Req : pc[s] \in Naming => s \in Active /\ loc[s].op \in Namers
  BY DEF Desk, RouteKinds, RouteKind, SignupKinds, SignupKind, VerifyLabels, Naming,
     Namers, Active, Over
<1> QED BY <1>1 DEF Desk, Noticed, NamersMet

\* What was met stays so.
LEMMA NamersMetStays ==
  ASSUME met \subseteq met', NamersMet
  PROVE  NamersMet'
BY DEF NamersMet, Met

\* A step that leaves the deliveries alone leaves what they brought alone.
LEMMA BroughtStays ==
  ASSUME UNCHANGED applied, NEW e
  PROVE  Brought(e)' <=> Brought(e)
BY DEF Brought

\* A request at a place that writes no email and adds no lead names nobody.
LEMMA EmailsKept ==
  ASSUME NEW at, Touches(at), at \notin Adding \cup {"edit", "fill"}, NEW p \in Pid, NEW e,
         Bears(p, e)'
  PROVE  Bears(p, e)
BY DEF Touches, Columns, RowFields, Bears

\* The step of r leaves what the other sessions hold alone.
LEMMA CarriesGoesOn ==
  ASSUME NamesTyped, NEW r \in Req, \A q \in Req \ {r} : pc'[q] = pc[q] /\ loc'[q] = loc[q],
         UNCHANGED applied, Carries(r)',
         \A s \in Sid : signup[s].state # "free" => signup'[s].state # "free"
  PROVE  NamesTyped'
<1>1. \A q \in Req \ {r} : Carries(q)'
  BY DEF NamesTyped, Carries, Verifying
<1> QED BY <1>1 DEF NamesTyped

\* A step that gives no lead an email, but for those that Apollo brings.
LEMMA NamesGoOn ==
  ASSUME NameInv, NamesTyped', met \subseteq met', \A e : Brought(e) => Brought(e)',
         \A e : Brought(e)' \/ \A p \in Pid : Bears(p, e)' => Bears(p, e),
         \A q \in Req : pc'[q] \in Naming =>
            \/ NamersMet \/ Names(q)'
            \/ /\ pc'[q] = pc[q] /\ loc'[q] = loc[q]
               /\ pc[q] = "new_lead" =>
                     signup'[loc[q].arg.sid].email = signup[loc[q].arg.sid].email
  PROVE  NameInv'
<1>1. CASE NamersMet
  BY <1>1, NamersMetStays DEF NameInv
<1>2. CASE ~NamersMet
  <2>1. ASSUME NEW e, Vacant(e) PROVE Vacant(e)'
    BY <2>1 DEF Vacant
  <2>2. ASSUME NEW e PROVE Sole(e)'
    BY <1>2, <2>2 DEF NameInv, Sole
  <2>3. ASSUME NEW q \in Req PROVE Names(q)'
    <3>1. CASE pc'[q] \notin Naming
      BY <3>1 DEF Names, Naming
    <3>2. CASE pc'[q] = pc[q] /\ loc'[q] = loc[q]
               /\ (pc[q] = "new_lead" =>
                     signup'[loc[q].arg.sid].email = signup[loc[q].arg.sid].email)
      <4>1. Names(q)
        BY <1>2 DEF NameInv
      <4> QED BY <2>1, <3>2, <4>1 DEF Names
    <3> QED BY <1>2, <3>1, <3>2
  <2> QED BY <2>2, <2>3 DEF NameInv
<1> QED BY <1>1, <1>2

\* A request names the lead p alone, with an email that no live lead has.
LEMMA NameGiven ==
  ASSUME Desk, NameInv, NamesTyped', NEW r \in Req, pc[r] \in Naming,
         \A q \in Req \ {r} : pc'[q] = pc[q] /\ loc'[q] = loc[q],
         met \subseteq met', UNCHANGED applied,
         NEW p \in Pid, NEW e, \A q \in Pid \ {p} : lead'[q] = lead[q],
         NamersMet \/ Vacant(e) \/ (\A f : Bears(p, f)' => Bears(p, f)),
         \A f : Bears(p, f)' => f = e \/ Bears(p, f),
         pc'[r] \in Naming => Names(r)'
  PROVE  NameInv'
<1>1. CASE NamersMet
  BY <1>1, NamersMetStays DEF NameInv
<1>2. CASE ~NamersMet
  <2>1. ASSUME NEW q \in Req PROVE Names(q)'
    <3>1. CASE pc'[q] \notin Naming
      BY <3>1 DEF Names, Naming
    <3>2. CASE q # r
      BY <1>2, <3>1, <3>2, NamersMeet
    <3> QED BY <3>1, <3>2
  <2>2. ASSUME NEW f PROVE Sole(f)'
    <3>1. Sole(f) /\ (Brought(f) => Brought(f)')
      BY <1>2, BroughtStays DEF NameInv
    <3>2. \A q \in Pid \ {p} : Bears(q, f)' => Bears(q, f)
      BY DEF Bears
    <3>3. CASE \A q \in Pid : Bears(q, f)' => Bears(q, f)
      BY <3>1, <3>3 DEF Sole
    <3>4. CASE f = e /\ Vacant(e)
      BY <3>1, <3>2, <3>4 DEF Sole, Vacant
    <3> QED BY <1>2, <3>2, <3>3, <3>4
  <2> QED BY <2>1, <2>2 DEF NameInv
<1> QED BY <1>1, <1>2

\* Who looked the email up in the table as it stands may name a lead with it.
LEMMA UnmatchedVacant ==
  ASSUME NEW c, Existing(lead, c) = {}
  PROVE  Vacant(c.email)
BY Unmatched DEF Vacant, Bears

\* Each step of the routes.
LEMMA NamesRouteStep ==
  ASSUME Desk, TableInv, NameInv, NEW r \in Req, RoutesNext(r), Acts(r, RouteLabels),
         Touches(pc[r]), UNCHANGED <<public, hooks>>
  PROVE  NameInv'
<1>1. /\ \A q \in Req \ {r} : pc'[q] = pc[q] /\ loc'[q] = loc[q]
      /\ r \in DOMAIN pc /\ r \in DOMAIN loc /\ met \subseteq met'
      /\ UNCHANGED applied /\ UNCHANGED signup
  BY DEF Acts, Desk, Placed, public, form, hooks
<1>2. /\ LeadTyped /\ Held(pc[r], loc[r], lead) /\ RouteKind(pc[r], loc[r]) /\ Carries(r)
      /\ NamesTyped /\ pc[r] \in RouteLabels \cup {"idle"} /\ pc'[r] \in RouteLabels \cup Over
  BY DEF TableInv, Desk, RouteKinds, NameInv, NamesTyped, Acts
<1>3. ASSUME pc'[r] # "row" \/ (DOMAIN loc'[r].arg = JobFields /\ loc'[r].arg.rows \in Seq(FileRows))
      PROVE  NamesTyped'
  <2>1. Carries(r)'
    BY <1>2, <1>3 DEF Carries, Verifying, RouteLabels, Over
  <2> QED BY <1>1, <1>2, <2>1, CarriesGoesOn
<1>4. ASSUME UNCHANGED lead, pc'[r] \in Naming => Names(r)',
             pc'[r] # "row" \/ (DOMAIN loc'[r].arg = JobFields /\ loc'[r].arg.rows \in Seq(FileRows))
      PROVE  NameInv'
  <2>1. NamesTyped'
    BY <1>3, <1>4
  <2>2. \A e : Brought(e) => Brought(e)'
    BY <1>1, BroughtStays
  <2>3. \A p, e : Bears(p, e)' => Bears(p, e)
    BY <1>4 DEF Bears
  <2> QED BY <1>1, <1>4, <2>1, <2>2, <2>3, NamesGoOn
<1>5. ASSUME pc[r] \notin Adding \cup {"edit", "fill"}, pc'[r] \notin Naming
      PROVE  NameInv'
  <2>1. NamesTyped'
    BY <1>3, <1>5 DEF Naming
  <2>2. \A e : Brought(e) => Brought(e)'
    BY <1>1, BroughtStays
  <2>3. \A p \in Pid : \A e : Bears(p, e)' => Bears(p, e)
    BY <1>5, EmailsKept
  <2> QED BY <1>1, <1>5, <2>1, <2>2, <2>3, NamesGoOn
<1>6. ASSUME UNCHANGED lead, NEW e, Vacant(e) PROVE Vacant(e)'
  BY <1>1, <1>6, BroughtStays DEF Vacant, Bears
<1>7. ASSUME UNCHANGED lead, Finish(r) \/ Broken(r) PROVE NameInv'
  <2>1. pc'[r] \in Over
    BY <1>1, <1>7 DEF Finish, Broken, Goto, Over
  <2> QED BY <1>4, <1>7, <2>1 DEF Over, Naming
<1>8. ASSUME NEW label, NEW session, Begin(r, label, session)
      PROVE  /\ UNCHANGED lead /\ pc[r] = "idle" /\ pc'[r] = label /\ loc'[r] = session
  BY <1>1, <1>8 DEF Begin, Launch
<1>11. CASE CreateLead(r)
  <2>1. PICK c, o : /\ Existing(lead, c) = {}
                    /\ Begin(r, "insert", Session("create", None, [card |-> c, owner |-> o]))
    BY <1>11, Zenon DEF CreateLead
  <2>2. UNCHANGED lead /\ pc'[r] = "insert" /\ loc'[r].arg = [card |-> c, owner |-> o]
    BY <1>8, <2>1, SessionHolds
  <2>3. Names(r)'
    BY <1>6, <2>1, <2>2, UnmatchedVacant DEF Names
  <2> QED BY <1>4, <2>2, <2>3
<1>12. CASE PatchLead(r)
  <2> DEFINE changed(p, e) == [e EXCEPT
                !.email = IF @ = lead[p].email THEN None ELSE @,
                !.linkedin = IF @ = lead[p].linkedin THEN None ELSE @]
  <2>1. PICK p \in LiveIn(lead), e \in Edits : /\ Existing(lead, changed(p, e)) \ {p} = {}
                                              /\ Begin(r, "edit", Session("patch", p, e))
    BY <1>12, Zenon DEF PatchLead
  <2>2. /\ UNCHANGED lead /\ pc'[r] = "edit" /\ loc'[r].arg = e /\ loc'[r].row = lead[p]
    BY <1>8, <2>1, SessionHolds, NoneNoId DEF LiveIn
  <2> DEFINE c == changed(p, e)
  <2>3. /\ c.email = IF e.email = lead[p].email THEN None ELSE e.email
        /\ c.linkedin = IF e.linkedin = lead[p].linkedin THEN None ELSE e.linkedin
    BY RoutesAssumption
  <2> HIDE DEF c, changed
  <2>4. Existing(lead, c) \ {p} = {}
    BY <2>1 DEF c
  <2>5. e.email = lead[p].email \/ Vacant(e.email)
    <3>1. CASE c.email = None
      BY <2>3, <3>1 DEF Vacant
    <3>2. CASE c.email # None
      <4>1. c.linkedin # None => p \notin ByLinkedin(lead, c.linkedin)
        BY <2>3 DEF ByLinkedin
      <4>2. p \notin ByEmail(lead, c.email) /\ c.email = e.email
        BY <2>3, <3>2 DEF ByEmail
      <4>3. p \notin Existing(lead, c)
        BY <3>2, <4>1, <4>2 DEF Existing
      <4>4. Existing(lead, c) = {}
        BY <2>4, <4>3
      <4> QED BY <4>2, <4>4, UnmatchedVacant
    <3> QED BY <3>1, <3>2
  <2>6. Names(r)'
    BY <1>6, <2>2, <2>5 DEF Names
  <2> QED BY <1>4, <2>2, <2>6
<1>9. ASSUME NEW c, NEW o, AddLead(NewRow(c, o)), pc[r] \in {"insert", "row"},
             NamersMet \/ Vacant(c.email), NamesTyped', pc'[r] \in Naming => Names(r)'
      PROVE  NameInv'
  <2>1. /\ NextId \in Unused /\ lead'[NextId] = NewRow(c, o)
        /\ \A p \in Pid \ {NextId} : lead'[p] = lead[p]
    BY <1>2, <1>9, AddTouches DEF Adding
  <2>2. ASSUME NEW p, p = NextId PROVE NameInv'
    <3>1. p \in Pid /\ \A q \in Pid \ {p} : lead'[q] = lead[q]
      BY <2>1, <2>2 DEF Unused
    <3>2. \A f : Bears(p, f)' => f = c.email
      BY <2>1, <2>2 DEF Bears, NewRow
    <3> QED BY <1>1, <1>9, <3>1, <3>2, NameGiven DEF Naming
  <2> QED BY <2>2
<1>13. CASE CommitLead(r)
  <2> DEFINE c == loc[r].arg.card
             o == loc[r].arg.owner
  <2>1. pc[r] = "insert"
    BY <1>13 DEF CommitLead
  <2>2. \/ Broken(r) /\ UNCHANGED lead
        \/ AddLead(NewRow(c, o)) /\ Finish(r)
    BY <1>13 DEF CommitLead
  <2>3. CASE AddLead(NewRow(c, o)) /\ Finish(r)
    <3>1. pc'[r] = "done"
      BY <1>1, <2>3 DEF Finish, Goto
    <3>2. NamersMet \/ Vacant(c.email)
      BY <2>1 DEF NameInv, Names
    <3>3. NamesTyped' /\ pc'[r] \notin Naming
      BY <1>3, <3>1 DEF Naming
    <3> QED BY <1>9, <2>1, <2>3, <3>2, <3>3
  <2> QED BY <1>7, <2>2, <2>3
<1>14. CASE CommitEdit(r)
  <2> DEFINE old == loc[r].row
             e == loc[r].arg
             new == [old EXCEPT !.email = IF e.email = None THEN @ ELSE e.email,
                                !.linkedin = IF e.linkedin = None THEN @ ELSE e.linkedin]
  <2>1. pc[r] = "edit"
    BY <1>14 DEF CommitEdit
  <2>2. \/ Broken(r) /\ UNCHANGED lead
        \/ WriteBack(r, new) /\ Finish(r)
    BY <1>14 DEF CommitEdit
  <2>3. DOMAIN old = RowFields
    BY <1>2, <2>1 DEF Held, Holding
  <2>4. /\ \A f \in RowFields \ {"email", "linkedin"} : new[f] = old[f]
        /\ new.email = IF e.email = None THEN old.email ELSE e.email
    BY <2>3 DEF RowFields
  <2> HIDE DEF new
  <2>5. CASE WriteBack(r, new) /\ Finish(r)
    <3>1. pc'[r] = "done"
      BY <1>1, <2>5 DEF Finish, Goto
    <3>2. NamersMet \/ e.email = old.email \/ Vacant(e.email)
      BY <2>1 DEF NameInv, Names
    <3>3. NamesTyped' /\ pc'[r] \notin Naming
      BY <1>3, <3>1 DEF Naming
    <3>4. {"email", "linkedin"} \subseteq Columns(pc[r])
          /\ "state" \in RowFields \ {"email", "linkedin"} /\ "email" \in RowFields
          /\ "state" \in RowFields \ Columns(pc[r])
      BY <2>1 DEF Columns, RowFields
    <3>5. ASSUME NEW p, p = loc[r].lead, NEW given, given = e.email PROVE NameInv'
      <4>1. /\ p \in Pid /\ \A q \in Pid \ {p} : lead'[q] = lead[q]
            /\ \A f \in RowFields :
                  lead'[p][f] = IF old[f] = new[f] THEN lead[p][f] ELSE new[f]
        BY <1>2, <2>1, <2>4, <2>5, <3>4, <3>5, WriteTouches DEF Holding
      <4>2. /\ lead'[p].state = lead[p].state
            /\ lead'[p].email = IF given = None \/ given = old.email THEN lead[p].email ELSE given
        BY <2>4, <3>4, <3>5, <4>1
      <4>3. \A f : Bears(p, f)' => f = given \/ Bears(p, f)
        BY <4>2 DEF Bears
      <4>4. NamersMet \/ Vacant(given) \/ \A f : Bears(p, f)' => Bears(p, f)
        BY <3>2, <3>5, <4>2 DEF Bears
      <4> QED BY <1>1, <2>1, <3>3, <4>1, <4>3, <4>4, NameGiven DEF Naming
    <3> QED BY <3>5
  <2> QED BY <1>7, <2>2, <2>5
<1>15. ASSUME NEW rows, rows \in Seq(FileRows), pc'[r] = "row", DOMAIN loc'[r].arg = JobFields,
              loc'[r].arg.rows = Remaining(lead', rows)
       PROVE  NamesTyped' /\ Names(r)'
  <2>1. loc'[r].arg.rows \in Seq(FileRows)
    BY <1>15, RemainingTyped
  <2>2. NamesTyped'
    BY <1>3, <1>15, <2>1
  <2>3. ASSUME loc'[r].arg.rows # <<>> PROVE Vacant(Head(loc[r].arg.rows).card.email)'
    <3>1. Existing(lead', Head(loc'[r].arg.rows).card) = {}
      BY <1>15, <2>3, RemainingHead
    <3> QED BY <3>1, Unmatched DEF Vacant, Bears
  <2>4. Names(r)'
    BY <1>15, <2>3 DEF Names
  <2> QED BY <2>2, <2>4
<1>16. CASE ImportFile(r)
  <2> DEFINE job(f, by) == [rows |-> f, by |-> by, turn |-> 0,
                            cache |-> [k \in Company |-> "unread"]]
  <2>1. PICK f \in Files, by \in {None} \cup Caller : \E next \in Turned(lead, job(f, by)) :
            Begin(r, "row", Session("import", None, next))
    BY <1>16, Zenon DEF ImportFile
  <2>2. DOMAIN job(f, by) = JobFields /\ job(f, by).rows = f
    BY DEF JobFields
  <2> HIDE DEF job
  <2>3. PICK next \in Turned(lead, job(f, by)) : Begin(r, "row", Session("import", None, next))
    BY <2>1
  <2>4. UNCHANGED lead /\ pc'[r] = "row" /\ loc'[r].arg = next
    BY <1>8, <2>3, SessionHolds
  <2>5. DOMAIN next = JobFields /\ next.rows = Remaining(lead', f)
    BY <2>2, <2>4, TurnedRows
  <2>6. f \in Seq(FileRows)
    BY RoutesAssumption DEF FileRows
  <2>7. Carries(r)' /\ Names(r)'
    BY <1>15, <2>4, <2>5, <2>6 DEF NamesTyped
  <2> QED BY <1>4, <2>4, <2>7 DEF Carries
<1>17. CASE ImportRow(r)
  <2> DEFINE job == loc[r].arg
             c == Head(job.rows).card
  <2>1. pc[r] = "row" /\ job.rows # <<>>
    BY <1>17 DEF ImportRow
  <2>2. \/ Broken(r) /\ UNCHANGED lead
        \/ /\ AddLead(NewRow(c, OwnerOf(job)))
           /\ \E next \in Turned(lead', AfterRow(job)) : Goto(r, "row", [loc[r] EXCEPT !.arg = next])
    BY <1>17, Zenon DEF ImportRow
  <2>3. ASSUME AddLead(NewRow(c, OwnerOf(job))), NEW next \in Turned(lead', AfterRow(job)),
               Goto(r, "row", [loc[r] EXCEPT !.arg = next])
        PROVE  NameInv'
    <3>1. pc'[r] = "row" /\ loc'[r].arg = next
      BY <1>1, <1>2, <2>1, <2>3 DEF Goto, RouteKind, RouteLabels, Fields
    <3>2. DOMAIN job = JobFields /\ job.rows \in Seq(FileRows)
      BY <1>2, <2>1 DEF Carries
    <3>3. DOMAIN AfterRow(job) = JobFields /\ AfterRow(job).rows = Tail(job.rows)
      BY <3>2, AfterRowTyped
    <3>4. DOMAIN next = JobFields /\ next.rows = Remaining(lead', Tail(job.rows))
      BY <3>3, <2>3, TurnedRows
    <3>5. Tail(job.rows) \in Seq(FileRows)
      BY <2>1, <3>2
    <3>6. NamesTyped' /\ Names(r)'
      BY <1>15, <3>1, <3>4, <3>5
    <3>7. NamersMet \/ Vacant(c.email)
      BY <2>1 DEF NameInv, Names
    <3> QED BY <1>9, <2>1, <2>3, <3>6, <3>7
  <2> QED BY <1>7, <2>2, <2>3
<1>18. CASE ImportDone(r)
  BY <1>7, <1>18 DEF ImportDone
<1>10. ASSUME NEW label, label \notin Naming, NEW session, Begin(r, label, session)
       PROVE  NameInv'
  BY <1>5, <1>8, <1>10 DEF Adding
<1>19. CASE DeleteLead(r) \/ MoveLead(r) \/ Decide(r)
  BY <1>10, <1>19 DEF DeleteLead, MoveLead, Decide, Naming
<1>20. CASE RejectMerge(r) \/ Promote(r)
  BY <1>10, <1>20 DEF RejectMerge, Promote, Naming
<1>21. CASE CommitDelete(r) \/ CommitMove(r) \/ LogMerge(r) \/ DropLoser(r)
  BY <1>1, <1>5, <1>21 DEF CommitDelete, CommitMove, LogMerge, DropLoser, Finish, Goto, Naming, Adding
<1>22. CASE MarkMerged(r) \/ MarkRejected(r) \/ CallHhBe(r)
  BY <1>1, <1>5, <1>22 DEF MarkMerged, MarkRejected, CallHhBe, Finish, Goto, Naming, Adding
<1>23. CASE LinkAccount(r) \/ Convert(r)
  BY <1>1, <1>5, <1>23 DEF LinkAccount, Convert, Finish, Goto, Naming, Adding
<1> QED BY <1>11, <1>12, <1>13, <1>14, <1>16, <1>17, <1>18, <1>19, <1>20, <1>21, <1>22,
           <1>23 DEF RoutesNext

\* A signup that is there keeps its email, open or gone.
LEMMA SignupStays ==
  ASSUME SignupTyped, SignupKinds, NEW r \in Req, SignupNext(r),
         NEW s \in Sid, signup[s].state # "free"
  PROVE  signup'[s].state # "free" /\ signup'[s].email = signup[s].email
<1>1. CASE UNCHANGED signup
  BY <1>1
<1>2. CASE InsertSignup(r)
  <2> DEFINE t == Min(Blank)
  <2>1. t \in Blank /\ \A u \in Sid \ {t} : signup'[u] = signup[u]
    BY <1>2, BlankTaken
  <2> HIDE DEF t
  <2> QED BY <2>1 DEF Blank
<1>3. CASE MarkVerified(r)
  <2>1. UNCHANGED signup \/ \E u \in Sid : signup' = [signup EXCEPT ![u].verified = TRUE]
    BY <1>3 DEF MarkVerified, Open
  <2> QED BY <1>1, <2>1, SignupColumns
<1>4. CASE Attach(r)
  <2>1. UNCHANGED signup \/ \E u \in Sid : signup' = [signup EXCEPT ![u].lead = loc[r].lead]
    BY <1>4 DEF Attach, Open
  <2> QED BY <1>1, <2>1, SignupColumns
<1>5. CASE CommitErase(r)
  BY <1>5, SignupsErased
<1>6. CASE Visit(r) \/ SignUp(r) \/ Resend(r) \/ Verify(r) \/ Erase(r) \/ OptOut(r)
  BY <1>1, <1>6 DEF Visit, SignUp, Resend, Verify, Erase, OptOut, public, form
<1>7. CASE InsertVisit(r) \/ BumpPage(r) \/ GetVariant(r) \/ BumpVariant(r) \/ GetVisitor(r)
  BY <1>1, <1>7 DEF InsertVisit, BumpPage, GetVariant, BumpVariant, GetVisitor, public, form
<1>8. CASE TurnCurious(r) \/ SendFirst(r) \/ SendAgain(r) \/ BumpSignup(r) \/ FindLead(r)
  BY <1>1, <1>8 DEF TurnCurious, SendFirst, SendAgain, BumpSignup, FindLead, public, form
<1>9. CASE NewLead(r) \/ Register(r) \/ InsertOptOut(r) \/ LeaveFunnel(r) \/ NameLead(r)
  BY <1>1, <1>9 DEF NewLead, Register, InsertOptOut, LeaveFunnel, NameLead, public, form
<1> QED BY <1>2, <1>3, <1>4, <1>5, <1>6, <1>7, <1>8, <1>9 DEF SignupNext

\* Each step of a signup.
LEMMA NamesSignupStep ==
  ASSUME Desk, TableInv, NameInv, NEW r \in Req, SignupNext(r), Acts(r, SignupLabels),
         Touches(pc[r]), UNCHANGED hooks
  PROVE  NameInv'
<1>1. /\ \A q \in Req \ {r} : pc'[q] = pc[q] /\ loc'[q] = loc[q]
      /\ r \in DOMAIN pc /\ r \in DOMAIN loc /\ met \subseteq met' /\ UNCHANGED applied
  BY DEF Acts, Desk, Placed, hooks
<1>2. /\ LeadTyped /\ SignupTyped /\ SignupKinds /\ SignupKind(pc[r], loc[r]) /\ Carries(r)
      /\ NamesTyped /\ pc[r] \in SignupLabels \cup {"idle"} /\ pc'[r] \in SignupLabels \cup Over
  BY DEF TableInv, Desk, SignupKinds, NameInv, NamesTyped, Acts
<1>3. \A s \in Sid : signup[s].state # "free" =>
         signup'[s].state # "free" /\ signup'[s].email = signup[s].email
  BY <1>2, SignupStays
<1>4. pc'[r] \notin {"insert", "edit", "row", "add", "fill"}
      /\ pc[r] \notin {"insert", "edit", "row", "add", "fill"}
  BY <1>2 DEF SignupLabels, VisitLabels, VerifyLabels, Over
<1>5. ASSUME pc'[r] \in Verifying => loc'[r].arg.sid \in Sid /\ signup[loc'[r].arg.sid].state # "free"
      PROVE  NamesTyped'
  <2>1. Carries(r)'
    BY <1>3, <1>4, <1>5 DEF Carries
  <2> QED BY <1>1, <1>2, <1>3, <2>1, CarriesGoesOn
<1>6. ASSUME pc[r] # "new_lead", pc'[r] = "new_lead" => Names(r)',
             pc'[r] \in Verifying => loc'[r].arg.sid \in Sid /\ signup[loc'[r].arg.sid].state # "free"
      PROVE  NameInv'
  <2>1. NamesTyped'
    BY <1>5, <1>6
  <2>2. \A e : Brought(e) => Brought(e)'
    BY <1>1, BroughtStays
  <2>3. \A p \in Pid : \A e : Bears(p, e)' => Bears(p, e)
    BY <1>4, <1>6, EmailsKept DEF Adding
  <2>4. ASSUME NEW q \in Req \ {r}, pc[q] = "new_lead"
        PROVE  signup'[loc[q].arg.sid].email = signup[loc[q].arg.sid].email
    BY <1>2, <1>3, <2>4 DEF NamesTyped, Carries, Verifying
  <2> QED BY <1>1, <1>4, <1>6, <2>1, <2>2, <2>3, <2>4, NamesGoOn DEF Naming
<1>7. ASSUME pc[r] # "new_lead", pc'[r] \notin Verifying PROVE NameInv'
  BY <1>6, <1>7 DEF Verifying
<1>8. CASE Verify(r)
  <2>1. PICK s \in Open : Begin(r, "check", Session("verify", None,
                     [sid |-> s, lead |-> signup[s].lead, seen |-> 0, variant |-> None]))
    BY <1>8 DEF Verify
  <2>2. pc[r] = "idle" /\ pc'[r] = "check" /\ loc'[r].arg.sid = s
    BY <1>1, <2>1, BeginLaunches, SessionHolds DEF Launch
  <2> QED BY <1>6, <2>1, <2>2 DEF Open
<1>9. CASE MarkVerified(r)
  <2> DEFINE arg(p, v, n) == [loc[r].arg EXCEPT !.lead = p, !.variant = v, !.seen = n]
  <2>1. pc[r] = "check" /\ DOMAIN loc[r] = Fields
        /\ DOMAIN loc[r].arg = {"sid", "lead", "seen", "variant"}
    BY <1>2, <1>9 DEF MarkVerified, SignupKind, SignupLabels, VerifyLabels
  <2>2. \/ Finish(r) \/ Broken(r)
        \/ \E p, v, n : Goto(r, IF Latest = None THEN "find" ELSE "bump_signup",
                             [loc[r] EXCEPT !.arg = arg(p, v, n)])
    BY <1>9, Zenon DEF MarkVerified
  <2>3. \A p, v, n : arg(p, v, n).sid = loc[r].arg.sid
    BY <2>1
  <2> HIDE DEF arg
  <2>4. ASSUME NEW label \in {"find", "bump_signup"}, NEW p, NEW v, NEW n,
               Goto(r, label, [loc[r] EXCEPT !.arg = arg(p, v, n)])
        PROVE  NameInv'
    <3>1. pc'[r] = label /\ loc'[r].arg.sid = loc[r].arg.sid
      BY <1>1, <2>1, <2>3, <2>4 DEF Goto, Fields
    <3>2. loc[r].arg.sid \in Sid /\ signup[loc[r].arg.sid].state # "free"
      BY <1>2, <2>1 DEF Carries, Verifying
    <3> QED BY <1>6, <2>1, <3>1, <3>2
  <2>5. CASE Finish(r) \/ Broken(r)
    BY <1>1, <1>7, <2>1, <2>5 DEF Finish, Broken, Goto, Verifying
  <2> QED BY <2>2, <2>4, <2>5
<1>10. CASE BumpSignup(r)
  <2>1. pc[r] = "bump_signup" /\ pc'[r] = "find" /\ loc'[r] = loc[r]
    BY <1>1, <1>10 DEF BumpSignup, Goto
  <2> QED BY <1>2, <1>6, <2>1 DEF Carries, Verifying
<1>11. CASE FindLead(r)
  <2> DEFINE e == signup[loc[r].arg.sid].email
             c == [NoCard EXCEPT !.email = e]
  <2>1. pc[r] = "find" /\ UNCHANGED lead /\ UNCHANGED signup
    BY <1>11 DEF FindLead, public, form
  <2>2. \/ Finish(r)
        \/ Existing(lead, c) = {} /\ Goto(r, "new_lead", loc[r])
        \/ \E s : Goto(r, "attach", s)
    BY <1>11, Zenon DEF FindLead
  <2>3. c.email = e
    BY DEF NoCard
  <2> HIDE DEF c
  <2>4. CASE Existing(lead, c) = {} /\ Goto(r, "new_lead", loc[r])
    <3>1. pc'[r] = "new_lead" /\ loc'[r] = loc[r]
      BY <1>1, <2>4 DEF Goto
    <3>2. Vacant(e)
      BY <2>3, <2>4, UnmatchedVacant
    <3>3. Names(r)'
      BY <1>1, <2>1, <3>1, <3>2, BroughtStays DEF Names, Vacant, Bears
    <3> QED BY <1>2, <1>6, <2>1, <3>1, <3>3 DEF Carries, Verifying
  <2>5. CASE pc'[r] \in {"done", "attach"}
    BY <1>7, <2>1, <2>5 DEF Verifying
  <2> QED BY <1>1, <2>2, <2>4, <2>5 DEF Finish, Goto
<1>12. CASE NewLead(r)
  <2> DEFINE e == signup[loc[r].arg.sid].email
             c == [NoCard EXCEPT !.email = e]
  <2>1. /\ pc[r] = "new_lead" /\ AddLead(NewRow(c, None))
        /\ \E s : Goto(r, "attach", s)
    BY <1>12, Zenon DEF NewLead
  <2>2. pc'[r] = "attach"
    BY <1>1, <2>1 DEF Goto
  <2>3. c.email = e
    BY DEF NoCard
  <2> HIDE DEF c
  <2>4. NamersMet \/ Vacant(e)
    BY <2>1 DEF NameInv, Names
  <2>5. /\ NextId \in Unused /\ lead'[NextId] = NewRow(c, None)
        /\ \A p \in Pid \ {NextId} : lead'[p] = lead[p]
    BY <1>2, <2>1, AddTouches DEF Adding
  <2>6. NamesTyped' /\ pc'[r] \notin Naming
    BY <1>5, <2>2 DEF Verifying, Naming
  <2>7. ASSUME NEW p, p = NextId, NEW given, given = e PROVE NameInv'
    <3>1. p \in Pid /\ \A q \in Pid \ {p} : lead'[q] = lead[q]
      BY <2>5, <2>7 DEF Unused
    <3>2. \A f : Bears(p, f)' => f = given
      BY <2>3, <2>5, <2>7 DEF Bears, NewRow
    <3> QED BY <1>1, <2>1, <2>4, <2>6, <2>7, <3>1, <3>2, NameGiven DEF Naming
  <2> QED BY <2>7
<1>13. ASSUME NEW label, label \notin Verifying, NEW session, Begin(r, label, session)
       PROVE  NameInv'
  BY <1>1, <1>7, <1>13, BeginLaunches DEF Launch
<1>14. CASE Visit(r) \/ SignUp(r) \/ Resend(r)
  BY <1>13, <1>14 DEF Visit, SignUp, Resend, Verifying
<1>15. CASE Erase(r) \/ OptOut(r)
  BY <1>13, <1>15 DEF Erase, OptOut, Verifying
<1>16. CASE InsertVisit(r) \/ BumpPage(r) \/ GetVariant(r) \/ BumpVariant(r)
  BY <1>1, <1>7, <1>16 DEF InsertVisit, BumpPage, GetVariant, BumpVariant, Goto, Finish, Verifying
<1>17. CASE GetVisitor(r) \/ TurnCurious(r) \/ InsertSignup(r) \/ SendFirst(r) \/ SendAgain(r)
  BY <1>1, <1>7, <1>17 DEF GetVisitor, TurnCurious, InsertSignup, SendFirst, SendAgain, Goto,
     Finish, Broken, Verifying
<1>18. CASE Attach(r) \/ Register(r) \/ CommitErase(r)
  BY <1>1, <1>7, <1>18 DEF Attach, Register, CommitErase, Goto, Finish, Broken, Verifying
<1>19. CASE InsertOptOut(r) \/ LeaveFunnel(r) \/ NameLead(r)
  BY <1>1, <1>7, <1>19 DEF InsertOptOut, LeaveFunnel, NameLead, Goto, Finish, Broken, Verifying
<1> QED BY <1>8, <1>9, <1>10, <1>11, <1>12, <1>14, <1>15, <1>16, <1>17, <1>18,
           <1>19 DEF SignupNext

\* Each step of a delivery.  A contact of Apollo brings its email.
LEMMA NamesHookStep ==
  ASSUME Desk, TableInv, NameInv, NEW r \in Req, WebhookNext(r), Acts(r, HookLabels),
         Touches(pc[r]), UNCHANGED public
  PROVE  NameInv'
<1>1. /\ \A q \in Req \ {r} : pc'[q] = pc[q] /\ loc'[q] = loc[q]
      /\ r \in DOMAIN pc /\ r \in DOMAIN loc /\ met \subseteq met' /\ UNCHANGED signup
  BY DEF Acts, Desk, Placed, public, form
<1>2. /\ LeadTyped /\ Held(pc[r], loc[r], lead) /\ HookKind(pc[r], loc[r]) /\ Carries(r)
      /\ NamesTyped /\ pc[r] \in HookLabels \cup {"idle"} /\ pc'[r] \in HookLabels \cup Over
  BY DEF TableInv, Desk, HookKinds, NameInv, NamesTyped, Acts
<1>3. pc'[r] \notin Naming \cup Verifying /\ pc[r] \notin Naming
  BY <1>2 DEF HookLabels, Over, Naming, Verifying
<1> DEFINE k == loc[r].arg.key
<1>4. ASSUME UNCHANGED applied \/ (Apply(r) /\ pc[r] \in HookLabels)
      PROVE  /\ DOMAIN applied' = DOMAIN Hooks /\ \A j \in DOMAIN Hooks : applied'[j] \in Nat
             /\ \A e : Brought(e) => Brought(e)'
             /\ Apply(r) /\ pc[r] \in HookLabels => \A e :
                   Hooks[k].kind = "contact" /\ Hooks[k].card.email = e => Brought(e)'
  <2>1. CASE UNCHANGED applied /\ ~(Apply(r) /\ pc[r] \in HookLabels)
    BY <1>2, <2>1, BroughtStays DEF NamesTyped
  <2>2. CASE Apply(r) /\ pc[r] \in HookLabels
    <3>1. k \in DOMAIN Hooks
      BY <1>2, <2>2 DEF HookKind
    <3>2. \A j \in DOMAIN Hooks : applied'[j] = IF j = k THEN applied[j] + 1 ELSE applied[j]
      BY <1>2, <2>2 DEF Apply, NamesTyped
    <3>3. DOMAIN applied' = DOMAIN Hooks
      BY <1>2, <2>2 DEF Apply, NamesTyped
    <3> HIDE DEF k
    <3>4. \A j \in DOMAIN Hooks : applied'[j] \in Nat /\ (applied[j] > 0 \/ j = k => applied'[j] > 0)
      BY <1>2, <3>2 DEF NamesTyped
    <3> QED BY <3>1, <3>3, <3>4 DEF Brought
  <2> QED BY <1>4, <2>1, <2>2
<1>5. ASSUME UNCHANGED applied \/ (Apply(r) /\ pc[r] \in HookLabels),
             pc'[r] \in {"add", "fill"} => Hooks[loc'[r].arg.key].kind = "contact",
             \A e : Brought(e)' \/ \A p \in Pid : Bears(p, e)' => Bears(p, e)
      PROVE  NameInv'
  <2>1. Carries(r)'
    BY <1>3, <1>5 DEF Carries, Naming
  <2>2. \A q \in Req \ {r} : Carries(q)'
    BY <1>1, <1>2 DEF NamesTyped, Carries, Verifying
  <2>3. NamesTyped'
    BY <1>4, <1>5, <2>1, <2>2 DEF NamesTyped
  <2> QED BY <1>1, <1>3, <1>4, <1>5, <2>3, NamesGoOn
<1>6. ASSUME UNCHANGED applied \/ (Apply(r) /\ pc[r] \in HookLabels),
             pc'[r] \in {"add", "fill"} => Hooks[loc'[r].arg.key].kind = "contact",
             UNCHANGED lead \/ pc[r] \notin {"add", "fill"}
      PROVE  NameInv'
  <2>1. \A p \in Pid : \A e : Bears(p, e)' => Bears(p, e)
    <3>1. CASE UNCHANGED lead
      BY <3>1 DEF Bears
    <3>2. CASE pc[r] \notin {"add", "fill"}
      BY <1>3, <3>2, EmailsKept DEF Adding, Naming
    <3> QED BY <1>6, <3>1, <3>2
  <2> QED BY <1>5, <1>6, <2>1
<1>7. CASE Deliver(r)
  <2>1. pc'[r] = "receive" /\ UNCHANGED lead /\ UNCHANGED applied
    <3>1. ASSUME NEW s, Begin(r, "receive", s) PROVE pc'[r] = "receive" /\ UNCHANGED lead
      BY <1>1, <3>1, BeginLaunches DEF Launch
    <3> QED BY <1>7, <3>1 DEF Deliver, hooks
  <2> QED BY <1>6, <2>1
<1>8. CASE Receive(r)
  <2>1. pc[r] = "receive" /\ UNCHANGED lead /\ UNCHANGED applied
    BY <1>8 DEF Receive
  <2>2. CASE Broken(r)
    BY <1>1, <1>6, <2>1, <2>2 DEF Broken, Goto
  <2>3. CASE Begun(r)
    <3>1. ASSUME NEW label, NEW p,
                 Goto(r, label, loc[r]) \/ Goto(r, label, Session(loc[r].op, p, loc[r].arg))
          PROVE  pc'[r] = label /\ loc'[r].arg = loc[r].arg
      BY <1>1, <3>1, SessionHolds DEF Goto
    <3>2. pc'[r] \in {"add", "fill"} => Hooks[loc'[r].arg.key].kind = "contact"
      BY <2>3, <3>1 DEF Begun
    <3> QED BY <1>6, <2>1, <3>2
  <2> QED BY <1>8, <2>2, <2>3 DEF Receive
<1>9. CASE AddContact(r)
  <2> DEFINE c == Hooks[k].card
             new == [c EXCEPT !.company = None]
  <2>1. pc[r] = "add" /\ Hooks[k].kind = "contact" /\ c \in Cards
    BY <1>2, <1>9, WebhookAssumption DEF AddContact, Carries, HookKind, HookLabels
  <2>2. \/ Broken(r) /\ UNCHANGED <<lead, applied>>
        \/ AddLead(NewRow(new, None)) /\ Apply(r) /\ Goto(r, "processed", loc[r])
    BY <1>9 DEF AddContact
  <2>3. new.email = c.email
    BY <2>1 DEF Cards
  <2> HIDE DEF new
  <2>4. CASE Broken(r) /\ UNCHANGED <<lead, applied>>
    BY <1>1, <1>6, <2>4 DEF Broken, Goto
  <2>5. CASE AddLead(NewRow(new, None)) /\ Apply(r) /\ Goto(r, "processed", loc[r])
    <3>1. /\ NextId \in Unused /\ lead'[NextId] = NewRow(new, None)
          /\ \A p \in Pid \ {NextId} : lead'[p] = lead[p]
      BY <1>2, <2>1, <2>5, AddTouches DEF Adding
    <3>2. pc'[r] = "processed" /\ pc[r] \in HookLabels
      BY <1>1, <2>1, <2>5 DEF Goto, HookLabels
    <3>3. ASSUME NEW given, given = c.email PROVE NameInv'
      <4>1. Brought(given)'
        BY <1>4, <2>1, <2>5, <3>2, <3>3
      <4>2. lead'[NextId].email = given
        BY <2>3, <3>1, <3>3 DEF NewRow
      <4>3. ASSUME NEW e, NEW p \in Pid, lead'[p].email = e, e # given PROVE lead'[p] = lead[p]
        BY <3>1, <4>2, <4>3
      <4>4. \A e : Brought(e)' \/ \A p \in Pid : Bears(p, e)' => Bears(p, e)
        BY <4>1, <4>3 DEF Bears
      <4> QED BY <1>5, <2>5, <3>2, <4>4
    <3> QED BY <3>3
  <2> QED BY <2>2, <2>4, <2>5
<1>10. CASE FillBlanks(r)
  <2> DEFINE c == Hooks[k].card
             old == loc[r].row
             Or(value, other) == IF value = None THEN other ELSE value
             new == [old EXCEPT !.apollo = Or(@, c.apollo), !.linkedin = Or(@, c.linkedin),
                                !.email = Or(@, c.email)]
  <2>1. pc[r] = "fill" /\ Hooks[k].kind = "contact"
    BY <1>2, <1>10 DEF FillBlanks, Carries
  <2>2. \/ Broken(r) /\ UNCHANGED <<lead, applied>>
        \/ WriteBack(r, new) /\ Apply(r) /\ Goto(r, "processed", loc[r])
    BY <1>10, Zenon DEF FillBlanks
  <2>3. DOMAIN old = RowFields
    BY <1>2, <2>1 DEF Held, Holding
  <2>4. /\ \A f \in RowFields \ {"apollo", "linkedin", "email"} : new[f] = old[f]
        /\ new.email = IF old.email = None THEN c.email ELSE old.email
    BY <2>3 DEF RowFields
  <2> HIDE DEF new
  <2>5. CASE Broken(r) /\ UNCHANGED <<lead, applied>>
    BY <1>1, <1>6, <2>5 DEF Broken, Goto
  <2>6. CASE WriteBack(r, new) /\ Apply(r) /\ Goto(r, "processed", loc[r])
    <3>1. pc'[r] = "processed" /\ pc[r] \in HookLabels
      BY <1>1, <2>1, <2>6 DEF Goto, HookLabels
    <3>2. {"apollo", "linkedin", "email"} \subseteq Columns(pc[r])
          /\ "state" \in RowFields \ {"apollo", "linkedin", "email"} /\ "email" \in RowFields
      BY <2>1 DEF Columns, RowFields
    <3>3. ASSUME NEW p, p = loc[r].lead, NEW given, given = c.email PROVE NameInv'
      <4>1. /\ p \in Pid /\ \A q \in Pid \ {p} : lead'[q] = lead[q]
            /\ \A f \in RowFields :
                  lead'[p][f] = IF old[f] = new[f] THEN lead[p][f] ELSE new[f]
        BY <1>2, <2>1, <2>4, <2>6, <3>2, <3>3, WriteTouches DEF Holding
      <4>2. lead'[p].state = lead[p].state /\ lead'[p].email \in {lead[p].email, given}
        BY <2>4, <3>2, <3>3, <4>1
      <4>3. \A e : e = given \/ \A q \in Pid : Bears(q, e)' => Bears(q, e)
        BY <4>1, <4>2 DEF Bears
      <4>4. Brought(given)'
        BY <1>4, <2>1, <2>6, <3>1, <3>3
      <4>5. \A e : Brought(e)' \/ \A q \in Pid : Bears(q, e)' => Bears(q, e)
        BY <4>3, <4>4
      <4> QED BY <1>5, <2>6, <3>1, <4>5
    <3> QED BY <3>3
  <2> QED BY <2>2, <2>5, <2>6
<1>11. CASE LogEvent(r)
  <2>1. pc[r] = "event" /\ Apply(r) /\ pc'[r] = "processed"
    BY <1>1, <1>11 DEF LogEvent, Goto
  <2> QED BY <1>6, <2>1 DEF HookLabels
<1>12. CASE Book(r)
  BY <1>1, <1>6, <1>12 DEF Book, Goto, hooks
<1>13. CASE MarkProcessed(r) \/ AuditApollo(r)
  BY <1>1, <1>6, <1>13 DEF MarkProcessed, AuditApollo, Goto, Finish, hooks
<1>14. CASE Fault(r) \/ MarkFailed(r)
  BY <1>1, <1>6, <1>14 DEF Fault, MarkFailed, Goto, Finish
<1> QED BY <1>7, <1>8, <1>9, <1>10, <1>11, <1>12, <1>13, <1>14 DEF WebhookNext

\* A step of nobody.
LEMMA NamesAside ==
  ASSUME NameInv, Aside
  PROVE  NameInv'
<1>1. UNCHANGED lead /\ UNCHANGED signup /\ UNCHANGED applied /\ met \subseteq met'
  BY DEF Aside, hooks, Elsewhere
<1>2. ASSUME NEW q \in Req, pc'[q] \in Naming \cup Verifying \cup {"add", "fill"}
      PROVE  pc'[q] = pc[q] /\ loc'[q] = loc[q]
  <2>1. pc'[q] \in RouteLabels \cup SignupLabels \cup HookLabels
    BY <1>2 DEF Naming, Verifying, RouteLabels, SignupLabels, VerifyLabels, HookLabels
  <2> QED BY <2>1 DEF Aside, Elsewhere
<1>3. ASSUME NEW q \in Req PROVE Carries(q)'
  <2>1. Carries(q)
    BY DEF NameInv, NamesTyped
  <2> QED BY <1>1, <1>2, <2>1 DEF Carries, Naming
<1>4. NamesTyped'
  BY <1>1, <1>3 DEF NameInv, NamesTyped
<1>5. \A e : (Brought(e) => Brought(e)') /\ \A p : Bears(p, e)' => Bears(p, e)
  BY <1>1, BroughtStays DEF Bears
<1> QED BY <1>1, <1>2, <1>4, <1>5, NamesGoOn

\* No email is on two live leads at the start.
LEMMA NamesStart == Init => NameInv
<1> SUFFICES ASSUME Init PROVE NameInv
  OBVIOUS
<1>1. \A r \in Req : pc[r] = "idle"
  BY DEF Init, LeadInit, DeskInit
<1>2. NamesTyped
  BY <1>1 DEF NamesTyped, Carries, Verifying, Init, WebhookInit
<1>3. \A r \in Req : Names(r)
  BY <1>1 DEF Names
<1>4. lead = Seed
  BY DEF Init, LeadInit
<1>5. \A e : Sole(e)
  BY <1>4, SeedAssumption DEF Sole, Bears
<1> QED BY <1>2, <1>3, <1>5 DEF NameInv

\* Two live leads share an email only if Apollo brought it or if two requests that
\* name leads overlapped (services/prospects/dedupe.py, find_existing).
THEOREM OnePerEmailHolds == Spec => []OnePerEmail
<1>1. Init => Desk /\ TableInv /\ NameInv
  BY DeskStarts, TableStarts, NamesStart
<1>2. Desk /\ TableInv /\ NameInv /\ [Next]_vars => (Desk /\ TableInv /\ NameInv)'
  <2> SUFFICES ASSUME Desk, TableInv, NameInv, [Next]_vars
               PROVE  (Desk /\ TableInv /\ NameInv)'
    OBVIOUS
  <2>1. Desk' /\ TableInv'
    BY TableSteps
  <2>2. ASSUME NEW r \in Req, RoutesNext(r), Acts(r, RouteLabels), Touches(pc[r]),
               UNCHANGED <<public, hooks>>
        PROVE  NameInv'
    BY <2>2, NamesRouteStep
  <2>3. ASSUME NEW r \in Req, SignupNext(r), Acts(r, SignupLabels), Touches(pc[r]),
               UNCHANGED hooks
        PROVE  NameInv'
    BY <2>3, NamesSignupStep
  <2>4. ASSUME NEW r \in Req, WebhookNext(r), Acts(r, HookLabels), Touches(pc[r]),
               UNCHANGED public
        PROVE  NameInv'
    BY <2>4, NamesHookStep
  <2>5. Aside => NameInv'
    BY NamesAside
  <2> QED BY <2>1, <2>2, <2>3, <2>4, <2>5, TableSteps
<1>3. NameInv => OnePerEmail
  <2> SUFFICES ASSUME NameInv, ~NamersMet, NEW p \in LiveIn(lead), NEW q \in LiveIn(lead),
                      p # q, lead[p].email = lead[q].email, lead[p].email # None
               PROVE  Brought(lead[p].email)
    BY DEF OnePerEmail, NamersMet, Brought
  <2>1. Sole(lead[p].email)
    BY DEF NameInv
  <2> QED BY <2>1 DEF Sole, Bears, LiveIn
<1> QED BY <1>1, <1>2, <1>3, PTL DEF Spec

=============================================================================
