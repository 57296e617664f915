------------------------------ MODULE SignupOtp ------------------------------
(***************************************************************************)
(* The public side: landing-page visits, the signup form with its one-time *)
(* password, the deletion of a signup's lead, and the opt-out from mails.  *)
(*                                                                         *)
(* There is one landing page and one visitor.  HH-BE sends and checks the  *)
(* passwords.  campaign_events 16 and 17 and the Telegram alert, which     *)
(* nothing reads back, are left out.                                       *)
(***************************************************************************)
EXTENDS Leads

CONSTANTS
    Worker,       \* the processes that gunicorn starts (Dockerfile, --workers)
    Sid,          \* ids of signups, handed out in increasing order
    Variant,      \* variants of the landing page
    Visitors,     \* whom a visit may be by: leads, or None for a stranger
    FormEmails,   \* emails typed into the signup form
    OutEmails,    \* emails that opt out
    Start         \* the signups table at the start

ASSUME SignupAssumption == Sid \subseteq Nat /\ None \notin Variant

VARIABLES
    signup,       \* the signups table
    cooling,      \* <<w, s>>: worker w noted a send to s in the last minute (_RESEND_TS)
    sends,        \* history: passwords mailed by a worker to a signup, see NoSends
    visits,       \* landing_page_visits in the order of their inserts, as variants
    counts,       \* visit_count of page and variants, signup_count of variants
    optout        \* unsubscribes: for each email its row, as the lead it names

form == <<signup, cooling, sends>>
page == <<visits, counts>>
public == <<form, page, optout>>

\* state: "free", "open", or "gone" with its row deleted.
NewSignup(e) == [state |-> "open", email |-> e, verified |-> FALSE, lead |-> None]

\* Mailed since the worker's note of the last send ran out, and those of them whose
\* answer the worker did not hear.
NoSends == [mailed |-> 0, unheard |-> 0]

\* The table at the start: a verified signup has its lead.
ASSUME StartAssumption ==
    /\ DOMAIN Start = Sid
    /\ \A s \in Sid :
          /\ DOMAIN Start[s] = DOMAIN NewSignup(None)
          /\ Start[s].state \in {"free", "open", "gone"}
          /\ Start[s].lead # None =>
                Start[s].lead \in Pid /\ Start[s].verified /\ Seed[Start[s].lead].state # "free"
          /\ Start[s].state = "open" /\ Start[s].verified =>
                /\ Start[s].lead # None
                /\ Seed[Start[s].lead].registered /\ Seed[Start[s].lead].state = "live"

SignupInit ==
    /\ signup = Start
    /\ cooling = {} /\ sends = [x \in Worker \X Sid |-> NoSends]
    /\ visits = <<>>
    /\ counts = [page |-> 0, visit |-> [v \in Variant |-> 0], signup |-> [v \in Variant |-> 0]]
    /\ optout = [e \in Email |-> {}]

Open == {s \in Sid : signup[s].state = "open"}
Blank == {s \in Sid : signup[s].state = "free"}

-----------------------------------------------------------------------------
(***************************************************************************)
(* POST /api/landing-pages/visits, by a visitor whose lead is p.           *)
(***************************************************************************)
Visit(r) ==
    \E v \in Variant, p \in Visitors \cap (LiveIn(lead) \cup {None}) :
        /\ Begin(r, "visit", Session("visit", None,
                                     [variant |-> v, lead |-> p, seen |-> counts.page]))
        /\ UNCHANGED public

InsertVisit(r) ==
    LET v == loc[r].arg.variant IN
    /\ pc[r] = "visit"
    /\ visits' = Append(visits, v)
    /\ Goto(r, "bump_page", loc[r])
    /\ UNCHANGED <<lead, form, counts, optout, moved>>

\* Mutant: the bump is not committed.
BumpPageUnsaved(r) ==
    /\ pc[r] = "bump_page" /\ Goto(r, "get_variant", loc[r])
    /\ UNCHANGED <<lead, public, moved>>

\* bump_visit of the page, loaded before the insert.
BumpPage(r) ==
    /\ pc[r] = "bump_page"
    /\ counts' = [counts EXCEPT !.page = loc[r].arg.seen + 1]
    /\ Goto(r, "get_variant", loc[r])
    /\ UNCHANGED <<lead, form, visits, optout, moved>>

GetVariant(r) ==
    /\ pc[r] = "get_variant"
    /\ Goto(r, "bump_variant",
            [loc[r] EXCEPT !.arg.seen = counts.visit[loc[r].arg.variant]])
    /\ UNCHANGED <<lead, public, moved>>

BumpVariant(r) ==
    LET v == loc[r].arg.variant IN
    /\ pc[r] = "bump_variant"
    /\ counts' = [counts EXCEPT !.visit = [@ EXCEPT ![v] = loc[r].arg.seen + 1]]
    /\ IF loc[r].arg.lead = None THEN Finish(r) ELSE Goto(r, "curious?", loc[r])
    /\ UNCHANGED <<lead, form, visits, optout, moved>>

\* promote_to_curious_on_visit: only a cold lead moves.
GetVisitor(r) ==
    /\ pc[r] = "curious?"
    /\ LET p == loc[r].arg.lead IN
       IF p \in LiveIn(lead) /\ lead[p].stage = "cold"
       THEN Goto(r, "curious", Session("visit", p, None))
       ELSE Finish(r)
    /\ UNCHANGED <<lead, public, moved>>

TurnCurious(r) ==
    /\ pc[r] = "curious"
    /\ WriteBack(r, [loc[r].row EXCEPT !.stage = "curious"])
    /\ Finish(r)
    /\ UNCHANGED <<public, moved>>

-----------------------------------------------------------------------------
(***************************************************************************)
(* POST /api/signups, /resend-otp and /otp-verify.  A request is answered  *)
(* by one of the workers, and the table of the last sends is a dict of the *)
(* process: no worker sees another's.                                      *)
(***************************************************************************)
SignUp(r) ==
    \E e \in FormEmails, w \in Worker :
        /\ Cardinality({q \in Req : pc[q] = "sign_up"}) < Cardinality(Blank)     \* bound
        /\ Begin(r, "sign_up",
                 Session("signup", None, [email |-> e, sid |-> None, worker |-> w]))
        /\ UNCHANGED public

InsertSignup(r) ==
    /\ pc[r] = "sign_up" /\ Blank # {}
    /\ signup' = [signup EXCEPT ![Min(Blank)] = NewSignup(loc[r].arg.email)]
    /\ Goto(r, "send", [loc[r] EXCEPT !.arg.sid = Min(Blank)])
    /\ UNCHANGED <<lead, cooling, sends, page, optout, moved>>

\* HH-BE mailed a password and says so; or it mailed one and the answer is lost.
Mailed(x) == sends' = [sends EXCEPT ![x].mailed = @ + 1]
Unheard(x) ==
    sends' = [sends EXCEPT ![x] = [mailed |-> @.mailed + 1, unheard |-> @.unheard + 1]]

\* Mutant: the first send is not noted.
SendFirstQuiet(r) ==
    LET x == <<loc[r].arg.worker, loc[r].arg.sid>> IN
    /\ pc[r] = "send"
    /\ Mailed(x) \/ Unheard(x) \/ UNCHANGED sends
    /\ Finish(r)
    /\ UNCHANGED <<lead, signup, cooling, page, optout, moved>>

\* A send that fails, or whose answer is lost behind the mail (a timeout), is audited
\* and not noted.
SendFirst(r) ==
    LET x == <<loc[r].arg.worker, loc[r].arg.sid>> IN
    /\ pc[r] = "send"
    /\ \/ Mailed(x) /\ cooling' = cooling \cup {x}
       \/ (Unheard(x) \/ UNCHANGED sends) /\ cooling' = cooling
    /\ Finish(r)
    /\ UNCHANGED <<lead, signup, page, optout, moved>>

Resend(r) ==
    \E s \in Open, w \in Worker :
        /\ ~signup[s].verified            \* else 409
        /\ <<w, s>> \notin cooling        \* else 429
        /\ Begin(r, "resend", Session("resend", None, [sid |-> s, worker |-> w]))
        /\ UNCHANGED public

\* HH-BE answers, that it mailed or that it did not; or the call raises, and then the
\* mail may have gone out, too.
SendAgain(r) ==
    LET x == <<loc[r].arg.worker, loc[r].arg.sid>> IN
    /\ pc[r] = "resend"
    /\ \/ (Mailed(x) \/ UNCHANGED sends) /\ cooling' = cooling \cup {x} /\ Finish(r)
       \/ (Unheard(x) \/ UNCHANGED sends) /\ cooling' = cooling /\ Broken(r)
    /\ UNCHANGED <<lead, signup, page, optout, moved>>

\* A minute after a worker's last send to a signup.
CoolDown ==
    \E x \in cooling :
        /\ cooling' = cooling \ {x} /\ sends' = [sends EXCEPT ![x] = NoSends]
        /\ UNCHANGED <<desk, lead, signup, page, optout, moved>>

\* A worker that noted a send is restarted: its notes go, and with it die its requests
\* of the form and any of the others, whose worker does not matter.
Restart ==
    \E w \in Worker, lost \in SUBSET Active :
        /\ aborts < MaxAborts /\ aborts' = aborts + 1
        /\ \E x \in cooling : x[1] = w
        /\ \A r \in Active : loc[r].op \in {"signup", "resend"} =>
                              (r \in lost <=> loc[r].arg.worker = w)
        /\ cooling' = {x \in cooling : x[1] # w}
        /\ died' = died \cup {"worker"} \cup {loc[r].op : r \in lost}
        /\ pc' = [r \in Req |-> IF r \in lost THEN "error" ELSE pc[r]]
        /\ loc' = [r \in Req |-> IF r \in lost THEN Idle ELSE loc[r]]
        /\ UNCHANGED <<lead, signup, sends, page, optout, moved, met>>

\* A verified signup is answered at once.
Verify(r) ==
    \E s \in Open :
        /\ ~signup[s].verified
        /\ Begin(r, "check", Session("verify", None,
                     [sid |-> s, lead |-> signup[s].lead, seen |-> 0, variant |-> None]))
        /\ UNCHANGED public

\* The variant of the visitor's latest visit.
Latest == IF visits = <<>> THEN None ELSE Last(visits)

\* HH-BE takes the password or not.  mark_otp_verified refreshes the signup; the
\* update of one that was erased meanwhile fails.
MarkVerified(r) ==
    LET s == loc[r].arg.sid IN
    /\ pc[r] = "check"
    /\ \/ Finish(r) /\ UNCHANGED signup                       \* 400
       \/ s \notin Open /\ Broken(r) /\ UNCHANGED signup
       \/ /\ s \in Open
          /\ signup' = [signup EXCEPT ![s].verified = TRUE]
          /\ Goto(r, IF Latest = None THEN "find" ELSE "bump_signup",
                  [loc[r] EXCEPT !.arg = [@ EXCEPT
                      !.lead = signup[s].lead, !.variant = Latest,
                      !.seen = IF Latest = None THEN 0 ELSE counts.signup[Latest]]])
    /\ UNCHANGED <<lead, cooling, sends, page, optout, moved>>

BumpSignup(r) ==
    LET v == loc[r].arg.variant IN
    /\ pc[r] = "bump_signup"
    /\ counts' = [counts EXCEPT !.signup = [@ EXCEPT ![v] = loc[r].arg.seen + 1]]
    /\ Goto(r, "find", loc[r])
    /\ UNCHANGED <<lead, form, visits, optout, moved>>

\* Mutant: a signup of a known lead is not attached to it.
FindUnattached(r) ==
    LET c == [NoCard EXCEPT !.email = signup[loc[r].arg.sid].email] IN
    /\ pc[r] = "find"
    /\ \/ loc[r].arg.lead # None /\ Finish(r)
       \/ /\ loc[r].arg.lead = None /\ Existing(lead, c) = {}
          /\ Goto(r, "new_lead", loc[r])
       \/ /\ loc[r].arg.lead = None /\ Existing(lead, c) # {} /\ Finish(r)
    /\ UNCHANGED <<lead, public, moved>>

\* Mutant: a new lead is made without looking for the email.
FindNobody(r) ==
    /\ pc[r] = "find"
    /\ IF loc[r].arg.lead # None THEN Finish(r) ELSE Goto(r, "new_lead", loc[r])
    /\ UNCHANGED <<lead, public, moved>>

\* Unless the signup has its prospect, it is looked up by email.
FindLead(r) ==
    LET c == [NoCard EXCEPT !.email = signup[loc[r].arg.sid].email] IN
    /\ pc[r] = "find"
    /\ \/ loc[r].arg.lead # None /\ Finish(r)
       \/ /\ loc[r].arg.lead = None /\ Existing(lead, c) = {}
          /\ Goto(r, "new_lead", loc[r])
       \/ /\ loc[r].arg.lead = None
          /\ \E p \in Existing(lead, c) :
                 Goto(r, "attach", Session("verify", p, loc[r].arg))
    /\ UNCHANGED <<lead, public, moved>>

NewLead(r) ==
    /\ pc[r] = "new_lead"
    /\ LET c == [NoCard EXCEPT !.email = signup[loc[r].arg.sid].email] IN
       /\ AddLead(NewRow(c, None))
       /\ Goto(r, "attach", [loc[r] EXCEPT !.lead = NextId, !.row = NewRow(c, None)])
    /\ UNCHANGED <<public, moved>>

Attach(r) ==
    LET s == loc[r].arg.sid IN
    /\ pc[r] = "attach"
    /\ \/ s \notin Open /\ Broken(r) /\ UNCHANGED signup
       \/ /\ s \in Open
          /\ signup' = [signup EXCEPT ![s].lead = loc[r].lead]
          /\ IF loc[r].row.registered THEN Finish(r) ELSE Goto(r, "register", loc[r])
    /\ UNCHANGED <<lead, cooling, sends, page, optout, moved>>

Register(r) ==
    /\ pc[r] = "register"
    /\ WriteBack(r, [loc[r].row EXCEPT !.registered = TRUE])
    /\ Finish(r)
    /\ UNCHANGED <<public, moved>>

\* DELETE /api/signups/lead/{id}: the signups of the lead, or those of the email
\* that have no lead, in one transaction with the lead.
Erase(r) ==
    \E s \in Open :
        LET p == signup[s].lead IN
        /\ Begin(r, "erase", Session("erase", p, [email |-> signup[s].email]))
        /\ UNCHANGED public

CommitErase(r) ==
    /\ pc[r] = "erase"
    /\ LET p == loc[r].lead
           Same(row) == /\ row.state = "open" /\ row.lead = p
                        /\ p = None => row.email = loc[r].arg.email
       IN /\ signup' = [s \in Sid |-> IF Same(signup[s])
                                      THEN [signup[s] EXCEPT !.state = "gone"]
                                      ELSE signup[s]]
          /\ IF p # None /\ loc[r].row.state = "live"
             THEN WriteBack(r, [loc[r].row EXCEPT !.state = "deleted"])
             ELSE UNCHANGED lead
    /\ removed' = IF loc[r].lead = None THEN removed ELSE removed \cup {loc[r].lead}
    /\ Finish(r)
    /\ UNCHANGED <<cooling, sends, page, optout, out>>

-----------------------------------------------------------------------------
(***************************************************************************)
(* POST /api/unsubscribes.  An email that has a row is done.               *)
(***************************************************************************)
OptOut(r) ==
    \E e \in OutEmails :
        /\ optout[e] = {}
        /\ Begin(r, "opt_out", Session("optout", None, [email |-> e]))
        /\ UNCHANGED public

\* get_or_create.  UNIQUE(email) stops the second of two; looking again in its
\* old snapshot it finds nothing and raises.
InsertOptOut(r) ==
    LET e == loc[r].arg.email IN
    /\ pc[r] = "opt_out"
    /\ \/ optout[e] # {} /\ Broken(r) /\ UNCHANGED <<optout, out>>
       \/ /\ optout[e] = {}
          /\ optout' = [optout EXCEPT ![e] = {None}]
          /\ \/ ByEmail(lead, e) = {} /\ Finish(r) /\ UNCHANGED out
             \/ \E p \in ByEmail(lead, e) :
                   /\ out' = out \cup {p}
                   /\ IF lead[p].stage = "unsubscribed" THEN Finish(r)
                      ELSE Goto(r, "leave", Session("optout", p, loc[r].arg))
    /\ UNCHANGED <<lead, form, page, removed>>

LeaveFunnel(r) ==
    /\ pc[r] = "leave"
    /\ WriteBack(r, [loc[r].row EXCEPT !.stage = "unsubscribed"])
    /\ out' = out \cup {loc[r].lead}
    /\ Goto(r, "name", loc[r])
    /\ UNCHANGED <<public, removed>>

NameLead(r) ==
    /\ pc[r] = "name"
    /\ optout' = [optout EXCEPT ![loc[r].arg.email] = {loc[r].lead}]
    /\ Finish(r)
    /\ UNCHANGED <<lead, form, page, moved>>

-----------------------------------------------------------------------------
SignupNext(r) ==
    \/ Visit(r) \/ InsertVisit(r) \/ BumpPage(r) \/ GetVariant(r) \/ BumpVariant(r)
    \/ GetVisitor(r) \/ TurnCurious(r)
    \/ SignUp(r) \/ InsertSignup(r) \/ SendFirst(r) \/ Resend(r) \/ SendAgain(r)
    \/ Verify(r) \/ MarkVerified(r) \/ BumpSignup(r) \/ FindLead(r) \/ NewLead(r)
    \/ Attach(r) \/ Register(r) \/ Erase(r) \/ CommitErase(r)
    \/ OptOut(r) \/ InsertOptOut(r) \/ LeaveFunnel(r) \/ NameLead(r)
=============================================================================
