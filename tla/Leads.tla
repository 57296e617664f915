-------------------------------- MODULE Leads --------------------------------
(***************************************************************************)
(* The prospects table and the requests that work on it: what the routes   *)
(* of prospects, signups, landing pages, unsubscribes and webhooks share.  *)
(*                                                                         *)
(* Audit rows, touch times and quality scores are left out.                *)
(***************************************************************************)
EXTENDS Sessions

CONSTANTS
    Pid,          \* ids of prospects, handed out in increasing order
    Email, Linkedin, Apollo,       \* values of the identifiers
    Company,      \* companies, all known
    Pool,         \* active callers in the order of list_all
    Seed,         \* the prospects table at the start
    MaxMixed,     \* bound: requests of any kinds, some at the same time
    Late          \* bound: the kinds of requests that may follow these, one by one

Caller == ToSet(Pool)
Stages == {"cold", "curious", "converted", "lost", "unsubscribed"}

ASSUME LeadAssumption ==
    /\ Pid \subseteq Nat /\ IsFiniteSet(Pid) /\ MaxMixed \in Nat
    /\ None \notin Nat \cup Email \cup Linkedin \cup Apollo \cup Company \cup Caller

VARIABLES
    lead,         \* the prospects table
    out,          \* history: leads whose opt-out is on record, until a person moves them
    removed       \* history: leads a person deleted

moved == <<out, removed>>

\* A card: what identifies a person and where they work.
Cards == [email : Email \cup {None}, linkedin : Linkedin \cup {None},
          apollo : Apollo \cup {None}, company : Company \cup {None}]
NoCard == [email |-> None, linkedin |-> None, apollo |-> None, company |-> None]

\* state: "free", "live", or "deleted" once deleted_at is set.  uid: the HH-BE
\* account that promotion stored.
NewRow(c, o) ==
    [state |-> "live", email |-> c.email, linkedin |-> c.linkedin,
     apollo |-> c.apollo, company |-> c.company, owner |-> o, stage |-> "cold",
     uid |-> None, registered |-> FALSE, booked |-> FALSE]
NoRow == [NewRow(NoCard, None) EXCEPT !.state = "free"]

\* The table at the start: no email on two live leads.
ASSUME SeedAssumption ==
    /\ DOMAIN Seed = Pid
    /\ \A p \in Pid : /\ DOMAIN Seed[p] = DOMAIN NoRow
                      /\ Seed[p].state \in {"free", "live", "deleted"}
    /\ \A p, q \in Pid :
          /\ Seed[p].state = "live" /\ Seed[q].state = "live"
          /\ Seed[p].email = Seed[q].email /\ Seed[p].email # None
          => p = q

LeadInit ==
    /\ lead = Seed
    /\ DeskInit /\ out = {} /\ removed = {}

-----------------------------------------------------------------------------
(***************************************************************************)
(* Lookups in a table t.                                                   *)
(***************************************************************************)
LiveIn(t) == {p \in Pid : t[p].state = "live"}

\* get_by_linkedin: a deleted row still holds its UNIQUE value.
ByLinkedin(t, u) == {p \in Pid : t[p].state # "free" /\ t[p].linkedin = u}
ByEmail(t, e) == {p \in LiveIn(t) : t[p].email = e}

\* find_existing: the LinkedIn URL decides, then the email.
Existing(t, c) ==
    LET linked == IF c.linkedin = None THEN {} ELSE ByLinkedin(t, c.linkedin)
    IN IF linked # {} THEN linked
       ELSE IF c.email = None THEN {} ELSE ByEmail(t, c.email)

\* The unique keys uk_prospects_linkedin_url and uk_prospects_apollo_contact_id.
Taken(p, c) ==
    \E q \in Pid \ {p} :
        /\ lead[q].state # "free"
        /\ \/ c.linkedin # None /\ lead[q].linkedin = c.linkedin
           \/ c.apollo # None /\ lead[q].apollo = c.apollo

Unused == {p \in Pid : lead[p].state = "free"}
NextId == Min(Unused)
AddLead(row) == Unused # {} /\ lead' = [lead EXCEPT ![NextId] = row]

-----------------------------------------------------------------------------
(***************************************************************************)
(* Requests.                                                               *)
(***************************************************************************)
\* A session: the prospect it works on, as it was loaded, and its payload.
Session(op, p, arg) ==
    [op |-> op, lead |-> p, row |-> IF p = None THEN NoRow ELSE lead[p], arg |-> arg]

Begin(r, label, session) ==
    /\ Launch(r, label, session)
    /\ \/ Cardinality({q \in Req : pc[q] # "idle"}) < MaxMixed
       \/ session.op \in Late /\ Active = {}
    /\ UNCHANGED <<lead, moved>>

\* A commit that writes the loaded row back with new values.
WriteBack(r, new) ==
    lead' = [lead EXCEPT ![loc[r].lead] = WrittenRow(@, loc[r].row, new)]
=============================================================================
