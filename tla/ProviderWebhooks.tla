--------------------------- MODULE ProviderWebhooks ---------------------------
(***************************************************************************)
(* POST /api/webhooks/calendly and /apollo: a delivery is recorded, applied *)
(* to the prospects and marked.  Signatures and payload parsing are left    *)
(* out, and so are the audit rows but for Apollo's, which is written behind *)
(* the mark.                                                                *)
(***************************************************************************)
EXTENDS Leads

CONSTANTS
    Hooks,        \* deliveries the providers may send: key |-> [kind, card]
    MaxFaults     \* bound: reads that fail while a delivery is processed

\* booked: invitee.created.  missed: invitee.canceled of a past meeting.
\* contact: a person that Apollo created or updated.
ASSUME WebhookAssumption ==
    /\ \A k \in DOMAIN Hooks : /\ Hooks[k].kind \in {"booked", "missed", "contact"}
                               /\ Hooks[k].card \in Cards
    /\ MaxFaults \in Nat

VARIABLES
    delivery,     \* webhook_deliveries.status per key, "none" without a row
    applied,      \* history: how often a delivery was applied
    failures,     \* history: deliveries that were marked failed
    faults        \* reads that failed so far

hooks == <<delivery, applied, failures, faults>>

WebhookInit ==
    /\ delivery = [k \in DOMAIN Hooks |-> "none"]
    /\ applied = [k \in DOMAIN Hooks |-> 0]
    /\ failures = {} /\ faults = 0

-----------------------------------------------------------------------------
\* A delivery that is received or processed is a duplicate.
Deliver(r) ==
    \E k \in DOMAIN Hooks :
        /\ delivery[k] \in {"none", "failed"}
        /\ Begin(r, "receive", Session(IF Hooks[k].kind = "contact" THEN "apollo"
                                       ELSE "calendly",
                                       None, [key |-> k, seen |-> delivery[k]]))
        /\ UNCHANGED hooks

\* The lead of the delivery, looked up behind record's commit.
Matched(k) ==
    LET c == Hooks[k].card
        known == {p \in LiveIn(lead) : c.apollo # None /\ lead[p].apollo = c.apollo}
    IN IF Hooks[k].kind # "contact" THEN ByEmail(lead, c.email)
       ELSE IF known # {} THEN known
       ELSE {p \in LiveIn(lead) : c.linkedin # None /\ lead[p].linkedin = c.linkedin}

\* What the delivery goes on to: without a lead only a contact is applied.
Begun(r) ==
    LET k == loc[r].arg.key
        kind == Hooks[k].kind
    IN \/ /\ Matched(k) = {}
          /\ Goto(r, IF kind = "contact" THEN "add" ELSE "processed", loc[r])
       \/ \E p \in Matched(k) :
             LET session == Session(loc[r].op, p, loc[r].arg) IN
             \/ kind = "contact" /\ Goto(r, "fill", session)
             \/ kind = "booked" /\ ~lead[p].booked /\ Goto(r, "book", session)
             \/ kind = "booked" /\ lead[p].booked /\ Goto(r, "event", session)
             \/ kind = "missed" /\ Goto(r, "event", session)

\* Mutant: a second row for one provider and event id is accepted.
ReceiveAnyway(r) ==
    /\ pc[r] = "receive"
    /\ delivery' = [delivery EXCEPT ![loc[r].arg.key] = "received"]
    /\ Begun(r)
    /\ UNCHANGED <<lead, applied, failures, faults, moved>>

\* record: the insert, which the unique key may refuse, or the replay reset.
Receive(r) ==
    LET k == loc[r].arg.key IN
    /\ pc[r] = "receive"
    /\ \/ /\ loc[r].arg.seen = "none" /\ delivery[k] # "none"
          /\ Broken(r) /\ UNCHANGED delivery
       \/ /\ loc[r].arg.seen = "failed" \/ delivery[k] = "none"
          /\ delivery' = [delivery EXCEPT ![k] = "received"]
          /\ Begun(r)
    /\ UNCHANGED <<lead, applied, failures, faults, moved>>

\* Mutant: a booking warms the lead, whatever its stage.
BookWarms(r) ==
    /\ pc[r] = "book"
    /\ WriteBack(r, [loc[r].row EXCEPT !.booked = TRUE, !.stage = "curious"])
    /\ Goto(r, "event", loc[r])
    /\ UNCHANGED <<hooks, moved>>

\* set_demo_booked of a lead that had no demo when it was loaded.
Book(r) ==
    /\ pc[r] = "book"
    /\ WriteBack(r, [loc[r].row EXCEPT !.booked = TRUE])
    /\ Goto(r, "event", loc[r])
    /\ UNCHANGED <<hooks, moved>>

Apply(r) == applied' = [applied EXCEPT ![loc[r].arg.key] = @ + 1]

\* The campaign event demo_booked or demo_no_show.
LogEvent(r) ==
    /\ pc[r] = "event"
    /\ Apply(r) /\ Goto(r, "processed", loc[r])
    /\ UNCHANGED <<lead, delivery, failures, faults, moved>>

\* _upsert_prospect_from_apollo.  A refused flush leaves the session unusable, so
\* mark_failed raises as well and the delivery stays received.
AddContact(r) ==
    LET c == Hooks[loc[r].arg.key].card IN
    /\ pc[r] = "add"
    /\ \/ Taken(None, c) /\ Broken(r) /\ UNCHANGED <<lead, applied>>
       \/ /\ ~Taken(None, c)
          /\ AddLead(NewRow([c EXCEPT !.company = None], None))
          /\ Apply(r) /\ Goto(r, "processed", loc[r])
    /\ UNCHANGED <<delivery, failures, faults, moved>>

FillBlanks(r) ==
    LET c == Hooks[loc[r].arg.key].card
        old == loc[r].row
        Or(value, other) == IF value = None THEN other ELSE value
        new == [old EXCEPT !.apollo = Or(@, c.apollo), !.linkedin = Or(@, c.linkedin),
                           !.email = Or(@, c.email)]
        unique == [NoCard EXCEPT !.apollo = new.apollo, !.linkedin = new.linkedin]
    IN /\ pc[r] = "fill"
       /\ \/ Taken(loc[r].lead, unique) /\ Broken(r) /\ UNCHANGED <<lead, applied>>
          \/ /\ ~Taken(loc[r].lead, unique)
             /\ WriteBack(r, new) /\ Apply(r) /\ Goto(r, "processed", loc[r])
       /\ UNCHANGED <<delivery, failures, faults, moved>>

\* mark_processed; Apollo's audit row follows inside the same try.
MarkProcessed(r) ==
    /\ pc[r] = "processed"
    /\ delivery' = [delivery EXCEPT ![loc[r].arg.key] = "processed"]
    /\ IF loc[r].op = "apollo" THEN Goto(r, "audit", loc[r]) ELSE Finish(r)
    /\ UNCHANGED <<lead, applied, failures, faults, moved>>

AuditApollo(r) ==
    /\ pc[r] = "audit" /\ Finish(r)
    /\ UNCHANGED <<lead, hooks, moved>>

\* A read between two commits fails: the except marks the delivery failed.
Fault(r) ==
    /\ pc[r] \in {"book", "event", "add", "fill", "processed", "audit"}
    /\ faults < MaxFaults /\ faults' = faults + 1
    /\ Goto(r, "failed", loc[r])
    /\ UNCHANGED <<lead, delivery, applied, failures, moved>>

MarkFailed(r) ==
    LET k == loc[r].arg.key IN
    /\ pc[r] = "failed"
    /\ delivery' = [delivery EXCEPT ![k] = "failed"]
    /\ failures' = failures \cup {k}
    /\ Finish(r)
    /\ UNCHANGED <<lead, applied, faults, moved>>

-----------------------------------------------------------------------------
WebhookNext(r) ==
    \/ Deliver(r) \/ Receive(r) \/ Book(r) \/ LogEvent(r) \/ AddContact(r)
    \/ FillBlanks(r) \/ MarkProcessed(r) \/ AuditApollo(r) \/ Fault(r) \/ MarkFailed(r)
=============================================================================
