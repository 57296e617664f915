------------------------------ MODULE Outreach ------------------------------
(***************************************************************************)
(* Outreach events that HH-BE pushes, once when a recruiter starts one and *)
(* again when the mails are sent, in any order and more than once, and the *)
(* staff who move their status.                                            *)
(*                                                                         *)
(* The rows of all candidates of an outreach are one outcome.  Audit rows, *)
(* written in a transaction of their own, are left out.                    *)
(***************************************************************************)
EXTENDS Sessions

CONSTANTS
    Key,          \* dedup keys of outreach events
    Customer,     \* key |-> [uid, company]: the HH-BE account and company that pushes
    Prospect,     \* id |-> [live, uid, company]: the leads a push may belong to
    Moves         \* bound: the statuses staff move to

\* initiated, engaged, hired, dropped
Status == 0 .. 3
Hired == 2
Hint == Status \cup {None}

ASSUME OutreachAssumption ==
    /\ DOMAIN Customer = Key /\ DOMAIN Prospect \subseteq Nat
    /\ Moves \subseteq Status /\ None \notin Nat

VARIABLES
    outreach,     \* the candidate_outreach row of each key
    pushed,       \* history: the highest status that an answered push brought
    handled       \* history: keys whose status staff moved

outreachVars == <<outreach, pushed, handled>>

NoOutreach == [state |-> "free", status |-> 0, lead |-> None, outcome |-> None]

OutreachInit ==
    /\ outreach = [k \in Key |-> NoOutreach]
    /\ pushed = [k \in Key |-> 0] /\ handled = {}

-----------------------------------------------------------------------------
\* _resolve_prospect_id: the lead promoted to that account, or else the first
\* lead at the company.
Resolved(c) ==
    LET live == {p \in DOMAIN Prospect : Prospect[p].live}
        promoted == {p \in live : Prospect[p].uid = c.uid}
        near == {p \in live : c.company # None /\ Prospect[p].company = c.company}
    IN IF promoted # {} THEN Min(promoted) ELSE IF near # {} THEN Min(near) ELSE None

Loaded(op, k, value) == [op |-> op, key |-> k, row |-> outreach[k], value |-> value]
Row(r) == outreach[loc[r].key]
SaveRow(r, new) ==
    outreach' = [outreach EXCEPT ![loc[r].key] = WrittenRow(@, loc[r].row, new)]

\* POST /ingest: the lookup by dedup_key, which sees deleted rows too.
Push(r) ==
    \E k \in Key, hint \in Hint :
        /\ Launch(r, "ingest", Loaded("push", k, hint))
        /\ UNCHANGED outreachVars

\* A push that is answered brought its hint.
Answer(r) ==
    LET k == loc[r].key
        hint == loc[r].value
    IN /\ pushed' = [pushed EXCEPT ![k] = IF hint = None \/ hint < @ THEN @ ELSE hint]
       /\ Finish(r)

\* uk_candidate_outreach_dedup_key refuses the second of two first pushes.
Insert(r) ==
    LET k == loc[r].key
        hint == loc[r].value
    IN /\ pc[r] = "ingest" /\ loc[r].row.state = "free"
       /\ \/ Row(r).state # "free" /\ Broken(r) /\ UNCHANGED <<outreach, pushed>>
          \/ /\ Row(r).state = "free"
             /\ outreach' = [outreach EXCEPT ![k] =
                   [state |-> "live", status |-> IF hint = None THEN 0 ELSE hint,
                    lead |-> Resolved(Customer[k]), outcome |-> None]]
             /\ Answer(r)
       /\ UNCHANGED handled

\* Mutant: the new status is not committed before the early return.
AdvanceUnsaved(r) ==
    /\ pc[r] = "ingest" /\ loc[r].row.state # "free"
    /\ Answer(r)
    /\ UNCHANGED <<outreach, handled>>

\* A repeated push may only advance the status that it loaded.
Advance(r) ==
    LET hint == loc[r].value IN
    /\ pc[r] = "ingest" /\ loc[r].row.state # "free"
    /\ IF hint # None /\ hint > loc[r].row.status
       THEN SaveRow(r, [loc[r].row EXCEPT !.status = hint])
       ELSE UNCHANGED outreach
    /\ Answer(r)
    /\ UNCHANGED handled

-----------------------------------------------------------------------------
(***************************************************************************)
(* The board of the staff.                                                 *)
(***************************************************************************)
OnBoard == {k \in Key : outreach[k].state = "live"}

\* PATCH /{id}/status: a hired outreach only "moves" to hired (409).
MoveOutreach(r) ==
    \E k \in OnBoard, new \in Moves :
        /\ outreach[k].status = Hired => new = Hired
        /\ Launch(r, "move", Loaded("move", k, new))
        /\ UNCHANGED outreachVars

\* update_status does nothing to a row loaded as hired.
CommitMove(r) ==
    /\ pc[r] = "move"
    /\ \/ loc[r].row.status = Hired /\ UNCHANGED <<outreach, handled>>
       \/ /\ loc[r].row.status # Hired
          /\ SaveRow(r, [loc[r].row EXCEPT !.status = loc[r].value])
          /\ handled' = handled \cup {loc[r].key}
    /\ Finish(r)
    /\ UNCHANGED pushed

\* PATCH /candidates/{id}/outcome: deleted outreach or not.
SetOutcome(r) ==
    \E k \in Key, outcome \in {"replied", "rejected"} :
        /\ outreach[k].state # "free"
        /\ Launch(r, "outcome", Loaded("outcome", k, outcome))
        /\ UNCHANGED outreachVars

CommitOutcome(r) ==
    /\ pc[r] = "outcome"
    /\ SaveRow(r, [loc[r].row EXCEPT !.outcome = loc[r].value])
    /\ Finish(r)
    /\ UNCHANGED <<pushed, handled>>

\* DELETE /{id}: a soft delete.
DeleteOutreach(r) ==
    \E k \in OnBoard :
        /\ Launch(r, "remove", Loaded("remove", k, None))
        /\ UNCHANGED outreachVars

CommitRemoval(r) ==
    /\ pc[r] = "remove"
    /\ SaveRow(r, [loc[r].row EXCEPT !.state = "deleted"])
    /\ Finish(r)
    /\ UNCHANGED <<pushed, handled>>

-----------------------------------------------------------------------------
OutreachNext(r) ==
    \/ Push(r) \/ Insert(r) \/ Advance(r)
    \/ MoveOutreach(r) \/ CommitMove(r) \/ SetOutcome(r) \/ CommitOutcome(r)
    \/ DeleteOutreach(r) \/ CommitRemoval(r)
=============================================================================
