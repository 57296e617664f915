----------------------------- MODULE LeadRoutes ------------------------------
(***************************************************************************)
(* The routes under /api/prospects that change leads: create, edit,        *)
(* delete, stage, merge decisions, promotion to HH-BE and the CSV import.  *)
(***************************************************************************)
EXTENDS Leads

CONSTANTS
    FormCards,    \* contacts entered in the form
    Edits,        \* emails and LinkedIn URLs set by a PATCH, as [email, linkedin]
    HandStages,   \* stages chosen by people
    Files         \* CSV files: sequences of rows [card, long]

ASSUME RoutesAssumption ==
    /\ FormCards \subseteq Cards /\ HandStages \subseteq Stages
    /\ Edits \subseteq [email : Email \cup {None}, linkedin : Linkedin \cup {None}]
    /\ \A f \in Files : f \in Seq([card : Cards, long : BOOLEAN])

VARIABLES
    review,       \* status of the one prospect_merge_review_queue row
    mergeLog,     \* prospect_merge_log, as <<kept, merged>> in order
    accounts      \* HH-BE accounts that promotions made for each lead, see NoAccount

routes == <<review, mergeLog, accounts>>

\* Made by HH-BE, and those of them whose id did not reach the promotion.
NoAccount == [made |-> 0, unheard |-> 0]

RoutesInit ==
    /\ review = "pending" /\ mergeLog = <<>>
    /\ accounts = [p \in Pid |-> NoAccount]

-----------------------------------------------------------------------------
\* POST /api/prospects.  A caller owns what they enter.  A duplicate is a 409.
CreateLead(r) ==
    \E c \in FormCards, o \in Caller \cup {None} :
        /\ Existing(lead, c) = {}
        /\ Begin(r, "insert", Session("create", None, [card |-> c, owner |-> o]))
        /\ UNCHANGED routes

\* The insert fails when another request took a unique value since the check.
CommitLead(r) ==
    /\ pc[r] = "insert"
    /\ LET c == loc[r].arg.card IN
       \/ Taken(None, c) /\ Broken(r) /\ UNCHANGED lead
       \/ /\ ~Taken(None, c)
          /\ AddLead(NewRow(c, loc[r].arg.owner))
          /\ Finish(r)
    /\ UNCHANGED <<routes, moved>>

\* PATCH /api/prospects/{id} with identifiers: refused when another lead has them.
PatchLead(r) ==
    \E p \in LiveIn(lead), e \in Edits :
        LET changed == [e EXCEPT
                !.email = IF @ = lead[p].email THEN None ELSE @,
                !.linkedin = IF @ = lead[p].linkedin THEN None ELSE @]
        IN /\ Existing(lead, changed) \ {p} = {}
           /\ Begin(r, "edit", Session("patch", p, e))
           /\ UNCHANGED routes

\* An identifier the form leaves out is not in the payload.
CommitEdit(r) ==
    /\ pc[r] = "edit"
    /\ LET old == loc[r].row
           e == loc[r].arg
           new == [old EXCEPT !.email = IF e.email = None THEN @ ELSE e.email,
                              !.linkedin = IF e.linkedin = None THEN @ ELSE e.linkedin]
       IN \/ Taken(loc[r].lead, [NoCard EXCEPT !.linkedin = new.linkedin])
             /\ Broken(r) /\ UNCHANGED lead
          \/ ~Taken(loc[r].lead, [NoCard EXCEPT !.linkedin = new.linkedin])
             /\ WriteBack(r, new) /\ Finish(r)
    /\ UNCHANGED <<routes, moved>>

\* DELETE /api/prospects/{id}.
DeleteLead(r) ==
    \E p \in LiveIn(lead) :
        /\ Begin(r, "remove", Session("delete", p, None))
        /\ UNCHANGED routes

CommitDelete(r) ==
    /\ pc[r] = "remove"
    /\ WriteBack(r, [loc[r].row EXCEPT !.state = "deleted"])
    /\ removed' = removed \cup {loc[r].lead}
    /\ Finish(r)
    /\ UNCHANGED <<routes, out>>

\* POST /api/prospects/{id}/stage.
MoveLead(r) ==
    \E p \in LiveIn(lead), s \in HandStages :
        /\ Begin(r, "move", Session("stage", p, s))
        /\ UNCHANGED routes

CommitMove(r) ==
    /\ pc[r] = "move"
    /\ WriteBack(r, [loc[r].row EXCEPT !.stage = loc[r].arg])
    /\ out' = out \ {loc[r].lead}
    /\ Finish(r)
    /\ UNCHANGED <<routes, removed>>

-----------------------------------------------------------------------------
(***************************************************************************)
(* POST /api/prospects/merge-review/{id}/decide.  Neither the status of    *)
(* the queue row nor kept # merged is looked at.                           *)
(***************************************************************************)
\* Mutant: the kept prospect may be a deleted one.
DecideAny(r) ==
    \E kept \in {p \in Pid : lead[p].state # "free"}, loser \in LiveIn(lead) :
        /\ Begin(r, "log", Session("decide", loser, [kept |-> kept, seen |-> review]))
        /\ UNCHANGED routes

Decide(r) ==
    \E kept, loser \in LiveIn(lead) :
        /\ Begin(r, "log", Session("decide", loser, [kept |-> kept, seen |-> review]))
        /\ UNCHANGED routes

LogMerge(r) ==
    /\ pc[r] = "log"
    /\ mergeLog' = Append(mergeLog, <<loc[r].arg.kept, loc[r].lead>>)
    /\ Goto(r, "drop", loc[r])
    /\ UNCHANGED <<lead, review, accounts, moved>>

DropLoser(r) ==
    /\ pc[r] = "drop"
    /\ WriteBack(r, [loc[r].row EXCEPT !.state = "deleted"])
    /\ Goto(r, "mark", loc[r])
    /\ UNCHANGED <<routes, moved>>

MarkMerged(r) ==
    /\ pc[r] = "mark"
    /\ review' = Written(review, loc[r].arg.seen, "merged")
    /\ Finish(r)
    /\ UNCHANGED <<lead, mergeLog, accounts, moved>>

RejectMerge(r) ==
    /\ Begin(r, "reject", Session("reject", None, [seen |-> review]))
    /\ UNCHANGED routes

MarkRejected(r) ==
    /\ pc[r] = "reject"
    /\ review' = Written(review, loc[r].arg.seen, "rejected")
    /\ Finish(r)
    /\ UNCHANGED <<lead, mergeLog, accounts, moved>>

-----------------------------------------------------------------------------
(***************************************************************************)
(* POST /api/prospects/{id}/promote-to-thh.                                *)
(***************************************************************************)
\* Mutant: a promoted lead may be promoted again.
PromoteAgain(r) ==
    \E p \in LiveIn(lead) :
        /\ lead[p].email # None
        /\ Begin(r, "call", Session("promote", p, None))
        /\ UNCHANGED routes

Promote(r) ==
    \E p \in LiveIn(lead) :
        /\ lead[p].uid = None             \* else 409
        /\ lead[p].email # None           \* else 400
        /\ Begin(r, "call", Session("promote", p, None))
        /\ UNCHANGED routes

\* HH-BE makes the account and answers with its id; or makes it and the answer is lost
\* or names no usable id; or does not make it.  The last two are a 502.
CallHhBe(r) ==
    LET p == loc[r].lead
        n == accounts[p].made + 1
        u == accounts[p].unheard
    IN
    /\ pc[r] = "call"
    /\ \/ /\ accounts' = [accounts EXCEPT ![p] = [made |-> n, unheard |-> u]]
          /\ Goto(r, "link", [loc[r] EXCEPT !.arg = n])
       \/ /\ accounts' = [accounts EXCEPT ![p] = [made |-> n, unheard |-> u + 1]]
          /\ Finish(r)
       \/ Finish(r) /\ UNCHANGED accounts
    /\ UNCHANGED <<lead, review, mergeLog, moved>>

\* set_thh_user_id; the refreshed row tells whether the stage has to follow.
LinkAccount(r) ==
    /\ pc[r] = "link"
    /\ WriteBack(r, [loc[r].row EXCEPT !.uid = loc[r].arg])
    /\ LET p == loc[r].lead IN
       IF lead[p].stage = "converted" THEN Finish(r)
       ELSE Goto(r, "convert", [loc[r] EXCEPT !.row = lead'[p]])
    /\ UNCHANGED <<routes, moved>>

Convert(r) ==
    /\ pc[r] = "convert"
    /\ WriteBack(r, [loc[r].row EXCEPT !.stage = "converted"])
    /\ out' = out \ {loc[r].lead}
    /\ Finish(r)
    /\ UNCHANGED <<routes, removed>>

-----------------------------------------------------------------------------
(***************************************************************************)
(* POST /api/prospects/import-csv.  A session holds the rows still to do,  *)
(* the importer if it is a caller, the place in the pool and the cache of  *)
(* company owners.                                                         *)
(***************************************************************************)
\* _company_sticky_owner: who owns most live leads of the company.  The query
\* breaks ties by updated_at, here any of the tied owners.
Sticky(t, k) ==
    LET Owned(o) == {p \in LiveIn(t) : t[p].company = k /\ t[p].owner = o}
        most == {o \in Caller : /\ Owned(o) # {}
                               /\ \A q \in Caller : Cardinality(Owned(q))
                                                       <= Cardinality(Owned(o))}
    IN IF most = {} THEN {None} ELSE most

\* The rows from the first one on that no existing lead matches.
Remaining(t, rows) ==
    LET fresh == {i \in DOMAIN rows : Existing(t, rows[i].card) = {}}
    IN IF fresh = {} THEN <<>> ELSE SubSeq(rows, Min(fresh), Len(rows))

\* The session turned to its next row in the snapshot t: duplicates are skipped,
\* and the owner of a company is looked up once.
Turned(t, job) ==
    LET rows == Remaining(t, job.rows)
        k == IF rows = <<>> THEN None ELSE Head(rows).card.company
    IN IF k = None \/ job.by # None \/ job.cache[k] # "unread"
       THEN {[job EXCEPT !.rows = rows]}
       ELSE {[job EXCEPT !.rows = rows, !.cache = [@ EXCEPT ![k] = o]] :
                 o \in Sticky(t, k)}

\* The owner of the row at hand: the importer, the company's, or the next caller.
InTurn(job) == IF Pool = <<>> THEN None ELSE Pool[(job.turn % Len(Pool)) + 1]
OwnerOf(job) ==
    LET k == Head(job.rows).card.company IN
    IF job.by # None THEN job.by
    ELSE IF k # None /\ job.cache[k] # None THEN job.cache[k] ELSE InTurn(job)

\* The job behind the row: the place in the pool and the owner of a new company.
AfterRow(job) ==
    LET k == Head(job.rows).card.company
        turned == job.by = None /\ (k = None \/ job.cache[k] = None)
    IN [job EXCEPT !.rows = Tail(@), !.turn = IF turned THEN @ + 1 ELSE @,
            !.cache = IF k # None /\ @[k] \in {None, "unread"}
                      THEN [@ EXCEPT ![k] = OwnerOf(job)] ELSE @]

ImportFile(r) ==
    \E f \in Files, by \in {None} \cup Caller :
        \E job \in Turned(lead, [rows |-> f, by |-> by, turn |-> 0,
                                 cache |-> [k \in Company |-> "unread"]]) :
            /\ Begin(r, "row", Session("import", None, job))
            /\ UNCHANGED routes

\* One row is inserted and the next one is looked up in the snapshot behind the
\* commit.  A row that the database refuses is rolled back, which expires every
\* object of the session, the user's included: each later row fails on reading
\* user.role or user.id, and so does the audit row at the end.
ImportRow(r) ==
    /\ pc[r] = "row" /\ loc[r].arg.rows # <<>>
    /\ LET job == loc[r].arg
           row == Head(job.rows)
       IN \/ /\ row.long \/ Taken(None, row.card)
             /\ Broken(r)
             /\ UNCHANGED lead
          \/ /\ ~row.long /\ ~Taken(None, row.card)
             /\ AddLead(NewRow(row.card, OwnerOf(job)))
             /\ \E next \in Turned(lead', AfterRow(job)) :
                    Goto(r, "row", [loc[r] EXCEPT !.arg = next])
    /\ UNCHANGED <<review, mergeLog, accounts, moved>>

ImportDone(r) ==
    /\ pc[r] = "row" /\ loc[r].arg.rows = <<>>
    /\ Finish(r)
    /\ UNCHANGED <<lead, routes, moved>>

-----------------------------------------------------------------------------
RoutesNext(r) ==
    \/ CreateLead(r) \/ CommitLead(r)
    \/ PatchLead(r) \/ CommitEdit(r)
    \/ DeleteLead(r) \/ CommitDelete(r)
    \/ MoveLead(r) \/ CommitMove(r)
    \/ Decide(r) \/ LogMerge(r) \/ DropLoser(r) \/ MarkMerged(r)
    \/ RejectMerge(r) \/ MarkRejected(r)
    \/ Promote(r) \/ CallHhBe(r) \/ LinkAccount(r) \/ Convert(r)
    \/ ImportFile(r) \/ ImportRow(r) \/ ImportDone(r)
=============================================================================
