----------------------------- MODULE JobIntake -----------------------------
(***************************************************************************)
(* How jobs come in and are kept: jobs that customers publish on HH-BE and *)
(* that are pushed here, jobs and edits by the staff, and the candidates   *)
(* proposed for a job with their count.                                    *)
(*                                                                         *)
(* link stands for the fields that an event only fills while they are      *)
(* blank, title for the title, which is replaced while it is a default.    *)
(* Other columns, the rows of the job's history and audit rows are left    *)
(* out.  The distribution of a job is module JobDistribution.              *)
(***************************************************************************)
EXTENDS Companies

CONSTANTS
    Jid, Cid,     \* ids of jobs and candidates, handed out in increasing order
    Events,       \* what HH-BE may push: key |-> [ext, company, title, link, paid]
    Handmade,     \* the jobs staff may create: [ext, title, link, paid]
    Patches,      \* bound: the edits of staff, as functions from columns to values
    Jobs, Candidates,              \* the two tables at the start
    MaxFaults     \* bound: reads that fail while an event is processed

\* ext: the id of the job on HH-BE.  company: None if the event names none.
ASSUME IntakeAssumption ==
    /\ Jid \subseteq Nat /\ Cid \subseteq Nat /\ IsFiniteSet(Cid) /\ MaxFaults \in Nat
    /\ \A k \in DOMAIN Events : Events[k].title \in {"default", "theirs"}
    /\ \A change \in Patches : DOMAIN change \subseteq {"title", "link", "paid", "status"}

VARIABLES
    job,          \* prospect_company_jobs
    candidate,    \* prospect_company_job_candidates
    inbox,        \* webhook_deliveries.status of each event, "none" without a row
    faults        \* reads that failed so far

intakeVars == <<job, candidate, firm, inbox, faults>>

NoJob == [state |-> "free", ext |-> None, title |-> "default", link |-> None,
          paid |-> FALSE, status |-> "open", prepared |-> 0]
NoCandidate == [state |-> "free", job |-> None, status |-> "proposed",
                presented |-> FALSE, decided |-> FALSE]

\* The tables the behaviour starts from: the foreign key holds, and each count is
\* that of the candidates.
ASSUME TablesAssumption ==
    /\ DOMAIN Jobs = Jid /\ DOMAIN Candidates = Cid
    /\ \A j \in Jid : DOMAIN Jobs[j] = DOMAIN NoJob /\ Jobs[j].state \in {"free", "live"}
    /\ \A c \in Cid : /\ DOMAIN Candidates[c] = DOMAIN NoCandidate
                      /\ Candidates[c].state \in {"free", "live", "deleted"}
                      /\ Candidates[c].state = "live" => /\ Candidates[c].job \in Jid
                                                        /\ Jobs[Candidates[c].job].state = "live"
    /\ \A j \in Jid : Jobs[j].state = "live" =>
          Jobs[j].prepared =
              Cardinality({c \in Cid : Candidates[c].state = "live" /\ Candidates[c].job = j})

IntakeInit ==
    /\ job = Jobs /\ candidate = Candidates /\ firm = Firms
    /\ inbox = [k \in DOMAIN Events |-> "none"] /\ faults = 0

Here == {j \in Jid : job[j].state = "live"}

\* uk_pcj_source_external
ExtTaken(e) == e # None /\ \E j \in Here : job[j].ext = e
Published(e) == {j \in Here : job[j].ext = e}

NewJob(card) ==
    [NoJob EXCEPT !.state = "live", !.ext = card.ext, !.title = card.title,
                  !.link = card.link, !.paid = card.paid]
AddJob(card) ==
    LET free == {j \in Jid : job[j].state = "free"} IN
    free # {} /\ job' = [job EXCEPT ![Min(free)] = NewJob(card)]
SaveJob(r, new) == job' = [job EXCEPT ![loc[r].job] = WrittenRow(@, loc[r].row, new)]

-----------------------------------------------------------------------------
(***************************************************************************)
(* POST /api/jobs/inbound                                                  *)
(***************************************************************************)
\* A delivery that is received or processed is a duplicate.
PushJob(r) ==
    \E k \in DOMAIN Events :
        /\ inbox[k] \in {"none", "failed"}
        /\ Launch(r, "record", [op |-> "publish", key |-> k, seen |-> inbox[k], job |-> None])
        /\ UNCHANGED intakeVars

\* The job of the event in the snapshot that the last commit's refresh opened.
Looked(r) ==
    LET e == Events[loc[r].key]
        session(j) == [op |-> "publish", key |-> loc[r].key, job |-> j,
                       row |-> IF j = None THEN NoJob ELSE job[j]]
    IN IF Published(e.ext) = {} THEN Goto(r, "add_job", session(None))
       ELSE \E j \in Published(e.ext) : Goto(r, "patch_job", session(j))

\* Mutant: every event goes on to create its company.
RecordEventUnlooked(r) ==
    LET k == loc[r].key
        e == Events[k]
    IN /\ pc[r] = "record"
       /\ \/ /\ loc[r].seen = "none" /\ inbox[k] # "none"
             /\ Broken(r) /\ UNCHANGED inbox
          \/ /\ loc[r].seen = "failed" \/ inbox[k] = "none"
             /\ inbox' = [inbox EXCEPT ![k] = "received"]
             /\ Goto(r, IF e.company = None THEN "refuse" ELSE "add_firm", loc[r])
       /\ UNCHANGED <<job, candidate, firm, faults>>

\* record, the company's lookup and, if it is known, the job's.
RecordEvent(r) ==
    LET k == loc[r].key
        e == Events[k]
    IN /\ pc[r] = "record"
       /\ \/ /\ loc[r].seen = "none" /\ inbox[k] # "none"
             /\ Broken(r) /\ UNCHANGED inbox
          \/ /\ loc[r].seen = "failed" \/ inbox[k] = "none"
             /\ inbox' = [inbox EXCEPT ![k] = "received"]
             /\ \/ e.company = None /\ Goto(r, "refuse", loc[r])
                \/ e.company \in Known /\ Looked(r)
                \/ e.company \notin Known \cup {None} /\ Goto(r, "add_firm", loc[r])
       /\ UNCHANGED <<job, candidate, firm, faults>>

\* get_or_create_by_domain: behind a refused insert the domain is looked up again
\* in the same snapshot, which shows neither the winner of a race nor a deleted
\* company, so the refusal is raised.
AddFirm(r) ==
    LET d == Events[loc[r].key].company IN
    /\ pc[r] = "add_firm"
    /\ \/ Holders(d) # {} /\ Goto(r, "failed", loc[r]) /\ UNCHANGED firm
       \/ Holders(d) = {} /\ InsertFirm(d) /\ Looked(r)
    /\ UNCHANGED <<job, candidate, inbox, faults>>

\* A refused insert leaves the session unusable: mark_failed raises as well and the
\* delivery stays received.
InsertJob(r) ==
    LET e == Events[loc[r].key] IN
    /\ pc[r] = "add_job"
    /\ \/ ExtTaken(e.ext) /\ Broken(r) /\ UNCHANGED job
       \/ ~ExtTaken(e.ext) /\ AddJob(e) /\ Goto(r, "processed", loc[r])
    /\ UNCHANGED <<candidate, firm, inbox, faults>>

\* Mutant: the event's title and link replace whatever the job has.
PatchJobOver(r) ==
    LET e == Events[loc[r].key] IN
    /\ pc[r] = "patch_job"
    /\ SaveJob(r, [loc[r].row EXCEPT !.title = e.title, !.link = e.link, !.paid = e.paid])
    /\ Goto(r, "processed", loc[r])
    /\ UNCHANGED <<candidate, firm, inbox, faults>>

\* Blank fields are filled and paid_status follows; what was curated stays.
PatchJob(r) ==
    LET e == Events[loc[r].key]
        old == loc[r].row
    IN /\ pc[r] = "patch_job"
       /\ SaveJob(r, [old EXCEPT !.title = IF @ = "default" THEN e.title ELSE @,
                                 !.link = IF @ = None THEN e.link ELSE @,
                                 !.paid = e.paid])
       /\ Goto(r, "processed", loc[r])
       /\ UNCHANGED <<candidate, firm, inbox, faults>>

Mark(r, status) ==
    /\ inbox' = [inbox EXCEPT ![loc[r].key] = status] /\ Finish(r)
    /\ UNCHANGED <<job, candidate, firm, faults>>

MarkEvent(r) == pc[r] = "processed" /\ Mark(r, "processed")
\* "company identity required", or an exception.
FailEvent(r) == pc[r] \in {"refuse", "failed"} /\ Mark(r, "failed")

\* A read between two commits fails: the except marks the delivery failed.
EventFault(r) ==
    /\ pc[r] \in {"add_firm", "add_job", "patch_job", "processed"}
    /\ faults < MaxFaults /\ faults' = faults + 1
    /\ Goto(r, "failed", loc[r])
    /\ UNCHANGED <<job, candidate, firm, inbox>>

-----------------------------------------------------------------------------
(***************************************************************************)
(* POST and PATCH /api/jobs                                                *)
(***************************************************************************)
CreateJob(r) ==
    \E card \in Handmade :
        /\ Launch(r, "create_job", [op |-> "make", card |-> card])
        /\ UNCHANGED intakeVars

CommitJob(r) ==
    /\ pc[r] = "create_job"
    /\ \/ ExtTaken(loc[r].card.ext) /\ Broken(r) /\ UNCHANGED job
       \/ ~ExtTaken(loc[r].card.ext) /\ AddJob(loc[r].card) /\ Finish(r)
    /\ UNCHANGED <<candidate, firm, inbox, faults>>

EditJob(r) ==
    \E j \in Here, change \in Patches :
        /\ Launch(r, "edit_job", [op |-> "edit", job |-> j, row |-> job[j], change |-> change])
        /\ UNCHANGED intakeVars

\* update_with_history
CommitChanges(r) ==
    /\ pc[r] = "edit_job"
    /\ SaveJob(r, With(loc[r].row, loc[r].change))
    /\ Finish(r)
    /\ UNCHANGED <<candidate, firm, inbox, faults>>

-----------------------------------------------------------------------------
(***************************************************************************)
(* Candidates of a job and candidates_prepared, which is bumped in a       *)
(* transaction of its own, behind the candidate's.                         *)
(***************************************************************************)
Propose(r) ==
    \E j \in Here :
        /\ Launch(r, "add_candidate", [op |-> "add", job |-> j, step |-> 1])
        /\ UNCHANGED intakeVars

\* The bump's read comes from the snapshot of the refresh.
CommitCandidate(r) ==
    LET j == loc[r].job
        free == {c \in Cid : candidate[c].state = "free"}
    IN
    /\ pc[r] = "add_candidate" /\ free # {}
    /\ candidate' = [candidate EXCEPT ![Min(free)] =
                        [NoCandidate EXCEPT !.state = "live", !.job = j]]
    /\ Goto(r, "bump", [op |-> "add", job |-> j, row |-> job[j], step |-> 1])
    /\ UNCHANGED <<job, firm, inbox, faults>>

\* _bump_candidates_count: max(0, count + step)
Bump(r) ==
    LET old == loc[r].row
        count == old.prepared + loc[r].step
    IN /\ pc[r] = "bump"
       /\ SaveJob(r, [old EXCEPT !.prepared = IF count < 0 THEN 0 ELSE count])
       /\ Finish(r)
       /\ UNCHANGED <<candidate, firm, inbox, faults>>

Proposed == {c \in Cid : candidate[c].state = "live"}

Withdraw(r) ==
    \E c \in Proposed :
        /\ Launch(r, "drop_candidate",
                  [op |-> "drop", candidate |-> c, row |-> candidate[c], job |-> candidate[c].job])
        /\ UNCHANGED intakeVars

SaveCandidate(r, new) ==
    candidate' = [candidate EXCEPT ![loc[r].candidate] = WrittenRow(@, loc[r].row, new)]

\* Mutant: the count is not bumped when a candidate goes.
CommitWithdrawalOnly(r) ==
    /\ pc[r] = "drop_candidate"
    /\ SaveCandidate(r, [loc[r].row EXCEPT !.state = "deleted"])
    /\ Finish(r)
    /\ UNCHANGED <<job, firm, inbox, faults>>

CommitWithdrawal(r) ==
    /\ pc[r] = "drop_candidate"
    /\ SaveCandidate(r, [loc[r].row EXCEPT !.state = "deleted"])
    /\ Goto(r, "count", loc[r])
    /\ UNCHANGED <<job, firm, inbox, faults>>

\* The bump behind a deletion reads the job anew.
ReadCount(r) ==
    /\ pc[r] = "count"
    /\ Goto(r, "bump", [op |-> "drop", job |-> loc[r].job, row |-> job[loc[r].job], step |-> -1])
    /\ UNCHANGED intakeVars

\* PATCH /candidates/{id}/status
MoveCandidate(r) ==
    \E c \in Proposed, status \in {"presented", "hired"} :
        /\ Launch(r, "move_candidate",
                  [op |-> "judge", candidate |-> c, row |-> candidate[c], status |-> status])
        /\ UNCHANGED intakeVars

CommitStatus(r) ==
    LET status == loc[r].status IN
    /\ pc[r] = "move_candidate"
    /\ SaveCandidate(r, [loc[r].row EXCEPT !.status = status,
                                           !.presented = @ \/ status = "presented",
                                           !.decided = @ \/ status = "hired"])
    /\ Finish(r)
    /\ UNCHANGED <<job, firm, inbox, faults>>

-----------------------------------------------------------------------------
IntakeNext(r) ==
    \/ PushJob(r) \/ RecordEvent(r) \/ AddFirm(r) \/ InsertJob(r) \/ PatchJob(r)
    \/ MarkEvent(r) \/ FailEvent(r) \/ EventFault(r)
    \/ CreateJob(r) \/ CommitJob(r) \/ EditJob(r) \/ CommitChanges(r)
    \/ Propose(r) \/ CommitCandidate(r) \/ Bump(r) \/ Withdraw(r)
    \/ CommitWithdrawal(r) \/ ReadCount(r) \/ MoveCandidate(r) \/ CommitStatus(r)
    \/ CompaniesNext(r) /\ UNCHANGED <<job, candidate, inbox, faults>>
=============================================================================
