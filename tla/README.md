# Verification of the THH lead engine backend

The lead engine is the CRM behind TheHireHub: it collects leads from landing
pages, Apollo and the product itself (HH-BE, the "thh-backend"), lets callers
and CSMs work on them, and follows each prospect through a funnel. It is a
FastAPI application with async SQLAlchemy on MySQL (InnoDB), plus four periodic
ARQ workers. There are no tests in the repository, so what follows is
checked against the code, and against what `docs/` and the docstrings say of it.

This directory holds TLA+ modules that model its core logic, TLC configurations
that check them on small instances, and TLAPS proofs for every instance.

## 1. The system

### How it executes

Everything hard about this program comes from four facts about how it runs.

* **One session per request** (`database_connection/connection.py:69`). A handler
  is an async function with one `AsyncSession`; at each `await` the event loop,
  and the other workers (gunicorn starts four), run other handlers. What a module keeps in a
  variable, such as the table of the last OTP mails, each worker has for itself.
* **CRUD methods commit.** A handler that calls three of them is a chain of
  three transactions; other requests run between any two, and a crash between
  two leaves the first committed. There is no compensation.
* **Snapshots.** The engine keeps MySQL's default, REPEATABLE READ: a transaction
  reads from the snapshot of its first SELECT. `expire_on_commit=False`,
  so an object keeps the values of its last refresh across commits, and an update
  writes a value computed from them. The unit of work only writes columns whose
  value changed in the session.
* **No locks.** The code never uses SELECT ... FOR UPDATE, version columns or atomic
  increments. UNIQUE keys are the only thing that stops two requests.

### Components

| Component | State | Operations | Interacts with | What makes it correct |
|---|---|---|---|---|
| Lead intake (`signups/routes.py` inbound, delete lead) | prospects, prospect_channels, companies, signups | one event = one handler of up to nine transactions | HH-BE pushes and retries; the delivery ledger; prospects, companies | every event ingested once; a person is one prospect; milestones agree with events |
| Delivery ledger (`webhooks/crud.py`) | webhook_deliveries.status | record, replay reset, mark_processed, mark_failed | intake, job events, provider webhooks | admitted at most once until it failed; never reported processed without effect |
| Provider webhooks (`webhooks/routes.py`) | prospects, campaign_events | Calendly and Apollo handlers | ledger, prospects | a delivery is applied once; an opted-out lead stays so |
| Job distribution (`prospect_company_jobs`) | jobs, board postings | distribute, mark-*, applicants (two routes), sync | HH-BE applicant counts | one-way ratchet `target_met_at`; total = sum of postings; no double posting |
| Job intake and candidates (`prospect_company_jobs`) | jobs, candidates, the counter candidates_prepared | inbound job event, create, PATCH, candidates | HH-BE pushes; the ledger; companies | what people entered survives events; the counter counts |
| Prospects (`prospects`) | prospects, channels, stage history, merge queue and log | create, update, touch, stage, milestones, merge, promote, CSV import | nearly everything | stage and history agree; of merged prospects one survives; one account per promotion whose answer arrived; one lead per email |
| Companies | companies | get_or_create by domain, create, edit, enrich, delete | intake, job events, Apollo | one row per domain; an event fails for good only behind a deleted company |
| Call queue (`call_logs`) | call_logs, prospects.rnr_count, last_touched_at | record, next, queue, skip, panels | prospects | an open commitment stays on top until it is resolved; three RNRs are noticed |
| Candidate outreach | candidate_outreach and children | ingest, status, outcome, delete | HH-BE | one row per dedup_key; pushes only advance the status; a hired that staff set stays |
| Signup form and OTP (`signups/routes.py` public part) | signups, a resend table in each worker's memory | create, resend, verify | thh-backend, variants | a verified signup has a lead; one OTP mail per minute and worker |
| Workers (`workers/tasks`) | prospects' heat and activation, funnel snapshots | apollo_sync 6-hourly, heat_recalc hourly, funnel_snapshot and activation_sync daily | Apollo, thh-backend | running again changes nothing; request handlers' writes survive |
| Campaigns, email replies | campaigns, members, campaign_events, email_replies, heat | batches of members, events, classify, reclassify | heat | the answer of a batch is true; heat follows the events |
| Unsubscribes | unsubscribes, prospects.stage | one-click, admin | prospects | an unsubscribed lead is in stage unsubscribed |
| Landing pages, funnel snapshots | counters, daily rows | visits; upsert, rollup | signups; workers | counters count; one row per dimension and day |
| Audit, admin users, notes, helpers, integrations, set-up | single rows | CRUD, auth, HTTP clients, enums, migrations | everything | no cross-row state |

`PROJECT.json` lists every component with its files and status, and under
`hazards` what is hard to test in each at the line where it bites.

## 2. The modules

| Module | Models | Lines of code behind it |
|---|---|---|
| `InboundIngest` | the lead intake, one action per transaction, with the parts of the ledger, prospects, companies and sessions it uses | `signups/routes.py:415-612`, `webhooks/crud.py:24-102`, ... |
| `DeliveryLedger` | abstract specification: what the ledger promises the sender | `webhooks/models.py`, `crud.py` |
| `JobDistribution` | a job, its postings, the CSMs editing it, the HH-BE sync | `prospect_company_jobs/routes.py:276-390, 811-1032`, `crud.py:181-364` |
| `CallQueue` | calls, skips, stage changes, the queue and the panels, reassignment with the mid-call lock | `call_logs/crud.py:45-533`, `prospects/crud.py:143-183`, `prospects/routes.py:536-645` |
| `Sessions` | requests as processes with sessions, which the modules below extend | `database_connection/connection.py` |
| `Leads` | the prospects table, its lookups and unique keys | `prospects/models.py`, `dedupe.py`, `crud.py` |
| `LeadRoutes` | create, edit, delete, stage, merge decisions, promotion, CSV import | `prospects/routes.py:236-300, 483-790, 903-1124` |
| `SignupOtp` | landing-page visits, signup form, OTP, deletion of a signup's lead, opt-out | `signups/routes.py:215-412`, `landing_pages`, `unsubscribes` |
| `ProviderWebhooks` | Calendly and Apollo deliveries | `webhooks/routes.py:72-407` |
| `LeadDesk` | composes the three modules above on one prospects table, with the properties | |
| `Outreach` | HH-BE's outreach pushes and the staff's board | `candidate_outreach/crud.py`, `routes.py` |
| `Companies` | the staff's routes, and the companies Apollo's sync leaves | `companies/crud.py`, `routes.py`, `apollo_sync.py:72-113, 176-196` |
| `JobIntake` | on `Companies`: job events, job create and edit, candidates and their count | `prospect_company_jobs/routes.py:534-808, 1043-1130` |
| `HeatBoard` | campaign events, replies and the hourly heat_recalc | `campaigns/crud.py`, `email_replies`, `heat_recalc.py` |
| `FunnelSnapshot` | the daily snapshot, on the leads of `HeatBoard` | `funnel_snapshots/crud.py`, `funnel_snapshot.py` |
| `Campaigns` | campaigns and the batches of their members | `campaigns/crud.py`, `routes.py` |
| `ActivationSync` | the daily poll of HH-BE beside job events | `activation_sync.py`, `prospects/crud.py:204-218` |
| `BackOffice` | composes the modules from `Outreach` on, with the properties | |
| `MCInboundIngest`, `MCJobDistribution`, `MCCallQueue`, `MCLeadDesk`, `MCBackOffice` | the inputs, tables and symmetries of the TLC instances | |
| `SessionsProofs` | lemmas about requests and sessions, for the modules that extend `Sessions` | |
| `InboundIngestProofs`, `JobDistributionProofs`, `CallQueueProofs`, `LeadDeskProofs`, `BackOfficeProofs`, `JobIntakeProofs`, `WorkerProofs` | theorems: of `BackOffice`, those about job intake stand in `JobIntakeProofs`, heat, snapshots and activation in `WorkerProofs` | |

### InboundIngest

A request `r` is a process: `pc[r]` is the next transaction of the handler,
`key[r]` the dedup_key it carries, `loc[r]` its session: the prospect id,
the loaded prospect row, the channel row's count, whether its snapshot sees the
company, and the loaded delivery status. The tables are `delivery`, `prospect`,
`touches`, `companies` and `signups`.

    lookup -> insert | reset -> resolve -> create | enrich -> load
           -> company -> resnap -> attach -> loadT -> touch -> loadM
           -> register | job -> loadU -> setuid -> signup -> mark

A label that the event does not need is skipped (`AfterResolve`, `AfterTouch`,
`UidStep` hold the handler's conditions). `Refresh` is `db.refresh`: it starts a
transaction, hence a snapshot. Faults: `SoftFault` is an exception that the
session survives, so the handler's `except` marks the delivery failed;
`HardFault` is a failed flush or lost connection, after which `mark_failed` on the same session
raises too; `Crash` is the death of a worker. `DeleteLead` and `DeleteCompany` are the
admin's DELETEs, each in one transaction; the deleted company keeps its domain, which `CompanyUpsert` then neither finds
nor may insert. An event's payload is a record of what the
handler's conditions look at: email, uid, kind (L3 verified, L4 published,
other touches), whether it names the person, domain, number of jobs.

### DeliveryLedger

Three variables per event: the delivery's status, how often it was ingested,
and whether an admission is still open. `Admit` needs a new or failed event, `Ingest` uses
an admission up, `Settle` needs an ingest to report `processed`. `InboundIngest`
implements it under the mapping `Ledger` (status is `delivery`, ingests is `ingested`, open
is the set of events with a request before its signups insert), when the
sender is patient: `ingest_replay` checks it, `LedgerImplemented` proves it.

### JobDistribution

One job. `job` has the target, whether `target_met_at` is set, and the total;
`posting` its board rows. A request loads job and postings in one snapshot
(`Begin`) and then commits: `DistributeCommit` (new rows get the ids after the greatest), `MarkCommit`, `CountCommit`
followed by `LoadRow`/`LoadBoard` and `Total`, or `SyncCommit`. `Written` is the
unit of work: a column whose value did not change in the session keeps what is in the table. The two
routes that edit applicants differ, and the model keeps the difference: the
edit by row loads the other postings after its count commit; the edit by board
holds what it loaded before, and only adds new rows. `Abort` is a request that dies
between two transactions. Two history variables serve the properties: `seen`
(has there been an overlap, an edit by board beside another request, a new
target, a sync, an abort) and `reached` (have the postings ever added up to the
target).

### CallQueue

`lead` has the columns of a prospect that callers write, `log` the `call_logs`
rows, `changes` the stage history, `marks` the audit rows of the RNR marker. A
request loads its lead in `Begin` (the snapshot that its authentication opened) and
commits from that copy:

    Record -> FlushLog -> CommitLog | Victim        POST /call-logs
    Skip -> CommitSkip                              POST /call-logs/skip
    ChangeStage -> CommitStage                      POST /prospects/{id}/stage
    Reassign -> CheckLock -> CommitOwner            PATCH /prospects/{id}

`FlushLog` inserts the row: it gets its id and, in whole seconds, its
`called_at`, and leaves InnoDB's shared lock on the lead, so that nobody else
commits to the lead before it (`Unlocked`). Two requests that both flushed block each
other and one is rolled back (`Victim`). `Counted`, `Converts` and `Written` compute
from the loaded row, `Touched` is the touch, whose time was read a moment before the commit.

The queries are operators: `Open` and `Due` are the correlated subquery of the
queue, `Before` its ORDER BY, `Heads` what Next may return (ties are the database's
choice); `Superseded`, `Panel` and `OpenCount` are the panels and KPI cards, which
break ties of `called_at` by id. The set of resolving outcomes is written out once for each,
as in the code, so that the properties can compare them. Three history variables serve the
properties: `overlapped` (leads that two requests were under way on together), and `turns`
with `odd`, which count how often Next was acted upon while one caller, alone, did nothing else.

### Sessions, Leads

`Sessions` is what `InboundIngest`, `JobDistribution` and `CallQueue` each wrote out for themselves, in
the form the later modules share. A request is a process: `pc` is the next transaction
of its handler, `loc` its session, with the row as it was loaded. `With` sets columns of a loaded row. `Launch` is the handler
up to its first commit: what it reads there comes from one snapshot, and an early
return (404, 409, 429) is a guard. `Goto` is a commit together with what
`db.refresh` and the following SELECTs read, since the refresh opens the next snapshot; where the
next read stands in a later transaction there is a step of its own (`GetVariant`,
`ReadCount`). `WrittenRow` is the unit of work: only columns whose value differs from the loaded
one are written, computed from the loaded row. `Abort` is a request that dies between two
commits. `Broken` is a 500, with the session rolled back.

Two history variables scope properties: `met`, the pairs of kinds of requests that were under way
together, and `died`, the kinds that died. `Met("promote", "promote")` in a property says: unless two
promotions overlapped. A property that names no pair holds under all overlaps, and one that names a
pair says which overlap the code does not survive; each of these exceptions was found by TLC and is needed.

`Leads` is the prospects table. `Existing` is `find_existing` of `dedupe.py` (the LinkedIn URL
decides, and finds deleted rows too; then the email, among the live), `Taken` the two unique keys.

### LeadRoutes, SignupOtp, ProviderWebhooks, LeadDesk

    CreateLead -> CommitLead        PatchLead -> CommitEdit        DeleteLead -> CommitDelete
    MoveLead -> CommitMove          Decide -> LogMerge -> DropLoser -> MarkMerged
    Promote -> CallHhBe -> LinkAccount -> Convert
    ImportFile -> ImportRow* -> ImportDone
    Visit -> InsertVisit -> BumpPage -> GetVariant -> BumpVariant -> GetVisitor -> TurnCurious
    SignUp -> InsertSignup -> SendFirst          Resend -> SendAgain
    Verify -> MarkVerified -> BumpSignup -> FindLead -> NewLead -> Attach -> Register
    Erase -> CommitErase            OptOut -> InsertOptOut -> LeaveFunnel -> NameLead
    Deliver -> Receive -> Book -> LogEvent | AddContact | FillBlanks -> MarkProcessed -> AuditApollo

HH-BE is the nondeterminism of `CallHhBe`, `SendFirst`, `SendAgain` and `MarkVerified`: it does what it
is asked, or refuses, or the call fails, or it does it and the answer is lost.
Account and mail histories count both what HH-BE did (`made`, `mailed`) and how much of it
was never heard of (`unheard`). A request of the form runs in a `Worker`, whose table of the last
sends (`_RESEND_TS`, here `cooling`) the others do not see; `Restart` is the death of one worker with its table and requests.
The CSV import keeps the importer's cache of company
owners and its place in the pool in the session (`Turned`, `OwnerOf`, `AfterRow`).

`LeadDesk` runs all of these on one table. `out` holds the leads whose opt-out is on record
until a person moves them, `removed` those a person deleted, `applied` and `failures` what became of deliveries.

### Outreach, Companies, JobIntake, HeatBoard, FunnelSnapshot, Campaigns, ActivationSync, BackOffice

    Push -> Insert | Advance                     MoveOutreach, SetOutcome, DeleteOutreach
    PushJob -> RecordEvent -> AddFirm -> InsertJob | PatchJob -> MarkEvent | FailEvent
    CreateFirm, ChangeFirm                       StartApollo -> SyncContact* -> ApolloDone
    CreateJob, EditJob                           Propose -> CommitCandidate -> Bump
    Withdraw -> CommitWithdrawal -> ReadCount -> Bump            MoveCandidate
    LogEvent -> CommitEvent -> ApplyHeat | ApplyEvent
    RecordReply | Reclassify -> CommitReply -> ApplyHeat -> LogReply       Recalc -> CommitRecalc
    Snapshot -> Upsert* -> RollUp -> Upsert* -> Rolled
    AddProspects -> EnrolOne* | EnrolVictim -> CommitBatch
    StartSync -> (Poll -> Store -> Alert)* -> Synced             JobEvent -> StoreJobs

The worker's jobs are requests like the others, but a cron job runs once at a time (ARQ's `unique`).
`Campaigns` looks inside a transaction, since its SAVEPOINTs matter: `mine` is what the open batch
inserted, whose locks others wait for (`Waits`), and `EnrolVictim` the deadlock's or the
timeout's victim. `Grow` is what customers do on HH-BE, the only action of nobody here.
`FunnelSnapshot` extends `HeatBoard`, because the leads it counts change their stage
there while it runs, and `JobIntake` extends `Companies`, whose rows its events look up and create. A deleted company
keeps its domain (`Holders`), but no lookup finds it (`Known`); Apollo's sync holds one session, and with it one snapshot, over all
contacts. `BackOffice` composes them; they share the server and few
tables, so one behaviour mixes only kinds of requests that can meet on a row (`Mixes`).

## 3. The runs

| Run | Instance | Properties | What it shows |
|---|---|---|---|
| `ingest_people` | 3 requests, 4 events of one user and nobody, one hard fault, one crash, deletions | TypeOK, VerifiedIsRegistered, IdentifiedSignup, SerialDedupe, SerialTouches, SingleIngest, SettledStays | any order and any overlap of a user's events: milestones agree with the signups rows whatever overlaps; one prospect per person and exact touch counters only while no two requests overlapped, which is how far the code's read-then-write goes; an event whose delivery never failed is ingested at most once, and a settled delivery stays so |
| `ingest_replay` | 4 requests, 2 colleagues' events racing for one company, which may be deleted, one soft fault, patient sender, fairness | ProcessedIngested, FailedIsReplayed, LedgerSpec | processed means ingested; a failed delivery is ingested once the sender retries, unless its company was deleted; refinement of DeliveryLedger |
| `job_board` | 3 requests, 2 boards, 3 postings, lists of 2 boards, targets 1 and 4, counts 0 and 2, a clock tick, an abort | TypeOK, RatchetComplete, MetEarned, SerialTotals, MetSticks, NoDoublePosting | the ratchet under overlap, and which overlaps break the rest |
| `call_overlap` | 3 requests on one lead, 5 outcomes, 2 stages, a clock of 3 seconds, a lock of 2 | TypeOK, RnrNeverOver, RnrNoticed, HistoryAgrees, ConvertedStamped, ViewsAgree, MidCallLock | what survives any overlap (the counter is never too high, a converted lead is stamped), what holds until the first overlap (every RNR counted and marked, the history a chain, the mid-call lock), and that queue, panels and cards share one idea of an open promise unless two calls share a second |
| `call_turns` | one caller, 2 leads, 4 requests one after the other, a clock of 4 seconds | FairRotation | Next gets round the leads that owe no call |
| `lead_desk` | 3 leads (one owned, one loose, one deleted), 2 signups, 2 workers, 4 deliveries, 10 kinds of requests; any two overlap, one may die, a third of 3 kinds may follow | OnePerEmail, MergeKeepsOne, OneAccount, StaysOut, VerifiedHasLead, OneSendAMinute, VisitsCounted, HookAppliedOnce | what the prospects table keeps, and the exact overlap or death behind which it does not: two givers of an email, two merge decisions, two promotions, a visit beside an opt-out, a verify that died; accounts and OTP mails are counted against the answers that were lost, mails per worker |
| `back_office` | 3 requests or jobs at once out of 9 mixes, one may die, one read may fail | HandworkStands, PushedHighest, PreparedCounts, EventsLand, HeatSettles, RollupsOverwritten, AnswersAddUp, SyncSettles | titles and links that people entered survive job events; the status of an outreach that staff did not move is the highest pushed, in every order and with repeats; an event is lost only behind the deaths, overlaps and deleted company that `EventsLand` lists (without any one of them it is violated); counters, heat, activation and batch answers are right in the end, and which overlaps cost them that |
| `import_report` | 2 requests, a CSV row with a value too long for its column | ImportReports | **violated** |
| `same_second` | 2 requests, one lead | QueueResolves | **violated** |
| `repush_lost` | 2 requests, one crash | RepushSucceeds | **violated**: see findings |
| `lead_revival` | 2 requests, a deletion | MatchRevives | **violated** |
| `hired_undone` | 3 requests one after the other, pushes and moves of outreach | HandMovedStays | **violated** |

### Bounds, and why they are enough

Every bound is a constant: `Req` (requests, each used once), `Pid` and
`PostingId` (ids), `MaxSoft`, `MaxHard`, `MaxCrash`, `MaxAborts`, `MaxClock`,
`MaxList`. Races of this code are pairwise: a request reads, another commits, the
first writes. Two requests show them, a third shows what a stale write does to a
later reader or a retry; `ingest_replay` has four since each of two events needs its first
attempt and its retry. A prospect id per event is enough since an event creates
at most one. Two boards are needed for a sum to mix old and new counts, a third
posting for a re-posting on a board, and a clock of two values for rows of the same and
of different seconds. Counts {0, 2} with targets {1, 4} give a target that one
posting reaches and one that only both reach. Three calls on one lead are what the
RNR marker needs, and leads share nothing but the queue's order, so `call_overlap` has one lead; the
rotation goes wrong earliest at the third turn over two leads, so `call_turns` has four, one request
at a time (`MaxActive`). `LockTime` stands for the five minutes in units of the clock; the lock's edge needs a touch
at 0, a check at 1 (refused) and at 2 (granted).

In `lead_desk` every kind of request may meet every other: two run at once (`MaxActive`), and behind two (`MaxMixed`)
only the kinds of `Late` start, alone: a third merge decision (which may delete what an overlap of two
left), a third visit (which reads what lost bumps left) and a repeated delivery; for other kinds a
serial third request adds states and no new case. Five free `Pid`s are more than three requests can create.
`MaxAborts` = 1: one death, or one restart of a worker; two workers are enough to show that one does not see the other's sends. In `back_office`
`MaxActive` = 3 and `Mixes` lists the kinds that touch a common row; the ids of jobs, candidates, campaigns and
replies suffice for three creations. `Patches`, `Moves`, `EventKinds`, `Batches` and `MaxGrowth` bound the inputs: an
edit of each sort of field, a status below and above hired, one event of each sort (points, demo,
opt-out), a company that gets the events' domain and one that is deleted, batches that overlap in both orders, repeat a prospect and name an unknown one, and two leads
with up to three jobs and applicants between them. `MaxFaults` = 1 lets one processing fail and be replayed. `InsertSignup` ends when the ids of
signups are used up, which is a bound and not the code's.

The sets of requests (and boards) are symmetric, except in
`ingest_replay` and the runs of action properties that name none, where symmetry
would be unsound or saves nothing.

Deadlock is checked in every run: `Quiet` is an explicit stutter
that is enabled only when no request is under way, so a request that could not go on would
show as a deadlock.

### Fairness

`ingest_replay` assumes weak fairness of each request's own next transaction
(`Step(r)`): the event loop resumes a handler whose await finished, and the pool
is larger than the number of requests of the model. It also assumes that the
sender pushes each key, and pushes it again when it was not answered (weak fairness of
`Push` per key): `docs/SERVICE_INTEGRATION.md:30-33` says HH-BE retries with backoff up
to four times. `Patient` keeps a retry from being fired before its predecessor was answered or died. Faults
are not fair, and bounded, so the four requests outlast them. Everything else is safety and needs no fairness.

### Findings

1. **A crash after the delivery insert loses the event** (`repush_lost`). The row is committed
   with status received before any work is done; `record` takes received for a
   duplicate, so every retry is answered `already_received`. The docstring names this case as the one
   replay is for; only failures that reach the `except` are replayed.
2. **A deleted lead is not revived** (`lead_revival`). The lookup by thh_user_id
   finds deleted prospects, on purpose, but `deleted_at` stays set, no history row
   is written, and later touches and milestones accrue on a row that no list shows.
3. **A push undoes hired** (`hired_undone`). `ingest` takes every push whose status
   number is higher, and dropped (3) is above hired (2): after staff moved an outreach to hired, a push of 3
   drops it, without any overlap. The comment above the comparison says that pushes never undo staff's moves, and
   `update_status` calls hired permanent; only staff's own route keeps to it.

4. **The queue keeps what was resolved in the same second** (`same_second`). The
   panels were given an id tie-break for outcomes of one second, the queue's subquery kept the strict
   `>`: the lead stays on top of the queue with a promise that no panel shows.

5. **A refused row leaves an import without a report** (`import_report`). The row's
   `except` rolls back the session the request shares, which expires the signed-in user's object; reading
   `user.role` for the next row, or `user.id` for the audit row, loads it outside an await
   and raises. The rows before the refused one stay imported, the caller gets a 500. Three other files of
   the repository explain this effect and use a SAVEPOINT against it.

Observations without a run.

* Call queue: the KPI card counts open demos without a time, the panel lists only those with one
  (for call backs the schema demands the time, so `ViewsAgree` compares the cards for those only). The
  panels are per caller, the queue is per lead, so a promise travels with a reassigned lead in the queue but
  stays on the panel of the caller who made it. The queue's docstring excludes prospects with an RNR in the last
  24 hours, the query does not.
* Intake: a replayed delivery may insert a second signups row when the failure came after the first insert (the
  ledger run counts ingests per admission, and `SingleIngest` is stated for deliveries that never failed).
* Jobs: `distribute` writes no history row for `expectation_target` although `crud.py:32` lists it; mark-posted and
  mark-failed log "pending" as the previous status whatever it was; an inbound event changes `paid_status`, also in that list, without a history row.
* Jobs: the sync (`routes.py:385`, and the refresh at 312-315) replaces `total_applicants` without
  `record_applicants`, so a total above the target stands beside an unset `target_met_at`, until the next edit of applicants;
  `docs/SCHEMA.md:1442` says of Arch-41 "The moment total applicants ≥ target, `target_met_at` is set".
* Funnel: `funnel_snapshot.py:40` says "same-day re-runs overwrite, never duplicate", and `funnel_snapshots/crud.py:5, 49` that a
  second run updates. For rows with channel and owner this is not so: the unique key spans the environment, which the upsert leaves NULL
  (`alembic` a7c9e2b4d801:184-208), so every ordinary re-run inserts each of them again, and a group that has no leads left keeps its
  row of the earlier run. `Upserted` models this; `RollupsOverwritten` states the part of the claim that holds, for the rollups
  that go through the other branch of `upsert`, and says nothing of the doubled rows.
* Outreach: pushes also undo other moves of staff to a lower status, a push of 1 over a moved-to 0.
* OTP: the docstring of `resend_otp` says "Rate-limited to 1 send per 60s per signup_id". The limit is kept by each worker for
  itself (the TODO at `signups/routes.py:81` knows), and a send whose answer is lost is not noted: resends one after the other, answered by
  different workers or behind a timeout, get past it. `OneSendAMinute` states what is kept, per worker and per answer heard.
* Promotion: an account that HH-BE made behind a timeout, or answered without a usable `users_id`, is a 502 and leaves
  the lead without id; the next promotion asks HH-BE for another. Nothing here tells the two apart, and whether HH-BE returns the account it
  has is HH-BE's; `OneAccount` counts what it made and what was never heard of.
* Heat: classifying a positive reply as positive again adds heat and an event again (score and events stay equal). A reply's heat
  is committed before its event, so a recalculation in between takes it back until the next hour.
* Replies: `EmailReplyCRUD.create` raises TypeError when the payload leaves out campaign_id or carries from_address
  (`routes.py:119` passes only fields that were set, and all of them; `crud.py:70-80`).
* Campaigns: a batch counts an unknown prospect id as "skipped"; the docstring at `crud.py:138` says skipped are those already members.
* Companies: a deleted company keeps its domain, which is UNIQUE. `get_or_create_by_domain`, an "idempotent upsert" by its
  docstring, finds no row and may insert none, so job and signup events of that domain fail with every retry, and so does
  `POST /companies`, which looks only for live ones and ends in a 500. The docstring at `webhooks/crud.py:64-65` says of a failed delivery that
  "re-pushing with the same dedup_key must succeed, otherwise the failure is permanent": behind a deleted company it is permanent, which
  `FailedIsReplayed` and `EventsLand` except by name.
* Notes: `prospect_notes/crud.py:43` orders by NULLS LAST, which MySQL does not know.
* Workers: `apollo_sync` calls `ProspectCRUD.find_duplicate`, which does not exist, so each person of a
  sync ends as an error. An L4 event that stores `first_job` first keeps the sync from ever sending its "first job" alert;
  counts the sync read before an event may overwrite the event's until the next day (`SyncSettles` excepts leads touched meanwhile).
* Merge: the decision may be taken again, the other way round, on a pair already merged; a prospect may be merged into itself.

## 4. The proofs

TLAPS proves the following for all values of the constants that satisfy the
modules' `ASSUME`s: any number of requests, events, prospects, postings, faults, crashes and overlaps. The
assumptions say what the database or a schema guarantees: ids are numbers and NULL is none of them,
the sets of ids of postings and prospects are finite, targets are positive, events, cards, files, routes and deliveries are well
formed (`EventAssumption`, `RoutesAssumption`, `WebhookAssumption`, ...), and the tables a run starts with are tables the program
can hold (`SeedAssumption`, `StartAssumption`, `FirmsAssumption`, `TablesAssumption`).
TLC evaluates them on every run.

Every proof has the same outline: a strengthening, inductive on its own or beside type correctness, is
checked with TLC, then proved with one lemma per action; a property of overlaps is proved from the history `met`, which only grows.

* `InboundIngestProofs`
  * `TypeCorrect`: `TypeOK`, with `Placed`: a request past the lookups has a
    prospect id and a pushed request a key. `Placed` is what makes `TypeOK` inductive, since
    most writes go to `prospect[loc[r].pid]`.
  * `SingleIngestHolds`, `SettledStaysHolds`: from `Admission`, which ties each
    delivery that never failed to at most one request between its admission and
    its answer. `InsideSteps` shows which of the handler's steps leave the ledger alone,
    so only admission, the signups insert and the two settling steps need an
    argument.
  * `ProcessedIngestedHolds`: a request at `mark` has inserted its row.
  * `MilestonesHold`: `VerifiedIsRegistered` and `IdentifiedSignup`, under every
    overlap. A session writes one column of a row that exists, so no stale copy takes
    a milestone back (`KeptStep`); `SessionOk` says which milestones of an event are on the prospect by the time
    its session inserts the signups row.
  * `LedgerImplemented`, for a patient sender (`ASSUME Patient`): the refinement of `DeliveryLedger`. `Awaited`: one request of an event is under way at
    most, and the status its session found is still in the table. So each of its steps is the ledger's, and one that is answered without an
    ingest, or dies, is the ledger's `Drop` (`LedgerDrops`, `LedgerStep`).
  * `SerialDedupeHolds`, `SerialTouchesHold`: from `Serial`: until two requests overlap, one session is active at most, what it looked up and
    loaded is what the tables hold (`SerialSession`), and a session behind its touch has counted a touch that no signups row uses yet.
    There is one lemma for each kind of write; `CreateSerial` needs that the lookup by email and by user id both came back empty.
* `JobDistributionProofs`
  * `MetSticksHolds`: needs only `Shape`, the part of the type invariant without
    postings' contents; the ratchet is `@ \/ ...` whatever the session holds.
  * `MetEarnedHolds`: `Earned` says that the counts in a session at
    `totalRow` or `totalBoard` once stood in the table together with the target it loaded, unless a
    blind edit ran; `Undisturbed` gives the case of the edit by board that ran alone, whose
    rows equal the table's.
  * `TypeCorrect`: `TypeOK` with `Addressed`: a request addresses a row and writes a value that exist.
  * `RatchetCompleteHolds`: from `BoardOk` (an id without a posting counts nothing, and a job with postings has a target) and `Owed`: when the postings
    add up to the target the ratchet is set, or a request is under way that will read them as they are, or has, and set it (`WillSet`).
  * `SerialTotalsHolds`, `NoDoublePostingHolds`: from `Alone`, whose session equals the table, and `Totalled`;
    `NewestIsLast` says that, without ties, the newest row of a board is the one with the greatest id.
  * Sums are folds of the community modules. What they compute for every finite set (`SumIn`, `SumZero`) is proved without induction over an operator:
    from the fixpoint the fold is (`SumUnfolds`, `FoldExists`), a smallest set for which the claim fails is
    refuted, which needs only that a set of numbers has a least element (`Least`).

* `CallQueueProofs`
  * `TypeCorrect`: `TypeOK` with `Placed`: a request under way has a lead, and between its flush and
    its commit a log row of its own that nobody sees.
  * `RnrNeverOverHolds`: from `SessionsUnder`: no session's copy of the counter is above the number of
    logged RNR calls either, and that number never falls; `RnrLogsCommit` shows that a commit raises it by one.
  * `ConvertedStampedHolds`: inductive as it stands.
  * `RnrNoticedHolds`, `HistoryAgreesHolds`, `MidCallLockHolds`: from `Serial`: on a lead whose requests never
    overlapped, at most one request is under way and what it loaded equals the row. `Checked` carries the
    outcome of the lock's check to the commit.
  * `ViewsAgreeHolds`: from `AllDated`: every call has a caller, and a call back has its time. The queue asks for a later call and the panels for
    a later call or a greater id; without two calls of the lead in a second the two are the same.
  * `FairRotationHolds`: from `Rotation`: of two leads of a caller that owe no call, one is a turn ahead at most, and the one that is ahead was
    touched later. Hence the head of the queue, touched first or never, has the fewest turns (`HeadBehind`), and its turn keeps the others within one
    (`RotationKept`). That no two leads were touched in one second is part of the invariant: `odd` records that one was.

* `SessionsProofs`: what `Launch`, `Goto`, `Finish`, `Abort` and `Restart` do to `pc`, `loc`, `met` and `died`, once for all modules; above all
  that two requests of two kinds under way together are recorded (`Met`), so "unless two promotions overlapped"
  may be used as "at most one promotion is under way".
* `LeadDeskProofs`
  * `HookAppliedOnceHolds` (`HookInv`, `Single`): of a delivery that never failed one request at a time is between its admission and its mark.
  * `OneSendAMinuteHolds` (`SendInv`, `Quick`): at each worker, whoever is about to send to a signup is alone and the worker has mailed nothing since its last note but what it did not hear of.
  * `OneAccountHolds` (`AccountInv`, `Fair`): a lead that a promotion is about to call HH-BE for has no account but those HH-BE's answer did not bring, unless promotions met or died.
  * `StaysOutHolds` (`OutInv`, `Kept`): a lead whose opt-out is on record is unsubscribed or its opt-out is about to make it so, and no visit is about to write over it.
  * `MergeKeepsOneHolds` (`MergeInv`, `Outlives`, `Decides`): the survivor of a merge lives until a later decision names it the loser.
  * `VerifiedHasLeadHolds` (`VerifyInv`, `Served`): a verified signup has a lead or a verify that will give it one.
  * `VisitsCountedHolds` (`VisitInv`): counters and visit rows in flight add up, per page and per variant.
  * `OnePerEmailHolds` (`NameInv`, `Sole`, `Vacant`): an email that a session is about to give away is vacant unless two givers met.
* `BackOfficeProofs`
  * `PushedHighestHolds`: `PushesAlone`: unless pushes of a key met, the status that a push loaded is the row's; `Advance` takes the higher one.
  * `AnswersAddUpHolds`: `BatchOpen` and `BatchesApart`: what the open batches of a campaign inserted is new to it and disjoint, so each commit adds what its answer says.
* `JobIntakeProofs`: `HandworkStandsHolds`, for titles and links: an event that met no edit and no other event holds those that its job has (`EventsHold`). `EventsLandHolds`: `EventAt` says wherever the work
  on an event stands that it is bound for a job or an excused failure, `Landed` what became of it, and `HolderGone` that a deleted company keeps its domain for good.
  `PreparedCountsHolds` (`CountInv`): a job's counter is the number of its live candidates, or short of it by the step that a request at `count` or `bump` is about to take.
* `WorkerProofs`: `HeatSettlesHolds` and `SyncSettlesHolds`: `HeatSerial` and `HeatCalm` tie score, level and the sessions to the events while heating requests run one
  by one, and behind an undisturbed recalculation; `SyncAt` ties what a sync has yet to write to the row and to HH-BE, for each lead that nothing touched since it was read.
  `RollupsOverwrittenHolds`: unless an event met it, a snapshot groups the leads as they stand until it ends; `SnapshotAt` says at each of its steps
  which keys hold their number already and which are still to be written, and that the groups of its two queries share no key.

Only model-checked, and why: `FailedIsReplayed`, which is liveness under fairness and beyond the prover. Every other property of the passing runs
is a theorem. The violated claims of the findings need no proof, a counterexample is one.

## 5. Not modelled, and why

* `CallQueue` leaves out `touch_count` (incremented like `rnr_count`), deletion, the excluded channel, the
  audit rows that handlers write in a transaction after the one modelled, and the rounding of
  `last_touched_at` to whole seconds (the model truncates, MySQL rounds).
* Wording, labels, envelopes, logging, the audit and history rows outside `CallQueue` (append-only; no
  property reads them), times other than their order; of Telegram only the activation alerts.
* `JobDistribution` and `JobIntake` leave out `posted_at`, `at_risk_at`, `removed_at`, soft deletion of a job,
  candidate notes, the link to a HH-BE job and the refresh of a job description.
* `LeadRoutes` leaves out `POST /prospects/{id}/touch` as a route (`record_touch` is `Touch` of `InboundIngest`), quality scores
  and phone numbers; `SignupOtp` campaign events 16 and 17 and the variant picker (a random draw, here any variant).
  There is no code that fills the merge queue, so `review` starts with one pending row.
* CRUD of single rows without cross-row state: landing pages and variants, prospect notes, admin users.
* Authentication, tokens, signatures and OTP codes: cryptography and stateless checks.
* Email comparison: emails are compared as values. (The database's collation is
  case-insensitive, the code lowers nothing.)
* A failed connection in `job_board`, `lead_desk` or `back_office` is an `Abort`; a failed commit leaves the
  tables as they were and is the same.
* Liveness of the later modules: their requests wait for nobody (in `Campaigns` only behind open
  batches, where deadlock is checked), so that each ends is weak fairness and nothing more.

## 6. Plan

| Step | Module | Content | Run | Theorem |
|---|---|---|---|---|
| done | InboundIngest, DeliveryLedger | lead intake | `ingest_people`, `ingest_replay` | section 4 |
| done | JobDistribution | distribution and ratchet | `job_board` | section 4 |
| done | CallQueue | calls, queue, panels, stage changes, mid-call lock | `call_overlap`, `call_turns` | section 4 |
| done | Leads, LeadRoutes, SignupOtp, ProviderWebhooks, LeadDesk | what works on the prospects table | `lead_desk` | section 4 |
| done | Outreach, Companies, JobIntake, HeatBoard, FunnelSnapshot, Campaigns, ActivationSync, BackOffice | the rest of the server and the workers | `back_office` | section 4 |
| later | | `JobDistribution` with deletion of a job; the ledger's abstract specification for job events and provider webhooks | | |
