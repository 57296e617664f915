---------------------------- MODULE InboundIngest ----------------------------
(***************************************************************************)
(* The lead intake of the CRM: POST /api/signups/inbound, the handler that *)
(* turns one event pushed by HH-BE into a prospect, a touch, milestones    *)
(* and a signups row, exactly once per dedup_key.                          *)
(*                                                                         *)
(* Every request is a process with its own database session.  CRUD methods *)
(* commit on their own, so one request is a chain of transactions and      *)
(* other requests run between any two of them.  A transaction reads from   *)
(* the snapshot taken by its first SELECT (MySQL REPEATABLE READ, the      *)
(* engine sets no other level), and an ORM object keeps the values it was  *)
(* last refreshed with: both are in loc, and the writes are computed from  *)
(* loc, not from the tables.                                               *)
(***************************************************************************)
EXTENDS Naturals, FiniteSets

CONSTANTS
    Key,          \* dedup_keys; a key names one event
    Req,          \* HTTP requests, each used for one push
    Pid,          \* prospect ids, handed out in increasing order
    None,         \* SQL NULL
    Event,        \* Event[k]: what the payload of k carries
    MaxSoft,      \* bound: database reads that fail inside the handler
    MaxHard,      \* bound: flushes or connections that fail
    MaxCrash,     \* bound: worker processes that die
    Deletes,      \* what an admin may delete: "lead", "company"
    Patient       \* TRUE: the sender awaits an answer before it retries a key

Kinds == {"touch", "L3", "L4"}
Emails == {Event[k].email : k \in Key}
Uids == {Event[k].uid : k \in Key}
Domains == {Event[k].domain : k \in Key}

ASSUME EventAssumption ==
    /\ Pid \subseteq Nat
    /\ None \notin Pid /\ None \notin Key
    /\ \A k \in Key : /\ Event[k].kind \in Kinds
                      /\ Event[k].named \in BOOLEAN
                      /\ Event[k].jobs \in Nat \ {0}
ASSUME DeletesAssumption == Deletes \subseteq {"lead", "company"}
ASSUME BoundAssumption == MaxSoft \in Nat /\ MaxHard \in Nat /\ MaxCrash \in Nat

VARIABLES
    delivery,     \* webhook_deliveries.status of each key, "absent" with no row
    prospect,     \* the prospects table
    touches,      \* prospect_channels.touch_count on channel 13, 0 with no row
    companies,    \* the companies row of each domain
    signups,      \* the signups table
    pc, key,      \* where each request is, and the key it carries
    loc,          \* what each request's session has loaded
    soft, hard, crashes,
    ingested,     \* history: signups rows ever inserted for a key
    everFailed,   \* history: was the delivery ever marked failed?
    overlap       \* history: have two requests ever been under way together?

tables == <<delivery, prospect, touches, companies, signups>>
faults == <<soft, hard, crashes>>
history == <<ingested, everFailed, overlap>>
vars == <<tables, pc, key, loc, faults, history>>

Statuses == {"absent", "received", "processed", "failed"}
CompanyStates == {"none", "live", "deleted"}
Outside == {"lookup", "insert", "reset"}
InTry == {"resolve", "create", "enrich", "load", "company", "resnap", "attach",
          "loadT", "touch", "loadM", "register", "job", "loadU", "setuid",
          "signup", "mark", "fail"}
Answered == {"refused", "duplicate", "unresolved", "ingested"}
Over == Answered \cup {"err500", "dead"}
Active == {r \in Req : pc[r] \in Outside \cup InTry}

Row == [state : {"free", "live", "deleted"}, email : Emails \cup {None},
        uid : Uids \cup {None}, name : Key \cup {None},
        company : Domains \cup {None}, registered : BOOLEAN,
        firstJob : BOOLEAN, jobs : Nat, touch : Nat]
Loc == [pid : Pid \cup {None}, wd : Statuses, row : Row, chan : Nat, sees : BOOLEAN]

Unused == [state |-> "free", email |-> None, uid |-> None, name |-> None,
           company |-> None, registered |-> FALSE, firstJob |-> FALSE,
           jobs |-> 0, touch |-> 0]
Unloaded(status) == [pid |-> None, wd |-> status, row |-> Unused,
                     chan |-> 0, sees |-> FALSE]

Init ==
    /\ delivery = [k \in Key |-> "absent"]
    /\ prospect = [p \in Pid |-> Unused]
    /\ touches = [p \in Pid |-> 0]
    /\ companies = [d \in Domains |-> "none"]
    /\ signups = {}
    /\ pc = [r \in Req |-> "idle"]
    /\ key = [r \in Req |-> None]
    /\ loc = [r \in Req |-> Unloaded("absent")]
    /\ soft = 0 /\ hard = 0 /\ crashes = 0
    /\ ingested = [k \in Key |-> 0]
    /\ everFailed = [k \in Key |-> FALSE]
    /\ overlap = FALSE

Ev(r) == Event[key[r]]

Goto(r, label) == pc' = [pc EXCEPT ![r] = label]

\* The request ends with this outcome; its session is gone.
Finish(r, outcome) ==
    /\ Goto(r, outcome)
    /\ loc' = [loc EXCEPT ![r] = Unloaded("absent")]

-----------------------------------------------------------------------------
\* The sender.  HH-BE pushes k, for the first time or again: it retries what
\* was not answered, and two fires within a second share a key.
Push(r, k) ==
    /\ pc[r] = "idle"
    /\ Patient => \A q \in Req : key[q] = k => pc[q] \in Over \ Answered
    /\ key' = [key EXCEPT ![r] = k]
    /\ Goto(r, IF Event[k].email = None /\ Event[k].uid = None
               THEN "refused" ELSE "lookup")
    /\ overlap' = (overlap \/ Active # {})
    /\ UNCHANGED <<tables, loc, faults, ingested, everFailed>>

-----------------------------------------------------------------------------
\* Mutants of Lookup: a failed delivery counts as a duplicate; every known
\* delivery is replayed.
LookupNoReplay(r) ==
    /\ pc[r] = "lookup"
    /\ Goto(r, IF delivery[key[r]] = "absent" THEN "insert" ELSE "duplicate")
    /\ UNCHANGED <<tables, key, loc, faults, history>>

LookupReplaysAll(r) ==
    /\ pc[r] = "lookup"
    /\ Goto(r, IF delivery[key[r]] = "absent" THEN "insert" ELSE "reset")
    /\ UNCHANGED <<tables, key, loc, faults, history>>

\* WebhookDeliveryCRUD.record: the SELECT, then the INSERT or the replay reset.
Lookup(r) ==
    /\ pc[r] = "lookup"
    /\ Goto(r, CASE delivery[key[r]] = "absent" -> "insert"
                 [] delivery[key[r]] = "failed" -> "reset"
                 [] OTHER -> "duplicate")
    /\ UNCHANGED <<tables, key, loc, faults, history>>

\* Mutant of Insert: no unique key.
InsertAnyway(r) ==
    /\ pc[r] = "insert"
    /\ delivery' = [delivery EXCEPT ![key[r]] = "received"]
    /\ Goto(r, "resolve")
    /\ UNCHANGED <<prospect, touches, companies, signups, key, loc, faults, history>>

\* UNIQUE(provider, external_event_id) lets one of two racing inserts through;
\* the other raises outside the handler's try.
Insert(r) ==
    /\ pc[r] = "insert"
    /\ \/ /\ delivery[key[r]] = "absent"
          /\ delivery' = [delivery EXCEPT ![key[r]] = "received"]
          /\ Goto(r, "resolve")
       \/ /\ delivery[key[r]] # "absent"
          /\ Goto(r, "err500")
          /\ UNCHANGED delivery
    /\ UNCHANGED <<prospect, touches, companies, signups, key, loc, faults, history>>

\* UPDATE ... WHERE id: it does not look at the status it replaces.
Reset(r) ==
    /\ pc[r] = "reset"
    /\ delivery' = [delivery EXCEPT ![key[r]] = "received"]
    /\ Goto(r, "resolve")
    /\ UNCHANGED <<prospect, touches, companies, signups, key, loc, faults, history>>

-----------------------------------------------------------------------------
\* What a SELECT that starts a transaction now puts in the session.
Loaded(r, p, status) ==
    [pid |-> p, wd |-> status, row |-> prospect[p], chan |-> touches[p],
     sees |-> companies[Ev(r).domain] = "live"]

AfterResolve(r) == IF Ev(r).domain # None THEN "company" ELSE "touch"

\* db.refresh(row) and the two lookups, one snapshot.  thh_user_id wins over
\* email and finds deleted prospects too; get_by_email skips them.
\* ByUidLive is the mutant that skips deleted prospects.
ByUidLive(r) == {p \in Pid : /\ Ev(r).uid # None
                             /\ prospect[p].state = "live"
                             /\ prospect[p].uid = Ev(r).uid}
ByUid(r) == {p \in Pid : /\ Ev(r).uid # None
                         /\ prospect[p].state # "free"
                         /\ prospect[p].uid = Ev(r).uid}
ByEmail(r) == {p \in Pid : /\ Ev(r).email # None
                           /\ prospect[p].state = "live"
                           /\ prospect[p].email = Ev(r).email}
Matches(r) == IF ByUid(r) # {} THEN ByUid(r) ELSE ByEmail(r)

Resolve(r) ==
    /\ pc[r] = "resolve"
    /\ LET status == delivery[key[r]] IN
       \/ /\ Cardinality(ByUid(r)) > 1     \* scalar_one_or_none raises
          /\ Goto(r, "fail")
          /\ loc' = [loc EXCEPT ![r] = Unloaded(status)]
       \/ /\ Cardinality(ByUid(r)) <= 1
          /\ \E p \in Matches(r) :
               /\ loc' = [loc EXCEPT ![r] = Loaded(r, p, status)]
               /\ Goto(r, IF Ev(r).named /\ prospect[p].name = None
                          THEN "enrich" ELSE AfterResolve(r))
       \/ /\ Matches(r) = {} /\ Ev(r).email # None
          /\ Goto(r, "create")
          /\ loc' = [loc EXCEPT ![r] = Unloaded(status)]
       \/ /\ Matches(r) = {} /\ Ev(r).email = None   \* HTTPException is re-raised
          /\ Finish(r, "unresolved")
    /\ UNCHANGED <<tables, key, faults, history>>

Create(r) ==
    /\ pc[r] = "create"
    /\ \E p \in Pid :
         /\ prospect[p].state = "free"
         /\ \A q \in Pid : q < p => prospect[q].state # "free"
         /\ prospect' = [prospect EXCEPT ![p] =
              [Unused EXCEPT !.state = "live", !.email = Ev(r).email,
                             !.name = IF Ev(r).named THEN key[r] ELSE None]]
         /\ loc' = [loc EXCEPT ![r].pid = p]
    /\ Goto(r, "load")
    /\ UNCHANGED <<delivery, touches, companies, signups, key, faults, history>>

\* The blanks were blank in the loaded object.
Enrich(r) ==
    /\ pc[r] = "enrich"
    /\ prospect' = [prospect EXCEPT ![loc[r].pid].name = key[r]]
    /\ Goto(r, "load")
    /\ UNCHANGED <<delivery, touches, companies, signups, key, loc, faults, history>>

\* Mutants of UidStep: only L4 backfills; an early return skips the signups row.
UidStepL4(r, row) ==
    IF Ev(r).kind = "L4" /\ Ev(r).uid # None /\ row.uid = None
    THEN "setuid" ELSE "signup"

UidStepReturns(r, row) ==
    IF Ev(r).kind \in {"L3", "L4"} /\ Ev(r).uid # None /\ row.uid = None
    THEN "setuid" ELSE "mark"

\* Whether the thh_user_id of an L3 or L4 event still has to be written.
UidStep(r, row) ==
    IF Ev(r).kind \in {"L3", "L4"} /\ Ev(r).uid # None /\ row.uid = None
    THEN "setuid" ELSE "signup"

\* AfterTouchKnown is the mutant that takes a linked user for a registered one.
AfterTouchKnown(r, row) ==
    IF Ev(r).kind = "L3" /\ ~row.registered /\ row.uid = None THEN "register"
    ELSE IF Ev(r).kind = "L4" /\ (~row.firstJob \/ row.jobs # Ev(r).jobs) THEN "job"
    ELSE UidStep(r, row)

AfterTouch(r, row) ==
    IF Ev(r).kind = "L3" /\ ~row.registered THEN "register"
    ELSE IF Ev(r).kind = "L4" /\ (~row.firstJob \/ row.jobs # Ev(r).jobs) THEN "job"
    ELSE UidStep(r, row)

\* db.refresh(prospect) after a commit: a new transaction, a new snapshot.
Refresh(r) ==
    /\ pc[r] \in {"load", "loadT", "loadM", "loadU"}
    /\ LET p == loc[r].pid IN
       /\ loc' = [loc EXCEPT ![r] = Loaded(r, p, @.wd)]
       /\ Goto(r, CASE pc[r] = "load"  -> AfterResolve(r)
                    [] pc[r] = "loadT" -> "touch"
                    [] pc[r] = "loadM" -> AfterTouch(r, prospect[p])
                    [] pc[r] = "loadU" -> UidStep(r, prospect[p]))
    /\ UNCHANGED <<tables, key, faults, history>>

AfterCompany(r) == IF loc[r].row.company = None THEN "attach" ELSE "touch"

\* CompanyCRUD.get_or_create_by_domain, and the enrichment of its blanks, which
\* commits when there is one.  A row that another request inserted after this
\* request's snapshot makes the INSERT fail and stays invisible to the re-read
\* in the same transaction; a soft-deleted row keeps its UNIQUE domain and is
\* hidden from both reads.  Either way the IntegrityError is raised again.
CompanyUpsert(r) ==
    /\ pc[r] = "company"
    /\ LET d == Ev(r).domain IN
       \/ /\ loc[r].sees
          /\ \E next \in {"resnap", AfterCompany(r)} : Goto(r, next)
          /\ UNCHANGED companies
       \/ /\ ~loc[r].sees /\ companies[d] = "none"
          /\ companies' = [companies EXCEPT ![d] = "live"]
          /\ Goto(r, "resnap")
       \/ /\ ~loc[r].sees /\ companies[d] # "none"
          /\ Goto(r, "fail")
          /\ UNCHANGED companies
    /\ UNCHANGED <<delivery, prospect, touches, signups, key, loc, faults, history>>

\* db.refresh(company) starts a transaction; the prospect object keeps the
\* values of the earlier one.
Resnap(r) ==
    /\ pc[r] = "resnap"
    /\ loc' = [loc EXCEPT ![r].chan = touches[loc[r].pid]]
    /\ Goto(r, AfterCompany(r))
    /\ UNCHANGED <<tables, key, faults, history>>

AttachCompany(r) ==
    /\ pc[r] = "attach"
    /\ prospect' = [prospect EXCEPT ![loc[r].pid].company = Ev(r).domain]
    /\ Goto(r, "loadT")
    /\ UNCHANGED <<delivery, touches, companies, signups, key, loc, faults, history>>

\* Mutant of Touch: an existing channel row is not counted up.
TouchOnce(r) ==
    /\ pc[r] = "touch"
    /\ LET p == loc[r].pid IN
       /\ prospect' = [prospect EXCEPT ![p].touch = loc[r].row.touch + 1]
       /\ touches' = [touches EXCEPT ![p] = IF @ = 0 THEN 1 ELSE @]
       /\ Goto(r, "loadM")
    /\ UNCHANGED <<delivery, companies, signups, key, loc, faults, history>>

\* ProspectCRUD.record_touch.  When another request added the channel row after
\* the snapshot the flush fails, and with no rollback mark_failed raises too:
\* the delivery keeps the status it has.
Touch(r) ==
    /\ pc[r] = "touch"
    /\ LET p == loc[r].pid IN
       \/ /\ loc[r].chan = 0 /\ touches[p] > 0
          /\ Finish(r, "err500")
          /\ UNCHANGED <<prospect, touches>>
       \/ /\ loc[r].chan > 0 \/ touches[p] = 0
          /\ prospect' = [prospect EXCEPT ![p].touch = loc[r].row.touch + 1]
          /\ touches' = [touches EXCEPT ![p] = loc[r].chan + 1]
          /\ Goto(r, "loadM")
          /\ UNCHANGED loc
    /\ UNCHANGED <<delivery, companies, signups, key, faults, history>>

\* Milestone setters.
SetRegistered(r) ==
    /\ pc[r] = "register"
    /\ prospect' = [prospect EXCEPT ![loc[r].pid].registered = TRUE]
    /\ Goto(r, "loadU")
    /\ UNCHANGED <<delivery, touches, companies, signups, key, loc, faults, history>>

\* SetFirstJobNull is the mutant without the "or 1" on a missing jobs_total.
SetFirstJobNull(r) ==
    /\ pc[r] = "job"
    /\ prospect' = [prospect EXCEPT ![loc[r].pid].firstJob = TRUE,
                                    ![loc[r].pid].jobs = None]
    /\ Goto(r, "loadU")
    /\ UNCHANGED <<delivery, touches, companies, signups, key, loc, faults, history>>

SetFirstJobCreated(r) ==
    /\ pc[r] = "job"
    /\ prospect' = [prospect EXCEPT ![loc[r].pid].firstJob = TRUE,
                      ![loc[r].pid].jobs =
                         IF loc[r].row.jobs # Ev(r).jobs THEN Ev(r).jobs ELSE @]
    /\ Goto(r, "loadU")
    /\ UNCHANGED <<delivery, touches, companies, signups, key, loc, faults, history>>

SetThhUserId(r) ==
    /\ pc[r] = "setuid"
    /\ prospect' = [prospect EXCEPT ![loc[r].pid].uid = Ev(r).uid]
    /\ Goto(r, "signup")
    /\ UNCHANGED <<delivery, touches, companies, signups, key, loc, faults, history>>

AddSignup(r) ==
    /\ pc[r] = "signup"
    /\ signups' = signups \cup
         {[req |-> r, prospect |-> loc[r].pid, verified |-> Ev(r).kind = "L3"]}
    /\ ingested' = [ingested EXCEPT ![key[r]] = @ + 1]
    /\ Goto(r, "mark")
    /\ UNCHANGED <<delivery, prospect, touches, companies, key, loc, faults,
                   everFailed, overlap>>

\* Mutant of WriteStatus: mark_failed writes the status of mark_processed.
WriteStatusDone(r, status) ==
    delivery' = [delivery EXCEPT ![key[r]] = "processed"]

\* The unit of work writes the status column only when it differs from the
\* value the row object was loaded with.
WriteStatus(r, status) ==
    delivery' = [delivery EXCEPT ![key[r]] = IF loc[r].wd = status THEN @ ELSE status]

\* The audit row, then mark_processed.
MarkProcessed(r) ==
    /\ pc[r] = "mark"
    /\ WriteStatus(r, "processed")
    /\ Finish(r, "ingested")
    /\ UNCHANGED <<prospect, touches, companies, signups, key, faults, history>>

\* except Exception: mark_failed, then HTTP 500.
MarkFailed(r) ==
    /\ pc[r] = "fail"
    /\ WriteStatus(r, "failed")
    /\ everFailed' = [everFailed EXCEPT ![key[r]] = TRUE]
    /\ Finish(r, "err500")
    /\ UNCHANGED <<prospect, touches, companies, signups, key, faults,
                   ingested, overlap>>

Step(r) ==
    \/ Lookup(r) \/ Insert(r) \/ Reset(r)
    \/ Resolve(r) \/ Create(r) \/ Enrich(r) \/ Refresh(r)
    \/ CompanyUpsert(r) \/ Resnap(r) \/ AttachCompany(r)
    \/ Touch(r) \/ SetRegistered(r) \/ SetFirstJobCreated(r) \/ SetThhUserId(r)
    \/ AddSignup(r) \/ MarkProcessed(r) \/ MarkFailed(r)

-----------------------------------------------------------------------------
\* A read that opens a transaction raises (no pooled connection in time): the
\* session is clean and the handler can still mark the delivery failed.
SoftFault(r) ==
    /\ soft < MaxSoft
    /\ pc[r] \in {"resolve", "load", "resnap", "loadT", "loadM", "loadU",
                  "signup", "mark"}
    /\ soft' = soft + 1
    /\ Goto(r, "fail")
    /\ loc' = [loc EXCEPT ![r] =
                 Unloaded(IF pc[r] = "resolve" THEN delivery[key[r]] ELSE @.wd)]
    /\ UNCHANGED <<tables, key, hard, crashes, history>>

\* A flush or the connection fails: the session refuses work until a rollback,
\* so mark_failed raises as well.
HardFault(r) ==
    /\ hard < MaxHard
    /\ r \in Active
    /\ hard' = hard + 1
    /\ Finish(r, "err500")
    /\ UNCHANGED <<tables, key, soft, crashes, history>>

\* A worker process dies with the requests it is serving.
Crash ==
    /\ crashes < MaxCrash
    /\ \E lost \in SUBSET Active :
         /\ lost # {}
         /\ pc' = [r \in Req |-> IF r \in lost THEN "dead" ELSE pc[r]]
         /\ loc' = [r \in Req |-> IF r \in lost THEN Unloaded("absent") ELSE loc[r]]
    /\ crashes' = crashes + 1
    /\ UNCHANGED <<tables, key, soft, hard, history>>

\* DELETE /api/signups/lead/{id}: the rows of the lead go, its prospect is
\* soft-deleted, in one transaction.
DeleteLead ==
    /\ "lead" \in Deletes
    /\ \E row \in signups :
         /\ signups' = {s \in signups : s.prospect # row.prospect}
         /\ prospect' = [prospect EXCEPT ![row.prospect].state = "deleted"]
    /\ UNCHANGED <<delivery, touches, companies, pc, key, loc, faults, history>>

\* DELETE /api/companies/{id}: the row keeps its domain.
DeleteCompany ==
    /\ "company" \in Deletes
    /\ \E d \in Domains :
         /\ companies[d] = "live"
         /\ companies' = [companies EXCEPT ![d] = "deleted"]
    /\ UNCHANGED <<delivery, prospect, touches, signups, pc, key, loc, faults, history>>

\* No request is under way and the sender is done.
Quiet ==
    /\ Active = {}
    /\ UNCHANGED vars

Next ==
    \/ \E r \in Req : \/ \E k \in Key : Push(r, k)
                      \/ Step(r)
                      \/ SoftFault(r)
                      \/ HardFault(r)
    \/ Crash
    \/ DeleteLead
    \/ DeleteCompany
    \/ Quiet

Spec == Init /\ [][Next]_vars

\* The event loop resumes every pending await, and HH-BE repeats a push that
\* was not answered while it has attempts left.
FairSpec ==
    /\ Spec
    /\ \A r \in Req : WF_vars(Step(r))
    /\ \A k \in Key : WF_vars(\E r \in Req : Push(r, k))
-----------------------------------------------------------------------------
(***************************************************************************)
(* Properties.                                                             *)
(***************************************************************************)

\* Type correctness of the tables and of every session.
TypeOK ==
    /\ delivery \in [Key -> Statuses]
    /\ prospect \in [Pid -> Row]
    /\ touches \in [Pid -> Nat]
    /\ companies \in [Domains -> CompanyStates]
    /\ signups \subseteq [req : Req, prospect : Pid, verified : BOOLEAN]
    /\ pc \in [Req -> {"idle"} \cup Outside \cup InTry \cup Over]
    /\ key \in [Req -> Key \cup {None}]
    /\ loc \in [Req -> Loc]
    /\ soft \in Nat /\ hard \in Nat /\ crashes \in Nat
    /\ ingested \in [Key -> Nat]
    /\ everFailed \in [Key -> BOOLEAN]
    /\ overlap \in BOOLEAN

\* The requests that were admitted by record() and are inside the handler.
Handling(k) == {r \in Req : key[r] = k /\ pc[r] \in InTry}

\* Unless an attempt for this key was marked failed, the UNIQUE key of
\* webhook_deliveries admits one request only, however many pushes race, so
\* the event adds one signups row at most.
SingleIngest ==
    \A k \in Key : ~everFailed[k] =>
        /\ \A r, q \in Handling(k) : r = q
        /\ ingested[k] <= 1

\* A delivery marked processed has had its signups row inserted, whatever
\* failed, crashed or was replayed before.
ProcessedIngested ==
    \A k \in Key : delivery[k] = "processed" => ingested[k] > 0

\* A signups row with otp_verified_at set belongs to a prospect that is
\* registered: stale sessions of other requests never clear the milestone.
VerifiedIsRegistered ==
    \A s \in signups : s.verified => prospect[s.prospect].registered

\* The prospect of an L3 or L4 row pushed with a thh_user_id carries one.
IdentifiedSignup ==
    \A s \in signups :
        Ev(s.req).kind \in {"L3", "L4"} /\ Ev(s.req).uid # None
            => prospect[s.prospect].uid # None

\* As long as no two requests were under way together, the lookups keep one
\* live prospect per email and one prospect per thh_user_id, also when leads
\* are deleted and deliveries replayed in between.
SerialDedupe ==
    ~overlap =>
        \A p, q \in Pid :
            \/ p = q
            \/ /\ prospect[p].uid = None \/ prospect[p].uid # prospect[q].uid
               /\ \/ "live" \notin {prospect[p].state} \cap {prospect[q].state}
                  \/ prospect[p].email # prospect[q].email

\* As long as no two requests were under way together, the two touch counters
\* agree and count at least every signups row of the prospect.
SerialTouches ==
    ~overlap =>
        \A p \in Pid :
            /\ prospect[p].touch = touches[p]
            /\ Cardinality({s \in signups : s.prospect = p}) <= touches[p]

\* A processed delivery stays processed, unless an earlier attempt failed and
\* two replays of it ran at once.
SettledStays ==
    [][\A k \in Key : delivery[k] = "processed" /\ ~everFailed[k]
                        => delivery'[k] = "processed"]_vars

\* The company of k's domain was deleted: the row blocks the domain for good.
DomainBlocked(k) == companies[Event[k].domain] = "deleted"

\* services/webhooks/crud.py: a failed delivery that is pushed again is ingested
\* in the end (when no further attempt dies or poisons its session), unless the
\* company of its domain is deleted: from then on every retry fails, although
\* the docstring there excepts nothing.
FailedIsReplayed ==
    \A k \in Key :
        delivery[k] = "failed" ~> delivery[k] = "processed" \/ DomainBlocked(k)

\* What DeliveryLedger promises per key, read off the tables and sessions.
Ledger == INSTANCE DeliveryLedger WITH
    Event <- Key, status <- delivery, ingests <- ingested,
    open <- {k \in Key : \E r \in Handling(k) : pc[r] \notin {"mark", "fail"}}
LedgerSpec == Ledger!Spec

-----------------------------------------------------------------------------
(***************************************************************************)
(* Claims of the repository that the code does not keep.                   *)
(***************************************************************************)

\* services/webhooks/crud.py: an event dropped by a crash must succeed when
\* it is pushed again.  A repeated push answered already_received has been
\* ingested, or is being ingested, or its delivery is still replayable.
RepushSucceeds ==
    \A r \in Req : pc[r] = "duplicate" =>
        \/ ingested[key[r]] > 0
        \/ Handling(key[r]) # {}
        \/ delivery[key[r]] = "failed"

\* docs/INBOUND_LEADS.md: a soft-deleted prospect is revived by the next event
\* that matches it.
MatchRevives ==
    [][\A r \in Req : pc[r] = "resolve" /\ loc'[r].pid # None
         => prospect'[loc'[r].pid].state = "live"]_vars
=============================================================================
