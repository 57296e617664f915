------------------------------- MODULE CallQueue -------------------------------
(***************************************************************************)
(* The callers' work: calls logged against leads, the queue that offers    *)
(* the next lead, the panels that list what was promised, stage changes,   *)
(* and the reassignment of a lead with its mid-call lock.                  *)
(*                                                                         *)
(* Every request reads its lead in the snapshot its authentication opened  *)
(* and writes columns computed from it.  The INSERT into call_logs takes a *)
(* shared lock on the lead (foreign key), so a request that wrote its log  *)
(* keeps all others from updating that lead until it commits.              *)
(*                                                                         *)
(* All leads belong to the callers' channels and none is deleted.          *)
(* touch_count is left out: it is incremented like rnr_count.              *)
(***************************************************************************)
EXTENDS Naturals, Sequences, FiniteSets, FiniteSetsExt

CONSTANTS
    Req,          \* HTTP requests
    Lead,         \* prospects
    Caller,       \* admin_users that own leads and log calls
    LogId,        \* call_logs ids, handed out in increasing order
    None,         \* SQL NULL
    Creator,      \* created_by_user_id of each lead
    Outcomes,     \* outcomes that callers log
    Times,        \* callback_at values they promise
    NewStages,    \* stages they move leads to
    LockTime,     \* the mid-call lock, in units of clock
    MaxClock,     \* bound: seconds that pass
    MaxActive     \* bound: requests under way at the same time

CallOutcomes == {"rnr", "not_interested", "call_back", "follow_up",
                 "demo_scheduled", "demo_attended", "demo_no_show", "converted"}
Stages == {"cold", "curious", "converted", "lost", "unsubscribed"}
ExcludedStages == {"converted", "lost", "unsubscribed"}

ASSUME QueueAssumption ==
    /\ LogId \subseteq Nat /\ IsFiniteSet(LogId)
    /\ Times \subseteq Nat /\ None \notin Nat /\ None \notin Caller
    /\ Creator \in [Lead -> Caller \cup {None}]
    /\ Outcomes \subseteq CallOutcomes /\ NewStages \subseteq Stages
    /\ LockTime \in Nat /\ MaxClock \in Nat /\ MaxActive \in Nat

VARIABLES
    lead,         \* the prospects table
    log,          \* the call_logs table
    changes,      \* prospect_stage_history of each lead, oldest first
    marks,        \* audit rows auto_marked_not_interested of each lead
    clock,        \* whole seconds
    pc, loc,      \* where each request is and what its session holds
    overlapped,   \* history: leads that two requests were under way on together
    turns, odd    \* history: how often Next was acted upon, until anything but
                  \* one caller working through Next has happened

rows == <<lead, log, changes, marks>>
history == <<overlapped, turns, odd>>
vars == <<rows, clock, pc, loc, history>>

Seconds == 0..MaxClock
LeadRow == [stage : Stages, touched : Seconds \cup {None}, rnr : Nat,
            owner : Caller \cup {None}, stamped : BOOLEAN]
LogRow == [state : {"free", "flushed", "logged", "void"}, lead : Lead \cup {None},
           caller : Caller \cup {None}, outcome : CallOutcomes,
           callback : Times \cup {None}, at : Seconds]
NoLog == [state |-> "free", lead |-> None, caller |-> None, outcome |-> "rnr",
          callback |-> None, at |-> 0]
Fresh(c) == [stage |-> "cold", touched |-> None, rnr |-> 0, owner |-> c,
             stamped |-> FALSE]

\* A session: the lead it works on, as loaded, when it began, and the payload.
Session == [lead : Lead \cup {None}, row : LeadRow, began : Seconds,
            id : LogId \cup {None}, caller : Caller \cup {None},
            outcome : CallOutcomes, callback : Times \cup {None},
            stage : Stages, owner : Caller \cup {None},
            force : BOOLEAN, offered : BOOLEAN]
Nothing == [lead |-> None, row |-> Fresh(None), began |-> 0, id |-> None,
            caller |-> None, outcome |-> "rnr", callback |-> None,
            stage |-> "cold", owner |-> None, force |-> FALSE, offered |-> FALSE]

Working == {"record", "write", "skip", "stage", "check", "assign"}
Active == {r \in Req : pc[r] \in Working}

Init ==
    /\ \E owner \in [Lead -> Caller \cup {None}] :
         lead = [p \in Lead |-> Fresh(owner[p])]
    /\ log = [i \in LogId |-> NoLog]
    /\ changes = [p \in Lead |-> <<>>]
    /\ marks = [p \in Lead |-> 0]
    /\ clock = 0
    /\ pc = [r \in Req |-> "idle"]
    /\ loc = [r \in Req |-> Nothing]
    /\ overlapped = {} /\ turns = [p \in Lead |-> 0] /\ odd = FALSE

-----------------------------------------------------------------------------
(***************************************************************************)
(* What the queries see.                                                   *)
(***************************************************************************)
Logged == {i \in LogId : log[i].state = "logged"}
LogsOf(p) == {i \in Logged : log[i].lead = p}

\* Mutant: a conversion does not end what was promised.
ResolvingUnconverted(outcome) ==
    CASE outcome \in {"call_back", "follow_up"} ->
           {"not_interested", "demo_scheduled", "demo_attended", "demo_no_show"}
      [] outcome = "demo_scheduled" -> {"demo_attended", "demo_no_show"}
      [] OTHER -> {}

\* The outcomes that end a commitment in _next_open_callback_subq.
Resolving(outcome) ==
    CASE outcome \in {"call_back", "follow_up"} ->
           {"not_interested", "demo_scheduled", "demo_attended", "demo_no_show",
            "converted"}
      [] outcome = "demo_scheduled" -> {"demo_attended", "demo_no_show", "converted"}
      [] OTHER -> {}

\* ... and in the panels.
Superseding(outcome) ==
    IF outcome = "demo_scheduled"
    THEN {"demo_attended", "demo_no_show", "converted"}
    ELSE {"not_interested", "demo_scheduled", "demo_attended", "demo_no_show",
          "converted"}

Promises(p) == {i \in LogsOf(p) : /\ log[i].callback # None
                                  /\ Resolving(log[i].outcome) # {}}

\* The queue takes a promise for kept when a resolving call is strictly later.
Open(p) ==
    {i \in Promises(p) :
        ~\E j \in LogsOf(p) : /\ log[j].at > log[i].at
                              /\ log[j].outcome \in Resolving(log[i].outcome)}
Due(p) == IF Open(p) = {} THEN None ELSE Min({log[i].callback : i \in Open(p)})

\* The panels and the KPIs break ties of called_at by id.
Later(j, i) == log[j].at > log[i].at \/ (log[j].at = log[i].at /\ j > i)
Superseded(i) ==
    \E j \in LogsOf(log[i].lead) :
        Later(j, i) /\ log[j].outcome \in Superseding(log[i].outcome)

\* The callbacks and demos panels of a caller.
Panel(c, outcome) ==
    {i \in Logged : /\ log[i].caller = c /\ log[i].outcome = outcome
                    /\ log[i].callback # None
                    /\ outcome \in {"call_back", "demo_scheduled"} => ~Superseded(i)}

\* outcomes_in_range over the whole range, for these two outcomes.
OpenCount(c, outcome) ==
    Cardinality({log[i].lead : i \in {j \in Logged : /\ log[j].caller = c
                                                    /\ log[j].outcome = outcome
                                                    /\ ~Superseded(j)}})

Eligible(c) == {p \in Lead : /\ lead[p].owner = c \/ Creator[p] = c
                             /\ lead[p].stage \notin ExcludedStages}

\* Mutant: the oldest touch last.
BeforeLifo(p, q) ==
    \/ Due(p) # None /\ Due(q) = None
    \/ Due(p) # None /\ Due(q) # None /\ Due(p) < Due(q)
    \/ /\ Due(p) = Due(q)
       /\ \/ lead[p].touched = None /\ lead[q].touched # None
          \/ /\ lead[p].touched # None /\ lead[q].touched # None
             /\ lead[p].touched > lead[q].touched

\* The ORDER BY of the queue: open promises by time, then leads never touched,
\* then the oldest touch.
Before(p, q) ==
    \/ Due(p) # None /\ Due(q) = None
    \/ Due(p) # None /\ Due(q) # None /\ Due(p) < Due(q)
    \/ /\ Due(p) = Due(q)
       /\ \/ lead[p].touched = None /\ lead[q].touched # None
          \/ /\ lead[p].touched # None /\ lead[q].touched # None
             /\ lead[p].touched < lead[q].touched

\* What next-prospect may return; the query leaves ties to the database.
Heads(c) == {p \in Eligible(c) : \A q \in Eligible(c) : ~Before(q, p)}

-----------------------------------------------------------------------------
(***************************************************************************)
(* Requests.                                                               *)
(***************************************************************************)
\* Is this c acting on the lead that Next offers, and nobody else anywhere?
InTurn(c, p) == /\ ~odd
                /\ p \in Heads(c)
                /\ \A d \in Caller \ {c} : p \notin Eligible(d)
                /\ Active = {}

Begin(r, next, p, payload) ==
    /\ pc[r] = "idle" /\ Cardinality(Active) < MaxActive
    /\ pc' = [pc EXCEPT ![r] = next]
    /\ loc' = [loc EXCEPT ![r] = [payload EXCEPT !.lead = p, !.row = lead[p],
                                                 !.began = clock]]
    /\ overlapped' = IF \E q \in Active : loc[q].lead = p
                     THEN overlapped \cup {p} ELSE overlapped
    /\ odd' = (odd \/ ~payload.offered)
    /\ turns' = IF odd' THEN [q \in Lead |-> 0] ELSE turns
    /\ UNCHANGED <<rows, clock>>

Goto(r, label) == pc' = [pc EXCEPT ![r] = label]

Finish(r) ==
    /\ Goto(r, "done")
    /\ loc' = [loc EXCEPT ![r] = Nothing]

\* The unit of work leaves a column alone whose value did not change in the
\* session.
Written(column, loaded, value) == IF loaded = value THEN column ELSE value

\* No other request holds a shared lock on the lead.
Unlocked(r) ==
    \A q \in Req \ {r} : ~(pc[q] = "write" /\ loc[q].lead = loc[r].lead)

\* last_touched_at = now, a moment before the commit.  A turn counts when it
\* comes in a later second than all touches before.
Touched(r, now) ==
    /\ odd' = (odd \/ \E p \in Lead : lead[p].touched # None /\ lead[p].touched >= now)
    /\ turns' = [p \in Lead |-> IF odd' THEN 0
                               ELSE IF p = loc[r].lead THEN turns[p] + 1 ELSE turns[p]]

\* POST /api/call-logs.  A call back needs its time; other outcomes may carry one.
Record(r) ==
    \E c \in Caller, p \in Lead, o \in Outcomes, t \in Times \cup {None} :
        /\ o = "call_back" => t # None
        /\ Resolving(o) = {} => t = None    \* no query looks at other times
        /\ Begin(r, "record", p,
                 [Nothing EXCEPT !.caller = c, !.outcome = o, !.callback = t,
                                 !.offered = InTurn(c, p)])

\* Mutant: called_at is ahead of the clock.
FlushLogAhead(r) ==
    /\ pc[r] = "record"
    /\ \E i \in LogId :
         /\ log[i].state = "free"
         /\ log' = [log EXCEPT ![i] =
              [state |-> "flushed", lead |-> loc[r].lead, caller |-> loc[r].caller,
               outcome |-> loc[r].outcome, callback |-> loc[r].callback,
               at |-> clock + 1]]
         /\ loc' = [loc EXCEPT ![r] = [loc[r] EXCEPT !.id = i, !.began = clock]]
    /\ Goto(r, "write")
    /\ UNCHANGED <<lead, changes, marks, clock, history>>

\* db.flush(): the row gets its id and its called_at.
FlushLog(r) ==
    /\ pc[r] = "record"
    /\ \E i \in LogId :
         /\ log[i].state = "free"
         /\ \A j \in LogId : j < i => log[j].state # "free"
         /\ log' = [log EXCEPT ![i] =
              [state |-> "flushed", lead |-> loc[r].lead, caller |-> loc[r].caller,
               outcome |-> loc[r].outcome, callback |-> loc[r].callback, at |-> clock]]
         /\ loc' = [loc EXCEPT ![r] = [loc[r] EXCEPT !.id = i, !.began = clock]]
    /\ Goto(r, "write")
    /\ UNCHANGED <<lead, changes, marks, clock, history>>

\* The counter and the conversion that CallLogCRUD.record computes from its copy.
Counted(r) == IF loc[r].outcome = "rnr" THEN loc[r].row.rnr + 1 ELSE loc[r].row.rnr
Converts(r) == loc[r].outcome = "converted" /\ loc[r].row.stage # "converted"

\* Mutants of CommitLog, without its conversion: the second RNR is marked; an
\* RNR counts twice.
CommitLogEarly(r) ==
    /\ pc[r] = "write" /\ Unlocked(r)
    /\ LET p == loc[r].lead IN
       \E now \in loc[r].began .. clock :
            /\ lead' = [lead EXCEPT ![p].touched = now, ![p].rnr = Counted(r)]
            /\ marks' = [marks EXCEPT ![p] =
                 IF loc[r].outcome = "rnr" /\ Counted(r) >= 2 THEN @ + 1 ELSE @]
            /\ Touched(r, now)
    /\ log' = [log EXCEPT ![loc[r].id].state = "logged"]
    /\ Finish(r)
    /\ UNCHANGED <<clock, overlapped, changes>>

CommitLogTwice(r) ==
    /\ pc[r] = "write" /\ Unlocked(r)
    /\ LET p == loc[r].lead IN
       \E now \in loc[r].began .. clock :
            /\ lead' = [lead EXCEPT ![p].touched = now,
                          ![p].rnr = IF loc[r].outcome = "rnr" THEN @ + 2 ELSE @]
            /\ Touched(r, now)
    /\ log' = [log EXCEPT ![loc[r].id].state = "logged"]
    /\ Finish(r)
    /\ UNCHANGED <<clock, overlapped, marks, changes>>

\* The rest of record, one transaction with the flush: the touch, the RNR counter
\* with its audit row, or the conversion with its history row.
CommitLog(r) ==
    /\ pc[r] = "write" /\ Unlocked(r)
    /\ LET p == loc[r].lead
           old == loc[r].row
       IN \E now \in loc[r].began .. clock :
            /\ lead' = [lead EXCEPT ![p] = [lead[p] EXCEPT
                 !.touched = now,
                 !.rnr = Written(@, old.rnr, Counted(r)),
                 !.stage = IF Converts(r) THEN "converted" ELSE @,
                 !.stamped = @ \/ Converts(r)]]
            /\ marks' = [marks EXCEPT ![p] =
                 IF loc[r].outcome = "rnr" /\ Counted(r) >= 3 THEN @ + 1 ELSE @]
            /\ changes' = [changes EXCEPT ![p] =
                 IF Converts(r) THEN Append(@, [from |-> old.stage, to |-> "converted"])
                 ELSE @]
            /\ Touched(r, now)
    /\ log' = [log EXCEPT ![loc[r].id].state = "logged"]
    /\ Finish(r)
    /\ UNCHANGED <<clock, overlapped>>

\* Two requests that both flushed a log of one lead wait for each other's lock:
\* InnoDB rolls one of them back.
Victim(r) ==
    /\ pc[r] = "write" /\ ~Unlocked(r)
    /\ log' = [log EXCEPT ![loc[r].id].state = "void"]
    /\ Finish(r)
    /\ UNCHANGED <<lead, changes, marks, clock, history>>

\* POST /api/call-logs/skip.
Skip(r) ==
    \E c \in Caller, p \in Lead :
        Begin(r, "skip", p, [Nothing EXCEPT !.offered = InTurn(c, p)])

CommitSkip(r) ==
    /\ pc[r] = "skip" /\ Unlocked(r)
    /\ \E now \in loc[r].began .. clock :
         /\ lead' = [lead EXCEPT ![loc[r].lead].touched = now]
         /\ Touched(r, now)
    /\ Finish(r)
    /\ UNCHANGED <<log, changes, marks, clock, overlapped>>

\* POST /api/prospects/{id}/stage.
ChangeStage(r) ==
    \E p \in Lead, s \in NewStages : Begin(r, "stage", p, [Nothing EXCEPT !.stage = s])

\* Mutant: a lead that changed its stage before gets no history row and no stamp.
CommitStageOnce(r) ==
    /\ pc[r] = "stage" /\ Unlocked(r)
    /\ LET p == loc[r].lead
           first == changes[p] = <<>>
           row == [from |-> loc[r].row.stage, to |-> loc[r].stage]
       IN \E now \in loc[r].began .. clock :
         /\ lead' = [lead EXCEPT ![p].touched = now, ![p].stage = loc[r].stage,
                ![p].stamped = @ \/ (first /\ loc[r].stage = "converted")]
         /\ changes' = [changes EXCEPT ![p] = IF first THEN <<row>> ELSE @]
         /\ Touched(r, now)
    /\ Finish(r)
    /\ UNCHANGED <<log, marks, clock, overlapped>>

\* ProspectCRUD.change_stage.
CommitStage(r) ==
    /\ pc[r] = "stage" /\ Unlocked(r)
    /\ LET p == loc[r].lead
           old == loc[r].row
       IN \E now \in loc[r].began .. clock :
            /\ lead' = [lead EXCEPT ![p] = [lead[p] EXCEPT
                 !.touched = now,
                 !.stage = Written(@, old.stage, loc[r].stage),
                 !.stamped = @ \/ loc[r].stage = "converted"]]
            /\ changes' = [changes EXCEPT ![p] =
                 Append(@, [from |-> old.stage, to |-> loc[r].stage])]
            /\ Touched(r, now)
    /\ Finish(r)
    /\ UNCHANGED <<log, marks, clock, overlapped>>

\* PATCH /api/prospects/{id} with an owner.
Reassign(r) ==
    \E p \in Lead, c \in Caller \cup {None}, f \in BOOLEAN :
        Begin(r, "check", p, [Nothing EXCEPT !.owner = c, !.force = f])

\* Mutant: the lock ends one second early.
MidCallEarly(r) ==
    /\ loc[r].owner # loc[r].row.owner /\ ~loc[r].force
    /\ loc[r].row.touched # None
    /\ clock - loc[r].row.touched < LockTime - 1

\* The mid-call guardrail.
MidCall(r) ==
    /\ loc[r].owner # loc[r].row.owner /\ ~loc[r].force
    /\ loc[r].row.touched # None
    /\ clock - loc[r].row.touched < LockTime

CheckLock(r) ==
    /\ pc[r] = "check"
    /\ \/ MidCall(r) /\ Finish(r)           \* 409
       \/ ~MidCall(r) /\ Goto(r, "assign") /\ UNCHANGED loc
    /\ UNCHANGED <<rows, clock, history>>

CommitOwner(r) ==
    /\ pc[r] = "assign" /\ Unlocked(r)
    /\ lead' = [lead EXCEPT ![loc[r].lead].owner =
                  Written(@, loc[r].row.owner, loc[r].owner)]
    /\ Finish(r)
    /\ UNCHANGED <<log, changes, marks, clock, history>>

Tick ==
    /\ clock < MaxClock
    /\ clock' = clock + 1
    /\ UNCHANGED <<rows, pc, loc, history>>

\* No request is under way.
Quiet ==
    /\ Active = {}
    /\ UNCHANGED vars

Start(r) == Record(r) \/ Skip(r) \/ ChangeStage(r) \/ Reassign(r)
Step(r) == \/ FlushLog(r) \/ CommitLog(r) \/ Victim(r) \/ CommitSkip(r)
           \/ CommitStage(r) \/ CheckLock(r) \/ CommitOwner(r)

Next == (\E r \in Req : Start(r) \/ Step(r)) \/ Tick \/ Quiet

Spec == Init /\ [][Next]_vars

-----------------------------------------------------------------------------
(***************************************************************************)
(* Properties.                                                             *)
(***************************************************************************)
\* The tables and the sessions are well formed.
TypeOK ==
    /\ lead \in [Lead -> LeadRow]
    /\ log \in [LogId -> LogRow]
    /\ changes \in [Lead -> Seq([from : Stages, to : Stages])]
    /\ marks \in [Lead -> Nat]
    /\ clock \in Seconds
    /\ pc \in [Req -> Working \cup {"idle", "done"}]
    /\ loc \in [Req -> Session]
    /\ overlapped \subseteq Lead
    /\ turns \in [Lead -> Nat]
    /\ odd \in BOOLEAN

RnrLogs(p) == {i \in LogsOf(p) : log[i].outcome = "rnr"}

\* However requests overlap, the RNR counter of a lead never exceeds its logged
\* RNR calls: no lead is marked not interested before its third unanswered call.
RnrNeverOver == \A p \in Lead : lead[p].rnr <= Cardinality(RnrLogs(p))

\* As long as the requests on a lead do not overlap, every RNR call is counted and
\* every one from the third on leaves an audit row.
RnrNoticed ==
    \A p \in Lead \ overlapped :
        LET n == Cardinality(RnrLogs(p))
        IN lead[p].rnr = n /\ marks[p] = IF n >= 3 THEN n - 2 ELSE 0

\* The stage of a lead after its n-th change, as its history tells it.
StageAfter(p, n) == IF n = 0 THEN "cold" ELSE changes[p][n].to

\* As long as the requests on a lead do not overlap, its stage history is a chain
\* from "cold" to its present stage, whether a call or a stage change moved it.
HistoryAgrees ==
    \A p \in Lead \ overlapped :
        /\ lead[p].stage = StageAfter(p, Len(changes[p]))
        /\ \A i \in 1 .. Len(changes[p]) : changes[p][i].from = StageAfter(p, i - 1)

\* However requests overlap, a lead in stage converted carries converted_at.
ConvertedStamped == \A p \in Lead : lead[p].stage = "converted" => lead[p].stamped

\* Queue, panels and cards share one idea of what is still owed: a lead with no
\* two calls in the same second has the same open call backs and demos in the
\* queue's order as its callers see on their panels, and the number on a caller's
\* card is the number of leads on the panel behind it.
ViewsAgree ==
    /\ \A p \in Lead :
          (\A i, j \in LogsOf(p) : log[i].at = log[j].at => i = j) =>
              {i \in Open(p) : log[i].outcome # "follow_up"} =
              {i \in LogsOf(p) : \E c \in Caller, o \in {"call_back", "demo_scheduled"} :
                                     i \in Panel(c, o)}
    /\ \A c \in Caller :
          OpenCount(c, "call_back") =
              Cardinality({log[i].lead : i \in Panel(c, "call_back")})

\* A caller who only works through Next, alone, gets round all leads: of those
\* that owe no call, Next never offers one that had more turns than another,
\* whether the turns were calls or skips.
FairRotation ==
    ~odd => \A c \in Caller : \A p \in Heads(c), q \in Eligible(c) :
                Promises(p) \cup Promises(q) = {} => turns[p] <= turns[q]

\* A lead that another request is not working on at the same time changes hands
\* without force only when its last touch is LockTime old.
MidCallLock ==
    [][\A r \in Req :
          LET p == loc[r].lead IN
          (pc[r] = "assign" /\ pc'[r] = "done" /\ ~loc[r].force /\ p \notin overlapped') =>
              \/ lead'[p].owner = lead[p].owner
              \/ lead[p].touched = None
              \/ clock - lead[p].touched >= LockTime]_vars

\* The outcomes panel's comment says that two outcomes in the same second must not
\* keep a promise open that the later one ended; read for the queue, a promise
\* the panels take for superseded is not open there.
QueueResolves == \A p \in Lead : \A i \in Promises(p) : Superseded(i) => i \notin Open(p)

=============================================================================
