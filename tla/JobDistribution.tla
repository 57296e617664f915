--------------------------- MODULE JobDistribution ---------------------------
(***************************************************************************)
(* The job board of one prospect_company_jobs row: "Post a Job" opens      *)
(* postings on boards, the CSM marks them and types in applicant counts,   *)
(* and a one-way ratchet (Arch-41) remembers that the target was reached.  *)
(*                                                                         *)
(* Requests run interleaved.  A request reads a snapshot and writes later, *)
(* only the columns that differ from what it had loaded; what is loaded    *)
(* is in loc.  posted_at, at_risk_at and removed_at are left out: no       *)
(* property depends on when.                                               *)
(***************************************************************************)
EXTENDS Naturals, Sequences, FiniteSets, FiniteSetsExt, Functions

CONSTANTS
    Req,          \* HTTP requests
    Board,        \* job boards
    PostingId,    \* ids of posting rows, handed out in increasing order
    None,         \* SQL NULL
    Targets,      \* expectation_target values a CSM types
    Counts,       \* applicant counts, typed in or returned by HH-BE
    Marks,        \* statuses set by the mark-* endpoints
    Linked,       \* does the row carry a thh_job_id and an environment?
    MaxList,      \* bound: boards listed in one distribute
    MaxClock,     \* bound: seconds that pass
    MaxAborts     \* bound: requests that die half-way

ASSUME JobAssumption ==
    /\ PostingId \subseteq Nat \ {0} /\ IsFiniteSet(PostingId)
    /\ None \notin Nat /\ None \notin Board
    /\ Targets \subseteq Nat \ {0}
    /\ Counts \subseteq Nat
    /\ Marks \subseteq {"posted", "failed", "removed", "stopped"}
    /\ Linked \in BOOLEAN
    /\ MaxList \in Nat /\ MaxClock \in Nat /\ MaxAborts \in Nat

VARIABLES
    job,          \* expectation_target, target_met_at set?, total_applicants
    posting,      \* prospect_company_job_boards of the job
    clock,        \* CURRENT_TIMESTAMP, whole seconds
    pc, loc,      \* where each request is and what its session has loaded
    aborts,
    seen,         \* history: what has happened that weakens a guarantee
    reached       \* history: have the postings' counts ever added up to the target?

vars == <<job, posting, clock, pc, loc, aborts, seen, reached>>

PostingStatuses == {"pending", "posted", "failed", "removed", "stopped"}
Live == {"pending", "posted"}

Job == [target : Targets \cup {None}, met : BOOLEAN, total : Nat]
Posting == [board : Board \cup {None}, status : PostingStatuses,
            count : Counts \cup {0}, created : 0..MaxClock]
NoPosting == [board |-> None, status |-> "pending", count |-> 0, created |-> 0]
NewPosting(b) == [NoPosting EXCEPT !.board = b, !.created = clock]

Loc == [row : PostingId \cup {None}, value : Nat, status : Marks \cup {None},
        boards : Seq(Board), job : Job, rows : [PostingId -> Posting]]

\* row, value, status and boards: the posting addressed and the payload; job and
\* rows: the job and its postings as the session loaded them.
Nothing == [row |-> None, value |-> 0, status |-> None, boards |-> <<>>,
            job |-> [target |-> None, met |-> FALSE, total |-> 0],
            rows |-> [i \in PostingId |-> NoPosting]]

ByRow == {"countRow", "loadRow", "totalRow"}
ByBoard == {"countBoard", "loadBoard", "totalBoard"}
Working == {"distribute", "mark", "sync"} \cup ByRow \cup ByBoard
Active == {r \in Req : pc[r] \in Working}

Rows == {i \in PostingId : posting[i].board # None}
Sum(rows) == SumFunction([i \in PostingId |-> rows[i].count])
Reaches(j, rows) == j.target # None /\ Sum(rows) >= j.target

\* The job is new, or a first "Post a Job" has opened postings.
Init ==
    /\ clock = 0
    /\ \E n \in 0..Cardinality(Board) : \E b \in Injection(1..n, Board) :
         /\ 1..n \subseteq PostingId
         /\ posting = [i \in PostingId |->
                         IF i \in 1..n THEN NewPosting(b[i]) ELSE NoPosting]
         /\ \E t \in IF n = 0 THEN Targets \cup {None} ELSE Targets :
              job = [target |-> t, met |-> FALSE, total |-> 0]
    /\ pc = [r \in Req |-> "idle"]
    /\ loc = [r \in Req |-> Nothing]
    /\ aborts = 0 /\ seen = {}
    /\ reached = Reaches(job, posting)

-----------------------------------------------------------------------------
\* Requests.  get_by_id and list_for_job read one snapshot.
Begin(r, next, row, payload) ==
    /\ pc[r] = "idle"
    /\ pc' = [pc EXCEPT ![r] = next]
    /\ loc' = [loc EXCEPT ![r] = [payload EXCEPT !.row = row, !.job = job,
                                                 !.rows = posting]]
    /\ seen' = seen \cup
         {e \in {"overlap", "blind"} :
            /\ Active # {}
            /\ e = "blind" => \E q \in Active \cup {r} : pc'[q] \in ByBoard}
    /\ UNCHANGED <<job, posting, clock, aborts, reached>>

Goto(r, label) == pc' = [pc EXCEPT ![r] = label]

Finish(r) ==
    /\ Goto(r, "done")
    /\ loc' = [loc EXCEPT ![r] = Nothing]

Saw(e, happened) == seen' = IF happened THEN seen \cup {e} ELSE seen

\* Bound: posting ids are left for every distribute under way.
Room(bs) ==
    Cardinality(Rows) + Len(bs) + MapThenSumSet(LAMBDA q : Len(loc[q].boards), Req)
    <= Cardinality(PostingId)

\* POST /{job}/distribute.  The list may name a board twice.
Distribute(r) ==
    \E t \in Targets : \E n \in 1..MaxList : \E bs \in [1..n -> Board] :
        /\ Room(bs)
        /\ Begin(r, "distribute", None, [Nothing EXCEPT !.value = t, !.boards = bs])

\* The unit of work leaves a column alone whose value did not change in the
\* session.
Written(column, loaded, value) == IF loaded = value THEN column ELSE value

OnBoard(rows, b) == {i \in PostingId : rows[i].board = b}

\* JobCRUD.distribute: the latest row of a board is the one with the greatest
\* created_at; among rows of one second the first in id order is kept.
LatestRow(rows, b) ==
    CHOOSE i \in OnBoard(rows, b) :
        \A j \in OnBoard(rows, b) :
            \/ rows[i].created > rows[j].created
            \/ rows[i].created = rows[j].created /\ i <= j

\* Mutant: a posting that is still pending is not live.
OpenPosted(rows, b) ==
    OnBoard(rows, b) # {} /\ rows[LatestRow(rows, b)].status = "posted"

Open(rows, b) ==
    OnBoard(rows, b) # {} /\ rows[LatestRow(rows, b)].status \in Live

\* The commit: job columns, and a pending row, with the next id, for each listed
\* board that was not open.
DistributeCommit(r) ==
    /\ pc[r] = "distribute"
    /\ LET bs == loc[r].boards
           fresh == {k \in DOMAIN bs : ~Open(loc[r].rows, bs[k])}
           id(k) == Max(Rows \cup {0}) + Cardinality({m \in fresh : m <= k})
       IN posting' = [i \in PostingId |->
                        IF \E k \in fresh : id(k) = i
                        THEN NewPosting(bs[CHOOSE k \in fresh : id(k) = i])
                        ELSE posting[i]]
    /\ job' = [job EXCEPT !.target = Written(@, loc[r].job.target, loc[r].value)]
    /\ Saw("retarget", job.target # None /\ job'.target # job.target)
    /\ reached' = (reached \/ Reaches(job', posting'))
    /\ Finish(r)
    /\ UNCHANGED <<clock, aborts>>

-----------------------------------------------------------------------------
\* POST /boards/{row}/mark-posted, -failed, -removed, -stopped: no endpoint
\* looks at the status it replaces.
Mark(r) ==
    \E i \in Rows : \E s \in Marks :
        Begin(r, "mark", i, [Nothing EXCEPT !.status = s])

MarkCommit(r) ==
    /\ pc[r] = "mark"
    /\ LET i == loc[r].row IN
       posting' = [posting EXCEPT ![i].status =
                     Written(@, loc[r].rows[i].status, loc[r].status)]
    /\ Finish(r)
    /\ UNCHANGED <<job, clock, aborts, seen, reached>>

-----------------------------------------------------------------------------
\* POST /boards/{row}/applicants.
EditRow(r) ==
    \E i \in Rows : \E n \in Counts :
        Begin(r, "countRow", i, [Nothing EXCEPT !.value = n])

\* POST /{job}/applicants: the last row of the board.
EditBoard(r) ==
    \E b \in Board : \E n \in Counts :
        /\ OnBoard(posting, b) # {}
        /\ Begin(r, "countBoard", Max(OnBoard(posting, b)),
                 [Nothing EXCEPT !.value = n])

\* JobBoardCRUD.update_applicant_count.
CountCommit(r) ==
    /\ pc[r] \in {"countRow", "countBoard"}
    /\ LET i == loc[r].row IN
       posting' = [posting EXCEPT ![i].count =
                     Written(@, loc[r].rows[i].count, loc[r].value)]
    /\ Goto(r, IF pc[r] = "countRow" THEN "loadRow" ELSE "loadBoard")
    /\ reached' = (reached \/ Reaches(job, posting'))
    /\ UNCHANGED <<job, clock, loc, aborts, seen>>

\* refresh(row) opens a snapshot.  The edit by row id loads the job and the
\* other postings in it.
LoadRow(r) ==
    /\ pc[r] = "loadRow"
    /\ loc' = [loc EXCEPT ![r].job = job, ![r].rows = posting]
    /\ Goto(r, "totalRow")
    /\ UNCHANGED <<job, posting, clock, aborts, seen, reached>>

\* Mutant: without the refresh the edited row itself is stale.
LoadBoardStale(r) ==
    /\ pc[r] = "loadBoard"
    /\ loc' = [loc EXCEPT ![r].rows =
                 [i \in PostingId |->
                    IF i = loc[r].row \/ @[i].board # None THEN @[i] ELSE posting[i]]]
    /\ Goto(r, "totalBoard")
    /\ UNCHANGED <<job, posting, clock, aborts, seen, reached>>

\* The edit by board holds the job and the rows it loaded first: list_for_job
\* returns these objects as they are, and only adds rows that are new.
LoadBoard(r) ==
    /\ pc[r] = "loadBoard"
    /\ loc' = [loc EXCEPT ![r].rows =
                 [i \in PostingId |->
                    IF i = loc[r].row \/ @[i].board = None THEN posting[i] ELSE @[i]]]
    /\ Goto(r, "totalBoard")
    /\ UNCHANGED <<job, posting, clock, aborts, seen, reached>>

\* Mutants of Total: only an exact hit counts; the total is added up rather
\* than replaced.
TotalExact(r) ==
    /\ pc[r] \in {"totalRow", "totalBoard"}
    /\ job' = [job EXCEPT !.total = Written(@, loc[r].job.total, Sum(loc[r].rows)),
                          !.met = @ \/ Sum(loc[r].rows) = loc[r].job.target]
    /\ Finish(r)
    /\ UNCHANGED <<posting, clock, aborts, seen, reached>>

TotalAddsUp(r) ==
    /\ pc[r] \in {"totalRow", "totalBoard"}
    /\ LET sum == loc[r].job.total + loc[r].value IN
       job' = [job EXCEPT !.total = sum,
                          !.met = @ \/ (/\ loc[r].job.target # None
                                       /\ sum >= loc[r].job.target)]
    /\ Finish(r)
    /\ UNCHANGED <<posting, clock, aborts, seen, reached>>

\* JobCRUD.record_applicants.
Total(r) ==
    /\ pc[r] \in {"totalRow", "totalBoard"}
    /\ job' = [job EXCEPT !.total = Written(@, loc[r].job.total, Sum(loc[r].rows)),
                          !.met = @ \/ Reaches(loc[r].job, loc[r].rows)]
    /\ Finish(r)
    /\ UNCHANGED <<posting, clock, aborts, seen, reached>>

-----------------------------------------------------------------------------
\* POST /sync-applicants and GET /{job}/thh-job-data: the job is read, HH-BE is
\* awaited, and its count replaces the total.
Sync(r) == Linked /\ Begin(r, "sync", None, Nothing)

\* Mutants of SyncCommit: a missing count is taken for an answer; the ratchet
\* follows the count.
SyncNull(r) ==
    /\ pc[r] = "sync"
    /\ \E n \in Counts \cup {None} :
         job' = [job EXCEPT !.total = Written(@, loc[r].job.total, n)]
    /\ Saw("sync", job' # job)
    /\ Finish(r)
    /\ UNCHANGED <<posting, clock, aborts, reached>>

SyncRatchets(r) ==
    /\ pc[r] = "sync"
    /\ \E n \in Counts :
         job' = [job EXCEPT !.total = Written(@, loc[r].job.total, n),
                            !.met = job.target # None /\ n >= job.target]
    /\ Saw("sync", job' # job)
    /\ Finish(r)
    /\ UNCHANGED <<posting, clock, aborts, reached>>

SyncCommit(r) ==
    /\ pc[r] = "sync"
    /\ \E n \in Counts : job' = [job EXCEPT !.total = Written(@, loc[r].job.total, n)]
    /\ Saw("sync", job' # job)
    /\ Finish(r)
    /\ UNCHANGED <<posting, clock, aborts, reached>>

-----------------------------------------------------------------------------
\* A request dies between two of its transactions.
Abort(r) ==
    /\ aborts < MaxAborts
    /\ r \in Active
    /\ aborts' = aborts + 1
    /\ Saw("abort", TRUE)
    /\ Finish(r)
    /\ UNCHANGED <<job, posting, clock, reached>>

Tick ==
    /\ clock < MaxClock
    /\ clock' = clock + 1
    /\ UNCHANGED <<job, posting, pc, loc, aborts, seen, reached>>

\* No request is under way.
Quiet ==
    /\ Active = {}
    /\ UNCHANGED vars

Start(r) == Distribute(r) \/ Mark(r) \/ EditRow(r) \/ EditBoard(r) \/ Sync(r)

Next ==
    \/ \E r \in Req :
         \/ Start(r)
         \/ DistributeCommit(r) \/ MarkCommit(r)
         \/ CountCommit(r) \/ LoadRow(r) \/ LoadBoard(r) \/ Total(r)
         \/ SyncCommit(r) \/ Abort(r)
    \/ Tick
    \/ Quiet

Spec == Init /\ [][Next]_vars
-----------------------------------------------------------------------------
(***************************************************************************)
(* Properties.                                                             *)
(***************************************************************************)

\* Type correctness.
TypeOK ==
    /\ job \in Job
    /\ posting \in [PostingId -> Posting]
    /\ clock \in 0..MaxClock
    /\ pc \in [Req -> {"idle", "done"} \cup Working]
    /\ loc \in [Req -> Loc]
    /\ aborts \in 0..MaxAborts
    /\ seen \subseteq {"overlap", "blind", "retarget", "sync", "abort"}
    /\ reached \in BOOLEAN

\* Arch-41: no request, however old the job object it holds, clears
\* target_met_at.
MetSticks == [][job.met => job'.met]_vars

\* When the requests are done and the postings add up to the target, the
\* ratchet is set, although overlapping edits may have left total_applicants
\* behind: the edit that wrote last also read last.  Excepted are edits by
\* board that ran beside another request, a target that was replaced, and
\* requests that died.
RatchetComplete ==
    Active = {} /\ seen \cap {"blind", "retarget", "abort"} = {}
        => (Reaches(job, posting) => job.met)

\* The ratchet is set only if the postings once added up to the target; only
\* an edit by board beside another request can set it on a mixture of old and
\* new counts.
MetEarned == job.met /\ "blind" \notin seen => reached

\* One request at a time and no sync: total_applicants is the sum of the
\* postings whenever no request is under way.
SerialTotals ==
    Active = {} /\ seen \cap {"overlap", "sync", "abort"} = {}
        => job.total = Sum(posting)

\* No two postings of a board were created in one second.
Tied == \E i, j \in Rows : /\ i # j
                           /\ posting[i].board = posting[j].board
                           /\ posting[i].created = posting[j].created

\* One request at a time, and no two rows of a board in one second: distribute
\* adds no row to a board whose newest row is pending or posted.
NoDoublePosting ==
    [][~Tied /\ "overlap" \notin seen =>
         \A i \in Rows' \ Rows :
            LET old == OnBoard(posting, posting'[i].board)
            IN old # {} => posting[Max(old)].status \notin Live]_vars
=============================================================================
