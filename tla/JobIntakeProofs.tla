--------------------------- MODULE JobIntakeProofs ---------------------------
(***************************************************************************)
(* Jobs, events and candidates, for every table and however the requests   *)
(* on them overlap: what people entered stands, an event that nobody works *)
(* on landed or has its excuse, and the count of candidates is right.      *)
(***************************************************************************)
EXTENDS BackOfficeProofs

JobColumns == {"state", "ext", "title", "link", "paid", "status", "prepared"}
CandidateColumns == {"state", "job", "status", "presented", "decided"}

\* The tables of jobs and candidates, and the rows that sessions hold of them.
RowsTyped ==
    /\ DOMAIN job = Jid /\ \A j \in Jid : DOMAIN job[j] = JobColumns
                                         /\ job[j].state \in {"free", "live"}
    /\ \A j \in Here : job[j].prepared \in Nat
    /\ DOMAIN candidate = Cid /\ \A c \in Cid : DOMAIN candidate[c] = CandidateColumns
    /\ \A c \in Proposed : candidate[c].job \in Here
\* at is where a request is, l what its session holds.
SessionTyped(at, l, here, rows) ==
    /\ at \in {"patch_job", "edit_job", "bump"} =>
          l.job \in here /\ DOMAIN l.row = JobColumns /\ l.row.state = "live"
    /\ at = "edit_job" => DOMAIN l.change \subseteq {"title", "link", "paid", "status"}
    /\ at = "bump" => /\ l.row.prepared \in Nat
                      /\ l.step = IF l.op = "add" THEN 1 ELSE -1
    /\ at \in {"add_candidate", "drop_candidate", "count"} => l.job \in here
    /\ at \in {"drop_candidate", "move_candidate"} =>
          /\ l.candidate \in Cid /\ DOMAIN l.row = CandidateColumns /\ l.row.state = "live"
          /\ rows[l.candidate].state # "free"
    /\ at = "drop_candidate" => rows[l.candidate].job = l.job /\ l.row.job = l.job
SessionsTyped == \A r \in Req : SessionTyped(pc[r], loc[r], Here, candidate)

IntakeTyped == RowsTyped /\ SessionsTyped

\* What a step of r does to jobs that are there, and who makes new ones.
JobsStay(r) ==
    \A j \in Here :
        /\ j \in Here' /\ job'[j].ext = job[j].ext
        /\ \/ pc[r] \in {"patch_job", "edit_job"}
           \/ job'[j].title = job[j].title /\ job'[j].link = job[j].link
        /\ pc[r] = "bump" \/ job'[j].prepared = job[j].prepared
JobsMade(r) ==
    \A j \in Here' \ Here : pc[r] \in {"add_job", "create_job"} /\ job'[j].prepared = 0
CandidatesStay(r) ==
    /\ \A c \in Cid : candidate[c].state # "free" =>
          candidate'[c].state # "free" /\ candidate'[c].job = candidate[c].job
    /\ pc[r] \notin {"add_candidate", "drop_candidate"} => Proposed' = Proposed

\* A request that saves what it changed of a job writes no column but those it changed.
LEMMA JobSaved ==
  ASSUME IntakeTyped, NEW r \in Req, pc[r] \in {"patch_job", "edit_job", "bump"},
         NEW new, DOMAIN new = JobColumns, new.state = loc[r].row.state,
         new.ext = loc[r].row.ext, SaveJob(r, new),
         pc[r] = "bump" => new.title = loc[r].row.title /\ new.link = loc[r].row.link
                           /\ new.prepared \in Nat,
         pc[r] # "bump" => new.prepared = loc[r].row.prepared
  PROVE  /\ JobsStay(r) /\ JobsMade(r)
         /\ DOMAIN job' = Jid /\ \A j \in Jid : DOMAIN job'[j] = JobColumns
                                               /\ job'[j].state \in {"free", "live"}
         /\ \A j \in Here' : job'[j].prepared \in Nat
         /\ Here' = Here
         /\ job'[loc[r].job] = WrittenRow(job[loc[r].job], loc[r].row, new)
         /\ \A j \in Jid \ {loc[r].job} : job'[j] = job[j]
         /\ \A f \in JobColumns :
               job'[loc[r].job][f] = Written(job[loc[r].job][f], loc[r].row[f], new[f])
<1> DEFINE j == loc[r].job
           old == loc[r].row
<1>1. j \in Here /\ DOMAIN old = JobColumns /\ j \in Jid /\ job[j].state = "live"
  BY DEF IntakeTyped, SessionsTyped, SessionTyped, Here
<1>2. /\ DOMAIN job' = Jid /\ \A i \in Jid \ {j} : job'[i] = job[i]
      /\ job'[j] = WrittenRow(job[j], old, new)
  BY <1>1 DEF SaveJob, IntakeTyped, RowsTyped
<1>3. DOMAIN job'[j] = JobColumns /\ \A f \in JobColumns : job'[j][f] = Written(job[j][f], old[f], new[f])
  BY <1>1, <1>2 DEF WrittenRow, IntakeTyped, RowsTyped
<1> HIDE DEF j, old
<1>4. job'[j].state = "live" /\ job'[j].ext = job[j].ext
  BY <1>1, <1>3 DEF JobColumns, Written, old
<1>5. /\ pc[r] # "bump" => job'[j].prepared = job[j].prepared
      /\ pc[r] = "bump" => job'[j].title = job[j].title /\ job'[j].link = job[j].link
                           /\ job'[j].prepared \in Nat
  <2>1. job[j].prepared \in Nat
    BY <1>1 DEF IntakeTyped, RowsTyped
  <2> QED BY <1>3, <2>1 DEF JobColumns, Written, old
<1>6. Here' = Here
  BY <1>1, <1>2, <1>4 DEF Here
<1>7. JobsStay(r) /\ JobsMade(r)
  <2>1. \A i \in Here : i \in Jid /\ i \in Here' /\ (i # j => job'[i] = job[i])
    BY <1>2, <1>6 DEF Here
  <2>2. JobsStay(r)
    <3> SUFFICES ASSUME NEW i \in Here
                 PROVE  /\ i \in Here' /\ job'[i].ext = job[i].ext
                        /\ \/ pc[r] \in {"patch_job", "edit_job"}
                           \/ job'[i].title = job[i].title /\ job'[i].link = job[i].link
                        /\ pc[r] = "bump" \/ job'[i].prepared = job[i].prepared
      BY DEF JobsStay
    <3>1. CASE i = j
      BY <1>4, <1>5, <2>1, <3>1
    <3>2. CASE i # j
      BY <2>1, <3>2
    <3> QED BY <3>1, <3>2
  <2> QED BY <1>6, <2>2 DEF JobsMade
<1>8. \A i \in Here' : job'[i].prepared \in Nat
  BY <1>2, <1>5, <1>6 DEF IntakeTyped, RowsTyped, Here
<1>9. \A i \in Jid : DOMAIN job'[i] = JobColumns /\ job'[i].state \in {"free", "live"}
  BY <1>2, <1>3, <1>4 DEF IntakeTyped, RowsTyped
<1> QED BY <1>2, <1>3, <1>6, <1>7, <1>8, <1>9 DEF j, old

\* An inserted job takes a free row.
LEMMA JobAdded ==
  ASSUME IntakeTyped, NEW r \in Req, pc[r] \in {"add_job", "create_job"},
         NEW card, AddJob(card)
  PROVE  /\ JobsStay(r) /\ JobsMade(r)
         /\ DOMAIN job' = Jid /\ \A j \in Jid : DOMAIN job'[j] = JobColumns
                                               /\ job'[j].state \in {"free", "live"}
         /\ \A j \in Here' : job'[j].prepared \in Nat
         /\ \E j \in Jid \ Here : Here' = Here \cup {j} /\ job'[j].ext = card.ext
<1> DEFINE free == {i \in Jid : job[i].state = "free"}
           j == Min(free)
<1>1. free # {} /\ job' = [job EXCEPT ![j] = NewJob(card)]
  BY DEF AddJob
<1>2. j \in Jid /\ job[j].state = "free"
  <2>1. free \subseteq Nat
    BY IntakeAssumption
  <2>2. j \in free
    BY <1>1, <2>1, Smallest
  <2> QED BY <2>2
<1> HIDE DEF j, free
<1>3. /\ DOMAIN job' = Jid /\ \A i \in Jid \ {j} : job'[i] = job[i]
      /\ DOMAIN NewJob(card) = JobColumns /\ NewJob(card).state = "live"
      /\ NewJob(card).prepared = 0 /\ NewJob(card).ext = card.ext
  <2>1. /\ DOMAIN NewJob(card) = JobColumns /\ NewJob(card).state = "live"
        /\ NewJob(card).prepared = 0 /\ NewJob(card).ext = card.ext
    BY DEF NewJob, NoJob, JobColumns
  <2> QED BY <1>1, <1>2, <2>1 DEF IntakeTyped, RowsTyped
<1>4. job'[j] = NewJob(card)
  BY <1>1, <1>2 DEF IntakeTyped, RowsTyped
<1>5. Here' = Here \cup {j} /\ j \notin Here
  BY <1>2, <1>3, <1>4 DEF Here
<1>6. JobsStay(r) /\ JobsMade(r)
  BY <1>2, <1>3, <1>4, <1>5 DEF JobsStay, JobsMade, Here
<1>7. \A i \in Here' : job'[i].prepared \in Nat
  BY <1>3, <1>4, <1>5 DEF IntakeTyped, RowsTyped, Here
<1>8. \A i \in Jid : DOMAIN job'[i] = JobColumns /\ job'[i].state \in {"free", "live"}
  BY <1>3, <1>4 DEF IntakeTyped, RowsTyped
<1> QED BY <1>2, <1>3, <1>4, <1>5, <1>6, <1>7, <1>8

\* The other sessions hold what they held of rows that stay.
LEMMA SessionsKept ==
  ASSUME IntakeTyped, NEW r \in Req, Acts(r, IntakeLabels), RowsTyped',
         JobsStay(r), CandidatesStay(r),
         SessionTyped(pc'[r], loc'[r], Here', candidate')
  PROVE  IntakeTyped'
<1> SUFFICES ASSUME NEW q \in Req PROVE SessionTyped(pc'[q], loc'[q], Here', candidate')
  BY DEF IntakeTyped, SessionsTyped
<1>1. CASE q = r
  BY <1>1
<1>2. CASE q # r
  <2>1. pc'[q] = pc[q] /\ loc'[q] = loc[q] /\ SessionTyped(pc[q], loc[q], Here, candidate)
    BY <1>2 DEF Acts, IntakeTyped, SessionsTyped
  <2>2. Here \subseteq Here'
    BY DEF JobsStay
  <2> DEFINE c == loc[q].candidate
  <2>3. c \in Cid /\ candidate[c].state # "free" =>
           candidate'[c].state # "free" /\ candidate'[c].job = candidate[c].job
    BY DEF CandidatesStay
  <2> QED BY <2>1, <2>2, <2>3 DEF SessionTyped
<1> QED BY <1>1, <1>2

\* Requests that leave jobs alone, and those that leave candidates alone.
LEMMA TablesAlone ==
  ASSUME IntakeTyped, NEW r \in Req
  PROVE  /\ UNCHANGED job => JobsStay(r) /\ JobsMade(r)
         /\ UNCHANGED candidate => CandidatesStay(r)
         /\ UNCHANGED <<job, candidate>> => RowsTyped'
<1>1. UNCHANGED job => JobsStay(r) /\ JobsMade(r)
  BY DEF JobsStay, JobsMade, Here
<1>2. UNCHANGED candidate => CandidatesStay(r)
  BY DEF CandidatesStay, Proposed
<1>3. UNCHANGED <<job, candidate>> => RowsTyped'
  BY DEF IntakeTyped, RowsTyped, Here, Proposed
<1> QED BY <1>1, <1>2, <1>3

\* Candidates whose table stays belong to jobs that stay.
LEMMA CandidatesBelong ==
  ASSUME IntakeTyped, NEW r \in Req, UNCHANGED candidate, JobsStay(r),
         DOMAIN job' = Jid, \A j \in Jid : DOMAIN job'[j] = JobColumns
                                          /\ job'[j].state \in {"free", "live"},
         \A j \in Here' : job'[j].prepared \in Nat
  PROVE  RowsTyped' /\ CandidatesStay(r)
<1>1. Here \subseteq Here' /\ Proposed' = Proposed
  BY DEF JobsStay, Proposed
<1> QED BY <1>1, TablesAlone DEF IntakeTyped, RowsTyped

\* What a step on jobs and candidates keeps and changes.
Effects(r) == IntakeTyped' /\ JobsStay(r) /\ JobsMade(r) /\ CandidatesStay(r)

\* Requests that read: they hold what they read.
LEMMA IntakeReads ==
  ASSUME Desk, IntakeTyped, NEW r \in Req, Acts(r, IntakeLabels), UNCHANGED <<job, candidate>>,
         SessionTyped(pc'[r], loc'[r], Here, candidate)
  PROVE  Effects(r)
<1>1. JobsStay(r) /\ JobsMade(r) /\ CandidatesStay(r) /\ RowsTyped'
  BY TablesAlone
<1>2. Here' = Here /\ candidate' = candidate
  BY DEF Here
<1> QED BY <1>1, <1>2, SessionsKept DEF Effects

\* The routes of companies, and events up to their job.
LEMMA CompaniesEffects ==
  ASSUME Desk, IntakeTyped, NEW r \in Req, Acts(r, IntakeLabels),
         CompaniesNext(r), UNCHANGED <<job, candidate, inbox, faults>>
  PROVE  Effects(r)
<1>1. pc'[r] \in {"create_firm", "change_firm", "contact"} \cup Over
  BY DEF CompaniesNext, CreateFirm, CommitFirm, ChangeFirm, CommitFirmChange, StartApollo,
         SyncContact, Pulled, ApolloDone, Launch, Goto, Finish, Broken, Desk, Placed, Over
<1>2. SessionTyped(pc'[r], loc'[r], Here, candidate)
  BY <1>1 DEF SessionTyped, Over
<1> QED BY <1>2, IntakeReads

\* What the lookup of an event's job finds is there.
LEMMA LookedTyped ==
  ASSUME Desk, IntakeTyped, NEW r \in Req, Looked(r)
  PROVE  SessionTyped(pc'[r], loc'[r], Here, candidate)
<1> DEFINE e == Events[loc[r].key]
           session(j) == [op |-> "publish", key |-> loc[r].key, job |-> j,
                          row |-> IF j = None THEN NoJob ELSE job[j]]
<1>1. CASE Published(e.ext) = {}
  <2>1. pc'[r] = "add_job"
    BY <1>1 DEF Looked, Goto, Desk, Placed
  <2> QED BY <2>1 DEF SessionTyped
<1>2. CASE Published(e.ext) # {}
  <2>1. PICK j \in Published(e.ext) : Goto(r, "patch_job", session(j))
    BY <1>2 DEF Looked
  <2>2. pc'[r] = "patch_job" /\ loc'[r] = session(j)
    BY <2>1 DEF Goto, Desk, Placed
  <2>3. j \in Here /\ j # None
    BY <2>1, OutreachAssumption, IntakeAssumption DEF Published, Here
  <2>4. loc'[r].job = j /\ loc'[r].row = job[j]
    BY <2>2, <2>3
  <2> QED BY <2>2, <2>3, <2>4 DEF SessionTyped, IntakeTyped, RowsTyped, Here
<1> QED BY <1>1, <1>2

\* Events.
LEMMA EventEffects ==
  ASSUME Desk, IntakeTyped, NEW r \in Req, Acts(r, IntakeLabels),
         \/ PushJob(r) \/ RecordEvent(r) \/ AddFirm(r) \/ InsertJob(r) \/ PatchJob(r)
         \/ MarkEvent(r) \/ FailEvent(r) \/ EventFault(r)
  PROVE  Effects(r)
<1>1. CASE PushJob(r) \/ MarkEvent(r) \/ FailEvent(r) \/ EventFault(r)
  <2>1. UNCHANGED <<job, candidate>> /\ pc'[r] \in {"record", "failed"} \cup Over
    BY <1>1 DEF PushJob, MarkEvent, FailEvent, EventFault, Mark, Launch, Finish, Goto,
                Desk, Placed, Over, intakeVars
  <2>2. SessionTyped(pc'[r], loc'[r], Here, candidate)
    BY <2>1 DEF SessionTyped, Over
  <2> QED BY <2>1, <2>2, IntakeReads
<1>2. CASE RecordEvent(r) \/ AddFirm(r)
  <2>1. UNCHANGED <<job, candidate>>
    BY <1>2 DEF RecordEvent, AddFirm
  <2>2. Looked(r) \/ pc'[r] \in {"refuse", "add_firm", "failed"} \cup Over
    BY <1>2 DEF RecordEvent, AddFirm, Goto, Broken, Desk, Placed, Over
  <2>3. pc'[r] \in {"refuse", "add_firm", "failed"} \cup Over =>
           SessionTyped(pc'[r], loc'[r], Here, candidate)
    BY DEF SessionTyped, Over
  <2> QED BY <2>1, <2>2, <2>3, LookedTyped, IntakeReads
<1>3. CASE InsertJob(r)
  <2>1. pc[r] = "add_job" /\ UNCHANGED candidate /\ pc'[r] \in {"processed"} \cup Over
    BY <1>3 DEF InsertJob, Goto, Broken, Desk, Placed, Over
  <2>2. SessionTyped(pc'[r], loc'[r], Here', candidate')
    BY <2>1 DEF SessionTyped, Over
  <2>3. CASE UNCHANGED job
    <3>1. SessionTyped(pc'[r], loc'[r], Here, candidate)
      BY <2>1 DEF SessionTyped, Over
    <3> QED BY <2>1, <2>3, <3>1, IntakeReads
  <2>4. CASE AddJob(Events[loc[r].key])
    <3>1. /\ JobsStay(r) /\ JobsMade(r) /\ RowsTyped' /\ CandidatesStay(r)
      BY <2>1, <2>4, JobAdded, CandidatesBelong
    <3> QED BY <2>2, <3>1, SessionsKept DEF Effects
  <2> QED BY <1>3, <2>3, <2>4 DEF InsertJob
<1>4. CASE PatchJob(r)
  <2> DEFINE e == Events[loc[r].key]
             old == loc[r].row
             new == [old EXCEPT !.title = IF @ = "default" THEN e.title ELSE @,
                                !.link = IF @ = None THEN e.link ELSE @,
                                !.paid = e.paid]
  <2>1. /\ pc[r] = "patch_job" /\ UNCHANGED candidate /\ pc'[r] = "processed"
        /\ SaveJob(r, new)
    BY <1>4 DEF PatchJob, Goto, Desk, Placed
  <2>2. DOMAIN old = JobColumns
    BY <2>1 DEF IntakeTyped, SessionsTyped, SessionTyped
  <2>3. DOMAIN new = JobColumns /\ new.state = old.state /\ new.ext = old.ext
        /\ new.prepared = old.prepared
    BY <2>2 DEF JobColumns
  <2> HIDE DEF new
  <2>4. /\ JobsStay(r) /\ JobsMade(r) /\ RowsTyped' /\ CandidatesStay(r)
    BY <2>1, <2>3, JobSaved, CandidatesBelong
  <2>5. SessionTyped(pc'[r], loc'[r], Here', candidate')
    BY <2>1 DEF SessionTyped
  <2> QED BY <2>4, <2>5, SessionsKept DEF Effects
<1> QED BY <1>1, <1>2, <1>3, <1>4

\* Jobs by hand, and the count of their candidates.
LEMMA JobEffects ==
  ASSUME Desk, IntakeTyped, NEW r \in Req, Acts(r, IntakeLabels),
         CreateJob(r) \/ CommitJob(r) \/ EditJob(r) \/ CommitChanges(r) \/ Bump(r)
  PROVE  Effects(r)
<1>1. CASE CreateJob(r)
  <2>1. UNCHANGED <<job, candidate>> /\ pc'[r] = "create_job"
    BY <1>1 DEF CreateJob, Launch, intakeVars, Desk, Placed
  <2>2. SessionTyped(pc'[r], loc'[r], Here, candidate)
    BY <2>1 DEF SessionTyped
  <2> QED BY <2>1, <2>2, IntakeReads
<1>2. CASE CommitJob(r)
  <2>1. pc[r] = "create_job" /\ UNCHANGED candidate /\ pc'[r] \in Over
    BY <1>2 DEF CommitJob, Finish, Goto, Broken, Desk, Placed, Over
  <2>2. SessionTyped(pc'[r], loc'[r], Here', candidate')
    BY <2>1 DEF SessionTyped, Over
  <2>3. CASE UNCHANGED job
    <3>1. SessionTyped(pc'[r], loc'[r], Here, candidate)
      BY <2>1 DEF SessionTyped, Over
    <3> QED BY <2>1, <2>3, <3>1, IntakeReads
  <2>4. CASE AddJob(loc[r].card)
    <3>1. /\ JobsStay(r) /\ JobsMade(r) /\ RowsTyped' /\ CandidatesStay(r)
      BY <2>1, <2>4, JobAdded, CandidatesBelong
    <3> QED BY <2>2, <3>1, SessionsKept DEF Effects
  <2> QED BY <1>2, <2>3, <2>4 DEF CommitJob
<1>3. CASE EditJob(r)
  <2>1. PICK j \in Here, change \in Patches :
          Launch(r, "edit_job", [op |-> "edit", job |-> j, row |-> job[j], change |-> change])
    BY <1>3 DEF EditJob
  <2>2. /\ UNCHANGED <<job, candidate>> /\ pc'[r] = "edit_job"
        /\ loc'[r].job = j /\ loc'[r].row = job[j] /\ loc'[r].change = change
    BY <1>3, <2>1 DEF EditJob, Launch, intakeVars, Desk, Placed
  <2>3. SessionTyped(pc'[r], loc'[r], Here, candidate)
    BY <2>1, <2>2, IntakeAssumption DEF SessionTyped, IntakeTyped, RowsTyped, Here
  <2> QED BY <2>2, <2>3, IntakeReads
<1>4. CASE CommitChanges(r)
  <2> DEFINE old == loc[r].row
             change == loc[r].change
             new == With(old, change)
  <2>1. pc[r] = "edit_job" /\ UNCHANGED candidate /\ pc'[r] \in Over /\ SaveJob(r, new)
    BY <1>4 DEF CommitChanges, Finish, Goto, Desk, Placed, Over
  <2>2. DOMAIN old = JobColumns /\ DOMAIN change \subseteq {"title", "link", "paid", "status"}
    BY <2>1 DEF IntakeTyped, SessionsTyped, SessionTyped
  <2>3. DOMAIN new = JobColumns /\ new.state = old.state /\ new.ext = old.ext
        /\ new.prepared = old.prepared
    <3>1. DOMAIN old \cup DOMAIN change = JobColumns
      BY <2>2 DEF JobColumns
    <3>2. new = [f \in JobColumns |-> IF f \in DOMAIN change THEN change[f] ELSE old[f]]
      BY <3>1 DEF With
    <3> HIDE DEF new
    <3>3. {"state", "ext", "prepared"} \subseteq JobColumns
          /\ {"state", "ext", "prepared"} \cap DOMAIN change = {}
      BY <2>2 DEF JobColumns
    <3> QED BY <3>2, <3>3
  <2> HIDE DEF new
  <2>4. /\ JobsStay(r) /\ JobsMade(r) /\ RowsTyped' /\ CandidatesStay(r)
    BY <2>1, <2>3, JobSaved, CandidatesBelong
  <2>5. SessionTyped(pc'[r], loc'[r], Here', candidate')
    BY <2>1 DEF SessionTyped, Over
  <2> QED BY <2>4, <2>5, SessionsKept DEF Effects
<1>5. CASE Bump(r)
  <2> DEFINE old == loc[r].row
             count == old.prepared + loc[r].step
             most == IF count < 0 THEN 0 ELSE count
             new == [old EXCEPT !.prepared = most]
  <2>1. pc[r] = "bump" /\ UNCHANGED candidate /\ pc'[r] \in Over /\ SaveJob(r, new)
    BY <1>5 DEF Bump, Finish, Goto, Desk, Placed, Over
  <2>2. DOMAIN old = JobColumns /\ old.prepared \in Nat /\ loc[r].step \in {1, -1}
    BY <2>1 DEF IntakeTyped, SessionsTyped, SessionTyped
  <2>3. most \in Nat
    BY <2>2
  <2> HIDE DEF most
  <2>4. DOMAIN new = JobColumns /\ new.state = old.state /\ new.ext = old.ext
        /\ new.title = old.title /\ new.link = old.link /\ new.prepared \in Nat
    BY <2>2, <2>3 DEF JobColumns
  <2> HIDE DEF new
  <2>5. /\ JobsStay(r) /\ JobsMade(r) /\ RowsTyped' /\ CandidatesStay(r)
    BY <2>1, <2>4, JobSaved, CandidatesBelong
  <2>6. SessionTyped(pc'[r], loc'[r], Here', candidate')
    BY <2>1 DEF SessionTyped, Over
  <2> QED BY <2>5, <2>6, SessionsKept DEF Effects
<1> QED BY <1>1, <1>2, <1>3, <1>4, <1>5

\* A candidate's row is written column by column.
LEMMA CandidateSaved ==
  ASSUME IntakeTyped, NEW r \in Req, pc[r] \in {"drop_candidate", "move_candidate"},
         NEW new, DOMAIN new = CandidateColumns, new.job = loc[r].row.job,
         new.state \in {"live", "deleted"}, SaveCandidate(r, new), UNCHANGED job
  PROVE  /\ DOMAIN candidate' = Cid
         /\ \A c \in Cid \ {loc[r].candidate} : candidate'[c] = candidate[c]
         /\ DOMAIN candidate'[loc[r].candidate] = CandidateColumns
         /\ candidate'[loc[r].candidate].job = candidate[loc[r].candidate].job
         /\ candidate'[loc[r].candidate].state =
               IF new.state = "live" THEN candidate[loc[r].candidate].state ELSE "deleted"
         /\ RowsTyped'
         /\ \A c \in Cid : candidate[c].state # "free" =>
               candidate'[c].state # "free" /\ candidate'[c].job = candidate[c].job
<1> DEFINE c == loc[r].candidate
           old == loc[r].row
<1>1. /\ c \in Cid /\ DOMAIN old = CandidateColumns /\ old.state = "live"
      /\ candidate[c].state # "free"
  BY DEF IntakeTyped, SessionsTyped, SessionTyped
<1>2. /\ DOMAIN candidate' = Cid /\ \A b \in Cid \ {c} : candidate'[b] = candidate[b]
      /\ candidate'[c] = WrittenRow(candidate[c], old, new)
  BY <1>1 DEF SaveCandidate, IntakeTyped, RowsTyped
<1>3. /\ DOMAIN candidate'[c] = CandidateColumns
      /\ \A f \in CandidateColumns : candidate'[c][f] = Written(candidate[c][f], old[f], new[f])
  BY <1>1, <1>2 DEF WrittenRow, IntakeTyped, RowsTyped
<1> HIDE DEF c
<1>4. /\ candidate'[c].job = candidate[c].job
      /\ candidate'[c].state = IF new.state = "live" THEN candidate[c].state ELSE "deleted"
  BY <1>1, <1>3 DEF CandidateColumns, Written
<1>5. Here' = Here /\ \A b \in Cid : b \in Proposed' => b \in Proposed
  BY <1>2, <1>4 DEF Here, Proposed
<1>6. \A b \in Cid : candidate'[b].job = candidate[b].job
  BY <1>2, <1>4
<1>7. \A b \in Cid : DOMAIN candidate'[b] = CandidateColumns
  BY <1>2, <1>3 DEF IntakeTyped, RowsTyped
<1>8. RowsTyped'
  BY <1>2, <1>5, <1>6, <1>7 DEF IntakeTyped, RowsTyped, Proposed
<1>9. \A b \in Cid : candidate[b].state # "free" => candidate'[b].state # "free"
  BY <1>1, <1>2, <1>4
<1> QED BY <1>2, <1>3, <1>4, <1>6, <1>8, <1>9 DEF c

\* Candidates.
LEMMA CandidateEffects ==
  ASSUME Desk, IntakeTyped, NEW r \in Req, Acts(r, IntakeLabels),
         \/ Propose(r) \/ CommitCandidate(r) \/ Withdraw(r) \/ CommitWithdrawal(r)
         \/ ReadCount(r) \/ MoveCandidate(r) \/ CommitStatus(r)
  PROVE  Effects(r)
<1>1. CASE Propose(r)
  <2>1. PICK j \in Here : Launch(r, "add_candidate", [op |-> "add", job |-> j, step |-> 1])
    BY <1>1 DEF Propose
  <2>2. UNCHANGED <<job, candidate>> /\ pc'[r] = "add_candidate" /\ loc'[r].job = j
    BY <1>1, <2>1 DEF Propose, Launch, intakeVars, Desk, Placed
  <2>3. SessionTyped(pc'[r], loc'[r], Here, candidate)
    BY <2>1, <2>2 DEF SessionTyped
  <2> QED BY <2>2, <2>3, IntakeReads
<1>2. CASE CommitCandidate(r)
  <2> DEFINE j == loc[r].job
             free == {c \in Cid : candidate[c].state = "free"}
             new == Min(free)
             row == [NoCandidate EXCEPT !.state = "live", !.job = j]
             l == [op |-> "add", job |-> j, row |-> job[j], step |-> 1]
  <2>1. /\ pc[r] = "add_candidate" /\ free # {} /\ candidate' = [candidate EXCEPT ![new] = row]
        /\ pc'[r] = "bump" /\ loc'[r] = l /\ UNCHANGED job
    BY <1>2 DEF CommitCandidate, Goto, Desk, Placed
  <2>2. j \in Here
    BY <2>1 DEF IntakeTyped, SessionsTyped, SessionTyped
  <2>3. new \in Cid /\ candidate[new].state = "free"
    <3>1. free \subseteq Nat
      BY IntakeAssumption
    <3>2. new \in free
      BY <2>1, <3>1, Smallest
    <3> QED BY <3>2
  <2> HIDE DEF new
  <2>4. DOMAIN row = CandidateColumns /\ row.job = j /\ row.state = "live"
    BY DEF NoCandidate, CandidateColumns
  <2> HIDE DEF row
  <2>5. /\ DOMAIN candidate' = Cid /\ candidate'[new] = row
        /\ \A c \in Cid \ {new} : candidate'[c] = candidate[c]
    BY <2>1, <2>3 DEF IntakeTyped, RowsTyped
  <2>6. Here' = Here /\ Proposed' = Proposed \cup {new}
    BY <2>1, <2>3, <2>4, <2>5 DEF Here, Proposed
  <2>7. \A c \in Proposed' : candidate'[c].job \in Here'
    BY <2>2, <2>4, <2>5, <2>6 DEF IntakeTyped, RowsTyped, Proposed
  <2>8. RowsTyped'
    BY <2>1, <2>4, <2>5, <2>6, <2>7 DEF IntakeTyped, RowsTyped
  <2>9. JobsStay(r) /\ JobsMade(r)
    BY <2>1, TablesAlone
  <2>10. CandidatesStay(r)
    BY <2>1, <2>3, <2>5 DEF CandidatesStay
  <2>11. SessionTyped(pc'[r], loc'[r], Here', candidate')
    <3>1. /\ l.job = j /\ l.row = job[j] /\ l.step = 1 /\ l.op = "add"
          /\ DOMAIN job[j] = JobColumns /\ job[j].state = "live" /\ job[j].prepared \in Nat
      BY <2>2 DEF IntakeTyped, RowsTyped, Here
    <3> HIDE DEF l, j
    <3> QED BY <2>1, <2>2, <2>6, <3>1 DEF SessionTyped
  <2> QED BY <2>8, <2>9, <2>10, <2>11, SessionsKept DEF Effects
<1>3. CASE Withdraw(r)
  <2>1. PICK c \in Proposed :
          Launch(r, "drop_candidate", [op |-> "drop", candidate |-> c, row |-> candidate[c],
                                       job |-> candidate[c].job])
    BY <1>3 DEF Withdraw
  <2>2. /\ UNCHANGED <<job, candidate>> /\ pc'[r] = "drop_candidate"
        /\ loc'[r].job = candidate[c].job /\ loc'[r].candidate = c /\ loc'[r].row = candidate[c]
    BY <1>3, <2>1 DEF Withdraw, Launch, intakeVars, Desk, Placed
  <2>3. SessionTyped(pc'[r], loc'[r], Here, candidate)
    BY <2>1, <2>2 DEF SessionTyped, IntakeTyped, RowsTyped, Proposed
  <2> QED BY <2>2, <2>3, IntakeReads
<1>4. CASE CommitWithdrawal(r)
  <2> DEFINE new == [loc[r].row EXCEPT !.state = "deleted"]
  <2>1. /\ pc[r] = "drop_candidate" /\ SaveCandidate(r, new) /\ UNCHANGED job
        /\ pc'[r] = "count" /\ loc'[r] = loc[r]
    BY <1>4 DEF CommitWithdrawal, Goto, Desk, Placed
  <2>2. DOMAIN loc[r].row = CandidateColumns /\ loc[r].job \in Here
    BY <2>1 DEF IntakeTyped, SessionsTyped, SessionTyped
  <2>3. DOMAIN new = CandidateColumns /\ new.job = loc[r].row.job /\ new.state = "deleted"
    BY <2>2 DEF CandidateColumns
  <2> HIDE DEF new
  <2>4. RowsTyped' /\ CandidatesStay(r)
    BY <2>1, <2>3, CandidateSaved DEF CandidatesStay
  <2>5. JobsStay(r) /\ JobsMade(r) /\ Here' = Here
    BY <2>1, TablesAlone DEF Here
  <2>6. SessionTyped(pc'[r], loc'[r], Here', candidate')
    BY <2>1, <2>2, <2>5 DEF SessionTyped
  <2> QED BY <2>4, <2>5, <2>6, SessionsKept DEF Effects
<1>5. CASE ReadCount(r)
  <2> DEFINE j == loc[r].job
             l == [op |-> "drop", job |-> j, row |-> job[j], step |-> -1]
  <2>1. /\ pc[r] = "count" /\ UNCHANGED <<job, candidate>>
        /\ pc'[r] = "bump" /\ loc'[r] = l
    BY <1>5 DEF ReadCount, Goto, intakeVars, Desk, Placed
  <2>2. j \in Here
    BY <2>1 DEF IntakeTyped, SessionsTyped, SessionTyped
  <2>3. /\ l.job = j /\ l.row = job[j] /\ l.step = -1 /\ l.op = "drop"
        /\ DOMAIN job[j] = JobColumns /\ job[j].state = "live" /\ job[j].prepared \in Nat
    BY <2>2 DEF IntakeTyped, RowsTyped, Here
  <2> HIDE DEF l, j
  <2>4. SessionTyped(pc'[r], loc'[r], Here, candidate)
    BY <2>1, <2>2, <2>3 DEF SessionTyped
  <2> QED BY <2>1, <2>4, IntakeReads
<1>6. CASE MoveCandidate(r)
  <2>1. PICK c \in Proposed, status \in {"presented", "hired"} :
          Launch(r, "move_candidate", [op |-> "judge", candidate |-> c, row |-> candidate[c],
                                       status |-> status])
    BY <1>6 DEF MoveCandidate
  <2>2. /\ UNCHANGED <<job, candidate>> /\ pc'[r] = "move_candidate"
        /\ loc'[r].candidate = c /\ loc'[r].row = candidate[c]
    BY <1>6, <2>1 DEF MoveCandidate, Launch, intakeVars, Desk, Placed
  <2>3. SessionTyped(pc'[r], loc'[r], Here, candidate)
    BY <2>1, <2>2 DEF SessionTyped, IntakeTyped, RowsTyped, Proposed
  <2> QED BY <2>2, <2>3, IntakeReads
<1>7. CASE CommitStatus(r)
  <2> DEFINE status == loc[r].status
             new == [loc[r].row EXCEPT !.status = status,
                                       !.presented = @ \/ status = "presented",
                                       !.decided = @ \/ status = "hired"]
  <2>1. /\ pc[r] = "move_candidate" /\ SaveCandidate(r, new) /\ UNCHANGED job
        /\ pc'[r] \in Over
    BY <1>7 DEF CommitStatus, Finish, Goto, Desk, Placed, Over
  <2>2. DOMAIN loc[r].row = CandidateColumns /\ loc[r].row.state = "live"
    BY <2>1 DEF IntakeTyped, SessionsTyped, SessionTyped
  <2>3. DOMAIN new = CandidateColumns /\ new.job = loc[r].row.job /\ new.state = "live"
    BY <2>2 DEF CandidateColumns
  <2> HIDE DEF new
  <2>4. /\ RowsTyped' /\ \A c \in Cid : candidate'[c].state = candidate[c].state
        /\ \A c \in Cid : candidate[c].state # "free" =>
              candidate'[c].state # "free" /\ candidate'[c].job = candidate[c].job
    BY <2>1, <2>3, CandidateSaved
  <2>5. CandidatesStay(r)
    BY <2>4 DEF CandidatesStay, Proposed
  <2>6. JobsStay(r) /\ JobsMade(r) /\ Here' = Here
    BY <2>1, TablesAlone DEF Here
  <2>7. SessionTyped(pc'[r], loc'[r], Here', candidate')
    BY <2>1 DEF SessionTyped, Over
  <2> QED BY <2>4, <2>5, <2>6, <2>7, SessionsKept DEF Effects
<1> QED BY <1>1, <1>2, <1>3, <1>4, <1>5, <1>6, <1>7

\* Every step on jobs and candidates, whoever takes it.
LEMMA IntakeEffects ==
  ASSUME Desk, IntakeTyped, NEW r \in Req, Acts(r, IntakeLabels), IntakeNext(r)
  PROVE  Effects(r)
BY CompaniesEffects, EventEffects, JobEffects, CandidateEffects DEF IntakeNext

\* Elsewhere the tables and the sessions on them stay as they are.
LEMMA IntakeElsewhere ==
  ASSUME IntakeTyped, UNCHANGED intakeVars, Elsewhere(IntakeLabels)
  PROVE  IntakeTyped'
<1>1. RowsTyped' /\ Here' = Here /\ candidate' = candidate
  BY DEF intakeVars, IntakeTyped, RowsTyped, Here, Proposed
<1>2. ASSUME NEW q \in Req PROVE SessionTyped(pc'[q], loc'[q], Here', candidate')
  <2>1. CASE pc'[q] \in IntakeLabels
    BY <1>1, <2>1 DEF Elsewhere, IntakeTyped, SessionsTyped
  <2>2. CASE pc'[q] \notin IntakeLabels
    BY <2>2 DEF SessionTyped, IntakeLabels
  <2> QED BY <2>1, <2>2
<1> QED BY <1>1, <1>2 DEF IntakeTyped, SessionsTyped

\* The tables and sessions are well formed at the start.
LEMMA IntakeStarts == Init => IntakeTyped
<1> SUFFICES ASSUME Init PROVE IntakeTyped
  OBVIOUS
<1>1. /\ job = Jobs /\ candidate = Candidates /\ \A r \in Req : pc[r] = "idle"
  BY DEF Init, IntakeInit, DeskInit
<1>2. DOMAIN NoJob = JobColumns /\ DOMAIN NoCandidate = CandidateColumns
  BY DEF NoJob, NoCandidate, JobColumns, CandidateColumns
<1>3. ASSUME NEW j \in Jid, Jobs[j].state = "live" PROVE Jobs[j].prepared \in Nat
  <2> DEFINE mine == {c \in Cid : Candidates[c].state = "live" /\ Candidates[c].job = j}
  <2>1. IsFiniteSet(mine)
    BY IntakeAssumption, FS_Subset
  <2> QED BY <1>3, <2>1, FS_CardinalityType, TablesAssumption
<1>4. RowsTyped
  BY <1>1, <1>2, <1>3, TablesAssumption DEF RowsTyped, Here, Proposed
<1>5. SessionsTyped
  BY <1>1 DEF SessionsTyped, SessionTyped
<1> QED BY <1>4, <1>5 DEF IntakeTyped

-----------------------------------------------------------------------------
(***************************************************************************)
(* What people entered stands.  An event that met no edit and no other     *)
(* event holds the title and the link that its job has.                    *)
(***************************************************************************)
Undisturbed == ~Met("publish", "edit") /\ ~Met("publish", "publish")
EventsHold ==
    Undisturbed =>
        \A r \in Req : pc[r] = "patch_job" =>
            /\ loc[r].row.title = job[loc[r].job].title
            /\ loc[r].row.link = job[loc[r].job].link

\* An event that met nobody still holds them behind anyone's step.
LEMMA EventsHoldOn ==
  ASSUME Desk, IntakeTyped, EventsHold, NEW r \in Req, Acts(r, IntakeLabels), IntakeNext(r)
  PROVE  EventsHold'
<1> SUFFICES ASSUME Undisturbed', NEW q \in Req, pc'[q] = "patch_job"
             PROVE  /\ loc'[q].row.title = job'[loc'[q].job].title
                    /\ loc'[q].row.link = job'[loc'[q].job].link
  BY DEF EventsHold
<1>1. Undisturbed
  BY DEF Undisturbed, Met, Acts
<1>2. CASE q = r
  <2>1. Looked(r) /\ UNCHANGED job
    <3>1. RecordEvent(r) \/ AddFirm(r)
      <4> USE DEF Launch, Goto, Finish, Broken, Desk, Placed
      <4>1. ~(\/ PushJob(r) \/ InsertJob(r) \/ PatchJob(r) \/ MarkEvent(r) \/ FailEvent(r)
              \/ EventFault(r))
        BY <1>2 DEF PushJob, InsertJob, PatchJob, MarkEvent, FailEvent, EventFault, Mark
      <4>2. ~(CreateJob(r) \/ CommitJob(r) \/ EditJob(r) \/ CommitChanges(r) \/ Bump(r))
        BY <1>2 DEF CreateJob, CommitJob, EditJob, CommitChanges, Bump
      <4>3. ~(\/ Propose(r) \/ CommitCandidate(r) \/ Withdraw(r) \/ CommitWithdrawal(r)
              \/ ReadCount(r) \/ MoveCandidate(r) \/ CommitStatus(r))
        BY <1>2 DEF Propose, CommitCandidate, Withdraw, CommitWithdrawal, ReadCount,
                    MoveCandidate, CommitStatus
      <4>4. ~CompaniesNext(r)
        BY <1>2 DEF CompaniesNext, CreateFirm, CommitFirm, ChangeFirm, CommitFirmChange,
                    StartApollo, SyncContact, Pulled, ApolloDone
      <4> QED BY <4>1, <4>2, <4>3, <4>4 DEF IntakeNext
    <3> QED BY <1>2, <3>1 DEF RecordEvent, AddFirm, Goto, Broken, Desk, Placed
  <2> DEFINE session(j) == [op |-> "publish", key |-> loc[r].key, job |-> j,
                            row |-> IF j = None THEN NoJob ELSE job[j]]
  <2>2. PICK j \in Published(Events[loc[r].key].ext) : Goto(r, "patch_job", session(j))
    BY <1>2, <2>1 DEF Looked, Goto, Desk, Placed
  <2>3. j # None
    BY <2>2, OutreachAssumption, IntakeAssumption DEF Published, Here
  <2>4. loc'[r].job = j /\ loc'[r].row = job[j]
    BY <2>2, <2>3 DEF Goto, Desk, Placed
  <2> QED BY <1>2, <2>1, <2>4
<1>3. CASE q # r
  <2>1. /\ pc[q] = "patch_job" /\ loc'[q] = loc[q]
        /\ loc[q].row.title = job[loc[q].job].title /\ loc[q].row.link = job[loc[q].job].link
        /\ loc[q].job \in Here /\ loc[q].op = "publish" /\ q \in Active
    BY <1>1, <1>3 DEF Acts, EventsHold, IntakeTyped, SessionsTyped, SessionTyped, Desk,
                      IntakeKinds, IntakeKind, Active, Over
  <2>2. pc[r] \notin {"patch_job", "edit_job"}
    <3> SUFFICES ASSUME pc[r] \in {"patch_job", "edit_job"} PROVE FALSE
      OBVIOUS
    <3>1. r \in Active /\ loc[r].op \in {"publish", "edit"}
      BY DEF Desk, IntakeKinds, IntakeKind, Active, Over
    <3>2. Met("publish", loc[r].op)
      BY <1>3, <2>1, <3>1 DEF Desk, Noticed
    <3> QED BY <1>1, <3>1, <3>2 DEF Undisturbed
  <2>3. JobsStay(r)
    BY IntakeEffects DEF Effects
  <2> QED BY <2>1, <2>2, <2>3 DEF JobsStay
<1> QED BY <1>2, <1>3

\* So what a step does to the title and the link of a job is what it may do.
LEMMA CuratedKept ==
  ASSUME Desk, IntakeTyped, EventsHold, NEW r \in Req, Acts(r, IntakeLabels), IntakeNext(r)
  PROVE  CuratedStays(r)
<1>1. JobsStay(r)
  BY IntakeEffects DEF Effects
<1>2. CASE pc[r] \notin {"patch_job", "edit_job"}
  BY <1>1, <1>2 DEF JobsStay, CuratedStays
<1>3. CASE pc[r] = "edit_job"
  BY <1>3 DEF CuratedStays, Desk, IntakeKinds, IntakeKind
<1>4. CASE pc[r] = "patch_job" /\ ~Undisturbed
  BY <1>4 DEF CuratedStays, Undisturbed
<1>5. CASE pc[r] = "patch_job" /\ Undisturbed
  <2> DEFINE e == Events[loc[r].key]
             old == loc[r].row
             j == loc[r].job
             new == [old EXCEPT !.title = IF @ = "default" THEN e.title ELSE @,
                                !.link = IF @ = None THEN e.link ELSE @,
                                !.paid = e.paid]
  <2>1. PatchJob(r) \/ EventFault(r)
    BY <1>5 DEF IntakeNext, PushJob, RecordEvent, AddFirm, InsertJob, MarkEvent,
       FailEvent, Mark, CreateJob, CommitJob, EditJob, CommitChanges, Propose,
       CommitCandidate, Bump, Withdraw, CommitWithdrawal, ReadCount, MoveCandidate,
       CommitStatus, CompaniesNext, CreateFirm, CommitFirm, ChangeFirm, CommitFirmChange,
       StartApollo, SyncContact, Pulled, ApolloDone, Launch
  <2>2. CASE EventFault(r)
    BY <2>2 DEF EventFault, CuratedStays
  <2>3. CASE PatchJob(r)
    <3>1. SaveJob(r, new)
      BY <2>3 DEF PatchJob
    <3>2. DOMAIN old = JobColumns
      BY <1>5 DEF IntakeTyped, SessionsTyped, SessionTyped
    <3>3. /\ DOMAIN new = JobColumns /\ new.state = old.state /\ new.ext = old.ext
          /\ new.prepared = old.prepared
          /\ new.title = IF old.title = "default" THEN e.title ELSE old.title
          /\ new.link = IF old.link = None THEN e.link ELSE old.link
      BY <3>2 DEF JobColumns
    <3> HIDE DEF new
    <3>4. /\ \A f \in JobColumns : job'[j][f] = Written(job[j][f], old[f], new[f])
          /\ \A i \in Jid \ {j} : job'[i] = job[i]
      BY <1>5, <3>1, <3>3, JobSaved
    <3>5. old.title = job[j].title /\ old.link = job[j].link
      BY <1>5 DEF EventsHold
    <3>6. /\ job'[j].title = Written(job[j].title, old.title, new.title)
          /\ job'[j].link = Written(job[j].link, old.link, new.link)
      BY <3>4 DEF JobColumns
    <3>7. job[j].title \in {"default", job'[j].title} /\ job[j].link \in {None, job'[j].link}
      BY <3>3, <3>5, <3>6 DEF Written
    <3> QED BY <3>4, <3>7 DEF CuratedStays, Here
  <2> QED BY <2>1, <2>2, <2>3
<1> QED BY <1>2, <1>3, <1>4, <1>5

\* What people entered in a job stands against events, unless an event met an edit or
\* another event, which load the job before the other commits.
THEOREM HandworkStandsHolds == Spec => HandworkStands
<1> DEFINE Inv == Desk /\ IntakeTyped /\ EventsHold
           Stands == \A r \in Req : pc'[r] # pc[r] => CuratedStays(r)
<1>1. Init => Inv
  <2>1. Init => EventsHold
    BY DEF Init, DeskInit, EventsHold
  <2> QED BY <2>1, DeskStarts, IntakeStarts
<1>2. ASSUME Inv, [Next]_vars PROVE Inv' /\ Stands
  <2>1. Desk' /\ IntakeStep
    BY <1>2, Steps
  <2>2. CASE UNCHANGED intakeVars /\ Elsewhere(IntakeLabels)
    <3>1. IntakeTyped'
      BY <1>2, <2>2, IntakeElsewhere
    <3>2. EventsHold'
      BY <1>2, <2>2 DEF EventsHold, Elsewhere, Undisturbed, Met, intakeVars, IntakeLabels
    <3>3. \A r \in Req : CuratedStays(r)
      BY <2>2 DEF CuratedStays, intakeVars
    <3> QED BY <2>1, <3>1, <3>2, <3>3
  <2>3. ASSUME NEW r \in Req, IntakeNext(r), Acts(r, IntakeLabels)
        PROVE  Inv' /\ Stands
    <3>1. IntakeTyped' /\ EventsHold' /\ CuratedStays(r)
      BY <1>2, <2>3, IntakeEffects, EventsHoldOn, CuratedKept DEF Effects
    <3>2. \A q \in Req : pc'[q] # pc[q] => q = r
      BY <2>3 DEF Acts
    <3> QED BY <2>1, <3>1, <3>2
  <2> QED BY <2>1, <2>2, <2>3 DEF IntakeStep
<1>3. Inv /\ [Next]_vars => Inv'
  BY <1>2
<1>4. Inv /\ [Next]_vars => [Stands]_vars
  BY <1>2
<1> QED BY <1>1, <1>3, <1>4, PTL DEF Spec, HandworkStands

-----------------------------------------------------------------------------
(***************************************************************************)
(* Companies.  A domain is held once, and by a deleted company for good,   *)
(* unless somebody changes that company who had loaded it before.          *)
(***************************************************************************)
FirmColumns == {"state", "domain", "enriched"}

FirmRows ==
    /\ DOMAIN firm = Fid /\ \A f \in Fid : /\ DOMAIN firm[f] = FirmColumns
                                          /\ firm[f].state \in {"free", "live", "deleted"}
    /\ \A f, g \in Fid :
          /\ firm[f].state # "free" /\ firm[g].state # "free"
          /\ firm[f].domain = firm[g].domain /\ firm[f].domain # None
          => f = g
FirmSession(at, l, rows) ==
    at = "change_firm" =>
        /\ l.firm \in Fid /\ rows[l.firm].state # "free"
        /\ DOMAIN l.row = FirmColumns /\ l.row.state = "live"
        /\ DOMAIN l.change \subseteq FirmColumns
        /\ "state" \in DOMAIN l.change => l.change["state"] = "deleted"
FirmsTyped == FirmRows /\ \A r \in Req : FirmSession(pc[r], loc[r], firm)

\* A deleted company holds the domain, and nobody is about to change it.
HolderGone(d) ==
    /\ d # None
    /\ \E f \in Fid : /\ firm[f].state = "deleted" /\ firm[f].domain = d
                      /\ \A r \in Req : pc[r] = "change_firm" => loc[r].firm # f

\* No lookup finds such a domain, and no insert of it succeeds.
LEMMA GoneIsHeld ==
  ASSUME FirmsTyped, NEW d, HolderGone(d)
  PROVE  Holders(d) # {} /\ d \notin Known
BY DEF FirmsTyped, FirmRows, HolderGone, Holders, Known, LiveFirms

\* The other sessions, when rows stay that are there.
LEMMA FirmSessionsKept ==
  ASSUME FirmsTyped, NEW r \in Req, \A q \in Req \ {r} : pc'[q] = pc[q] /\ loc'[q] = loc[q],
         FirmRows', FirmSession(pc'[r], loc'[r], firm'),
         \A f \in Fid : firm[f].state # "free" => firm'[f].state # "free"
  PROVE  FirmsTyped'
<1> SUFFICES ASSUME NEW q \in Req PROVE FirmSession(pc'[q], loc'[q], firm')
  BY DEF FirmsTyped
<1> QED BY DEF FirmsTyped, FirmSession

\* A free row takes a domain that nobody holds.
LEMMA FirmInserted ==
  ASSUME FirmsTyped, NEW d, Holders(d) = {}, InsertFirm(d)
  PROVE  /\ FirmRows'
         /\ \A f \in Fid : firm[f].state # "free" => firm'[f] = firm[f]
<1> DEFINE free == {f \in Fid : firm[f].state = "free"}
           n == Min(free)
           row == [NoFirm EXCEPT !.state = "live", !.domain = d]
<1>1. free # {} /\ firm' = [firm EXCEPT ![n] = row]
  BY DEF InsertFirm
<1>2. n \in Fid /\ firm[n].state = "free"
  <2>1. free \subseteq Nat
    BY FirmAssumption
  <2>2. n \in free
    BY <1>1, <2>1, Smallest
  <2> QED BY <2>2
<1>3. DOMAIN row = FirmColumns /\ row.state = "live" /\ row.domain = d
  BY DEF NoFirm, FirmColumns
<1> HIDE DEF n, row, free
<1>4. DOMAIN firm' = Fid /\ firm'[n] = row /\ \A f \in Fid \ {n} : firm'[f] = firm[f]
  BY <1>1, <1>2 DEF FirmsTyped, FirmRows
<1>5. \A f \in Fid : firm[f].state # "free" => firm'[f] = firm[f]
  BY <1>2, <1>4
<1>6. \A f \in Fid \ {n} : firm[f].state # "free" /\ d # None => firm[f].domain # d
  BY DEF Holders
<1>7. \A f \in Fid : DOMAIN firm'[f] = FirmColumns /\ firm'[f].state \in {"free", "live", "deleted"}
  BY <1>3, <1>4 DEF FirmsTyped, FirmRows
<1>8. ASSUME NEW f \in Fid, NEW g \in Fid, firm'[f].state # "free", firm'[g].state # "free",
             firm'[f].domain = firm'[g].domain, firm'[f].domain # None
      PROVE  f = g
  <2>1. CASE f # n /\ g # n
    BY <1>4, <1>8, <2>1 DEF FirmsTyped, FirmRows
  <2>2. CASE f = n \/ g = n
    BY <1>3, <1>4, <1>6, <1>8, <2>2
  <2> QED BY <2>1, <2>2
<1> QED BY <1>4, <1>5, <1>7, <1>8 DEF FirmRows

\* What a step does to companies.
FirmEffects(r) ==
    /\ FirmsTyped' /\ \A d : HolderGone(d) => HolderGone(d)'
    /\ Known' = Known \/ pc[r] \in {"create_firm", "change_firm", "contact", "add_firm"}

\* A step that at most inserts a company, under a domain that nobody holds,
\* keeps the companies in order.
LEMMA FirmAdds ==
  ASSUME FirmsTyped, NEW r \in Req, Acts(r, IntakeLabels),
         pc[r] \in {"create_firm", "contact", "add_firm"}, pc'[r] # "change_firm",
         UNCHANGED firm \/ \E d : Holders(d) = {} /\ InsertFirm(d)
  PROVE  FirmEffects(r)
<1>1. /\ FirmRows'
      /\ \A f \in Fid : firm[f].state # "free" => firm'[f] = firm[f]
  <2>1. CASE UNCHANGED firm
    BY <2>1 DEF FirmsTyped, FirmRows
  <2>2. CASE \E d : Holders(d) = {} /\ InsertFirm(d)
    BY <2>2, FirmInserted
  <2> QED BY <2>1, <2>2
<1>2. \A q \in Req \ {r} : pc'[q] = pc[q] /\ loc'[q] = loc[q]
  BY DEF Acts
<1>3. FirmSession(pc'[r], loc'[r], firm')
  BY DEF FirmSession
<1>4. FirmsTyped'
  BY <1>1, <1>2, <1>3, FirmSessionsKept
<1>5. ASSUME NEW d, HolderGone(d) PROVE HolderGone(d)'
  <2>1. PICK f \in Fid : /\ firm[f].state = "deleted" /\ firm[f].domain = d
                         /\ \A q \in Req : pc[q] = "change_firm" => loc[q].firm # f
    BY <1>5 DEF HolderGone
  <2>2. firm'[f] = firm[f]
    BY <1>1, <2>1
  <2>3. \A q \in Req : pc'[q] = "change_firm" => loc'[q].firm # f
    BY <1>2, <2>1
  <2> QED BY <1>5, <2>1, <2>2, <2>3 DEF HolderGone
<1> QED BY <1>4, <1>5 DEF FirmEffects

\* Requests that leave the companies alone, the load of one included.
LEMMA FirmReads ==
  ASSUME FirmsTyped, NEW r \in Req, Acts(r, IntakeLabels), UNCHANGED firm,
         pc'[r] = "change_firm" => /\ FirmSession(pc'[r], loc'[r], firm)
                                   /\ loc'[r].firm \in LiveFirms
  PROVE  FirmEffects(r)
<1>1. FirmRows' /\ Known' = Known
  BY DEF FirmsTyped, FirmRows, Known, LiveFirms
<1>2. \A q \in Req \ {r} : pc'[q] = pc[q] /\ loc'[q] = loc[q]
  BY DEF Acts
<1>3. FirmSession(pc'[r], loc'[r], firm')
  BY DEF FirmSession
<1>4. FirmsTyped'
  BY <1>1, <1>2, <1>3, FirmSessionsKept
<1>5. ASSUME NEW d, HolderGone(d) PROVE HolderGone(d)'
  <2>1. PICK f \in Fid : /\ firm[f].state = "deleted" /\ firm[f].domain = d
                         /\ \A q \in Req : pc[q] = "change_firm" => loc[q].firm # f
    BY <1>5 DEF HolderGone
  <2>2. \A q \in Req : pc'[q] = "change_firm" => loc'[q].firm # f
    BY <1>2, <2>1 DEF LiveFirms
  <2> QED BY <1>5, <2>1, <2>2 DEF HolderGone
<1> QED BY <1>1, <1>4, <1>5 DEF FirmEffects

\* The commit of a change: of one row that is there, to a domain that no other holds.
LEMMA FirmChanged ==
  ASSUME Desk, FirmsTyped, NEW r \in Req, Acts(r, IntakeLabels), CommitFirmChange(r)
  PROVE  FirmEffects(r)
<1> DEFINE f == loc[r].firm
           old == loc[r].row
           change == loc[r].change
           set == With(old, change)
           new == WrittenRow(firm[f], old, set)
<1>1. /\ pc[r] = "change_firm" /\ pc'[r] \in Over
      /\ \/ UNCHANGED firm
         \/ Holders(new.domain) \subseteq {f} /\ firm' = [firm EXCEPT ![f] = new]
  BY DEF CommitFirmChange, Finish, Broken, Goto, Desk, Placed, Over
<1>2. /\ f \in Fid /\ firm[f].state # "free"
      /\ DOMAIN old = FirmColumns /\ old.state = "live"
      /\ DOMAIN change \subseteq FirmColumns
      /\ "state" \in DOMAIN change => change["state"] = "deleted"
  BY <1>1 DEF FirmsTyped, FirmSession
<1>3. CASE UNCHANGED firm
  BY <1>1, <1>3, FirmReads DEF Over
<1>4. CASE Holders(new.domain) \subseteq {f} /\ firm' = [firm EXCEPT ![f] = new]
  <2>1. DOMAIN set = FirmColumns /\ set["state"] \in {"live", "deleted"}
    <3>1. DOMAIN old \cup DOMAIN change = FirmColumns /\ "state" \in FirmColumns
      BY <1>2 DEF FirmColumns
    <3>2. set = [c \in FirmColumns |-> IF c \in DOMAIN change THEN change[c] ELSE old[c]]
      BY <3>1 DEF With
    <3> HIDE DEF set
    <3>3. old["state"] = "live"
      BY <1>2
    <3> QED BY <1>2, <3>1, <3>2, <3>3
  <2>2. /\ firm[f].state \in {"live", "deleted"} /\ DOMAIN firm[f] = FirmColumns
    BY <1>2 DEF FirmsTyped, FirmRows
  <2> HIDE DEF set, f, change
  <2>3. /\ DOMAIN new = FirmColumns
        /\ \A c \in FirmColumns : new[c] = Written(firm[f][c], old[c], set[c])
    BY <2>2 DEF WrittenRow
  <2>4. new.state \in {"live", "deleted"}
    BY <1>2, <2>1, <2>2, <2>3 DEF FirmColumns, Written
  <2> HIDE DEF new
  <2>5. DOMAIN firm' = Fid /\ firm'[f] = new /\ \A g \in Fid \ {f} : firm'[g] = firm[g]
    BY <1>2, <1>4 DEF FirmsTyped, FirmRows
  <2>6. \A g \in Fid \ {f} : firm[g].state # "free" /\ new.domain # None =>
           firm[g].domain # new.domain
    BY <1>4 DEF Holders
  <2>7. \A g \in Fid : DOMAIN firm'[g] = FirmColumns /\ firm'[g].state \in {"free", "live", "deleted"}
    BY <2>3, <2>4, <2>5 DEF FirmsTyped, FirmRows
  <2>8. ASSUME NEW g \in Fid, NEW h \in Fid, firm'[g].state # "free", firm'[h].state # "free",
               firm'[g].domain = firm'[h].domain, firm'[g].domain # None
        PROVE  g = h
    <3>1. CASE g # f /\ h # f
      BY <2>5, <2>8, <3>1 DEF FirmsTyped, FirmRows
    <3>2. CASE g = f \/ h = f
      BY <2>5, <2>6, <2>8, <3>2
    <3> QED BY <3>1, <3>2
  <2>9. FirmRows'
    BY <2>5, <2>7, <2>8 DEF FirmRows
  <2>10. \A q \in Req \ {r} : pc'[q] = pc[q] /\ loc'[q] = loc[q]
    BY DEF Acts
  <2>11. FirmSession(pc'[r], loc'[r], firm')
    BY <1>1 DEF FirmSession, Over
  <2>12. FirmsTyped'
    <3>1. \A g \in Fid : firm[g].state # "free" => firm'[g].state # "free"
      BY <2>4, <2>5
    <3> QED BY <2>9, <2>10, <2>11, <3>1, FirmSessionsKept
  <2>13. ASSUME NEW d, HolderGone(d) PROVE HolderGone(d)'
    <3>1. PICK g \in Fid : /\ firm[g].state = "deleted" /\ firm[g].domain = d
                           /\ \A q \in Req : pc[q] = "change_firm" => loc[q].firm # g
      BY <2>13 DEF HolderGone
    <3>2. firm'[g] = firm[g]
      BY <1>1, <2>5, <3>1 DEF f
    <3>3. \A q \in Req : pc'[q] = "change_firm" => loc'[q].firm # g
      BY <1>1, <2>10, <3>1 DEF Over
    <3> QED BY <2>13, <3>1, <3>2, <3>3 DEF HolderGone
  <2> QED BY <1>1, <2>12, <2>13 DEF FirmEffects
<1> QED BY <1>1, <1>3, <1>4

\* Every step on companies, whoever takes it.
LEMMA FirmsKept ==
  ASSUME Desk, FirmsTyped, NEW r \in Req, Acts(r, IntakeLabels), IntakeNext(r)
  PROVE  FirmEffects(r)
<1>1. ASSUME UNCHANGED firm, pc'[r] # "change_firm" PROVE FirmEffects(r)
  BY <1>1, FirmReads
<1>2. CASE CompaniesNext(r)
  <2>1. CASE CreateFirm(r) \/ StartApollo(r) \/ ApolloDone(r)
    BY <1>1, <2>1 DEF CreateFirm, StartApollo, ApolloDone, Launch, Finish, Goto, Desk, Placed
  <2>2. CASE CommitFirm(r)
    <3>1. /\ pc[r] = "create_firm" /\ pc'[r] # "change_firm"
          /\ UNCHANGED firm \/ \E d : Holders(d) = {} /\ InsertFirm(d)
      BY <2>2 DEF CommitFirm, Finish, Broken, Goto, Desk, Placed
    <3> QED BY <3>1, FirmAdds
  <2>3. CASE ChangeFirm(r)
    <3>1. PICK f \in LiveFirms, change \in FirmChanges \cup {[enriched |-> TRUE], [state |-> "deleted"]} :
             Launch(r, "change_firm",
                    [op |-> "firm", firm |-> f, row |-> firm[f], change |-> change])
      BY <2>3 DEF ChangeFirm
    <3>2. /\ UNCHANGED firm /\ pc'[r] = "change_firm" /\ loc'[r].firm = f
          /\ loc'[r].row = firm[f] /\ loc'[r].change = change
      BY <2>3, <3>1 DEF ChangeFirm, Launch, Desk, Placed
    <3>3. /\ DOMAIN change \subseteq FirmColumns
          /\ "state" \in DOMAIN change => change["state"] = "deleted"
      <4>1. CASE change \in FirmChanges
        BY <4>1, FirmAssumption DEF FirmColumns
      <4>2. CASE change = [enriched |-> TRUE] \/ change = [state |-> "deleted"]
        BY <4>2 DEF FirmColumns
      <4> QED BY <4>1, <4>2
    <3>4. f \in Fid /\ firm[f].state = "live" /\ DOMAIN firm[f] = FirmColumns
      BY DEF LiveFirms, FirmsTyped, FirmRows
    <3>5. FirmSession(pc'[r], loc'[r], firm)
      BY <3>2, <3>3, <3>4 DEF FirmSession
    <3> QED BY <3>1, <3>2, <3>5, FirmReads
  <2>4. CASE SyncContact(r)
    <3>1. /\ pc[r] = "contact" /\ pc'[r] # "change_firm"
          /\ UNCHANGED firm \/ \E d : Holders(d) = {} /\ InsertFirm(d)
      BY <2>4 DEF SyncContact, Pulled, Goto, Desk, Placed
    <3> QED BY <3>1, FirmAdds
  <2> QED BY <1>2, <2>1, <2>2, <2>3, <2>4, FirmChanged DEF CompaniesNext
<1>3. CASE AddFirm(r)
  <2>1. /\ pc[r] = "add_firm" /\ pc'[r] # "change_firm"
        /\ UNCHANGED firm \/ \E d : Holders(d) = {} /\ InsertFirm(d)
    BY <1>3 DEF AddFirm, Looked, Goto, Desk, Placed
  <2> QED BY <2>1, FirmAdds
<1>4. CASE \/ PushJob(r) \/ RecordEvent(r) \/ InsertJob(r) \/ PatchJob(r)
           \/ MarkEvent(r) \/ FailEvent(r) \/ EventFault(r)
  BY <1>1, <1>4 DEF PushJob, RecordEvent, Looked, InsertJob, PatchJob, MarkEvent, FailEvent,
     EventFault, Mark, Launch, Goto, Finish, Broken, Desk, Placed, intakeVars
<1>5. CASE CreateJob(r) \/ CommitJob(r) \/ EditJob(r) \/ CommitChanges(r) \/ Bump(r)
  BY <1>1, <1>5 DEF CreateJob, CommitJob, EditJob, CommitChanges, Bump,
     Launch, Goto, Finish, Broken, Desk, Placed, intakeVars
<1>6. CASE \/ Propose(r) \/ CommitCandidate(r) \/ Withdraw(r) \/ CommitWithdrawal(r)
           \/ ReadCount(r) \/ MoveCandidate(r) \/ CommitStatus(r)
  BY <1>1, <1>6 DEF Propose, CommitCandidate, Withdraw, CommitWithdrawal, ReadCount,
     MoveCandidate, CommitStatus, Launch, Goto, Finish, Desk, Placed, intakeVars
<1> QED BY <1>2, <1>3, <1>4, <1>5, <1>6 DEF IntakeNext

-----------------------------------------------------------------------------
(***************************************************************************)
(* Events.  Wherever the work on an event stands, it is bound for a job,   *)
(* or for a failure that has its excuse.                                   *)
(***************************************************************************)
PublishLabels ==
    {"record", "refuse", "add_firm", "add_job", "patch_job", "processed", "failed"}

MetFirms == Met("publish", "publish") \/ Met("publish", "firm") \/ Met("publish", "apollo")
MetJobs == Met("publish", "publish") \/ Met("publish", "make")

InboxTyped ==
    /\ inbox \in [DOMAIN Events -> {"none", "received", "processed", "failed"}]
    /\ faults \in Nat
    /\ \A r \in Req : pc[r] \in PublishLabels => loc[r].key \in DOMAIN Events

\* Why an event may fail.
Excused(e) == e.company = None \/ faults > 0 \/ MetFirms \/ HolderGone(e.company)

\* What a request that works on an event knows of it.
EventAt(r) ==
    LET e == Events[loc[r].key] IN
    /\ pc[r] = "refuse" => e.company = None
    /\ pc[r] = "add_firm" => MetFirms \/ (e.company # None /\ e.company \notin Known)
    /\ pc[r] = "failed" => Excused(e)
    /\ pc[r] = "add_job" => MetJobs \/ ~ExtTaken(e.ext)
    /\ pc[r] = "patch_job" => loc[r].job \in Published(e.ext)
    /\ pc[r] = "processed" => Published(e.ext) # {}

\* What became of an event.
Landed(k) ==
    /\ inbox[k] = "processed" => Published(Events[k].ext) # {}
    /\ inbox[k] = "failed" => Excused(Events[k])
    /\ inbox[k] = "received" =>
          \/ MetJobs \/ "publish" \in died
          \/ \E r \in Req : pc[r] \in PublishLabels \ {"record"} /\ loc[r].key = k

EventsAt == \A r \in Req : EventAt(r)
EventsLanded == \A k \in DOMAIN Events : Landed(k)
EventInv == InboxTyped /\ EventsAt /\ EventsLanded

\* What any step keeps of the grounds on which events land.
Onwards ==
    /\ \A x : Published(x) \subseteq Published(x)'
    /\ MetFirms => MetFirms'
    /\ MetJobs => MetJobs'
    /\ \A d : HolderGone(d) => HolderGone(d)'
    /\ faults > 0 => faults' > 0
    /\ died \subseteq died'

\* A step of the job intake takes back nothing that an event's failure rests
\* on.
LEMMA OnwardsHere ==
  ASSUME Desk, IntakeTyped, FirmsTyped, InboxTyped, NEW r \in Req, Acts(r, IntakeLabels),
         IntakeNext(r)
  PROVE  Onwards
<1>1. JobsStay(r) /\ FirmEffects(r)
  BY IntakeEffects, FirmsKept DEF Effects
<1>2. \A x : Published(x) \subseteq Published(x)'
  BY <1>1 DEF JobsStay, Published
<1>3. met \subseteq met' /\ died \subseteq died'
  BY DEF Acts
<1>4. (MetFirms => MetFirms') /\ (MetJobs => MetJobs')
  BY <1>3 DEF MetFirms, MetJobs, Met
<1>5. faults' = faults \/ faults' = faults + 1
  BY DEF IntakeNext, PushJob, RecordEvent, AddFirm, InsertJob, PatchJob, MarkEvent, FailEvent,
     Mark, EventFault, CreateJob, CommitJob, EditJob, CommitChanges, Propose, CommitCandidate,
     Bump, Withdraw, CommitWithdrawal, ReadCount, MoveCandidate, CommitStatus, intakeVars
<1>6. faults > 0 => faults' > 0
  BY <1>5 DEF InboxTyped
<1> QED BY <1>1, <1>2, <1>3, <1>4, <1>6 DEF Onwards, FirmEffects

\* Nor does a step of anybody else.
LEMMA OnwardsElsewhere ==
  ASSUME UNCHANGED intakeVars, Elsewhere(IntakeLabels)
  PROVE  Onwards
<1>1. UNCHANGED <<job, candidate, firm, inbox, faults>>
  BY DEF intakeVars
<1>2. \A x : Published(x)' = Published(x)
  BY <1>1 DEF Published, Here
<1>3. (MetFirms => MetFirms') /\ (MetJobs => MetJobs') /\ died \subseteq died'
  BY DEF MetFirms, MetJobs, Met, Elsewhere
<1>4. ASSUME NEW d, HolderGone(d) PROVE HolderGone(d)'
  <2>1. \A q \in Req : pc'[q] = "change_firm" => pc[q] = "change_firm" /\ loc'[q] = loc[q]
    BY DEF Elsewhere, IntakeLabels
  <2> QED BY <1>1, <1>4, <2>1 DEF HolderGone
<1> QED BY <1>1, <1>2, <1>3, <1>4 DEF Onwards

\* A request that stays where it is keeps its grounds.
LEMMA EventAtStays ==
  ASSUME Onwards, NEW q \in Req, EventAt(q), pc'[q] = pc[q], loc'[q] = loc[q],
         pc[q] = "add_firm" => MetFirms \/ Known' = Known,
         pc[q] = "add_job" => MetJobs \/ \A x : ExtTaken(x)' => ExtTaken(x)
  PROVE  EventAt(q)'
<1>1. \A e : Excused(e) => Excused(e)'
  BY DEF Onwards, Excused
<1> QED BY <1>1 DEF EventAt, Onwards

\* The others work on their events next to r, whoever r is.
LEMMA EventsBeside ==
  ASSUME Desk, IntakeTyped, FirmsTyped, EventInv, NEW r \in Req, Acts(r, IntakeLabels),
         IntakeNext(r), NEW q \in Req \ {r}
  PROVE  EventAt(q)'
<1>1. /\ Onwards /\ JobsStay(r) /\ JobsMade(r) /\ FirmEffects(r)
      /\ pc'[q] = pc[q] /\ loc'[q] = loc[q] /\ EventAt(q)
  BY OnwardsHere, IntakeEffects, FirmsKept DEF Effects, EventInv, EventsAt, Acts
<1>2. ASSUME pc[q] \in {"add_firm", "add_job"}, pc[r] \in IntakeLabels
      PROVE  Met("publish", loc[r].op)
  <2>1. q \in Active /\ r \in Active /\ loc[q].op = "publish"
    BY <1>2, LabelsApart DEF Active, Over, Desk, IntakeKinds, IntakeKind
  <2> QED BY <2>1 DEF Desk, Noticed
<1>3. pc[q] = "add_firm" => MetFirms \/ Known' = Known
  <2>1. CASE pc[r] \in {"create_firm", "change_firm", "contact", "add_firm"}
    <3>1. loc[r].op \in {"firm", "apollo", "publish"} /\ pc[r] \in IntakeLabels
      BY <2>1 DEF Desk, IntakeKinds, IntakeKind, IntakeLabels
    <3> QED BY <1>2, <3>1 DEF MetFirms
  <2> QED BY <1>1, <2>1 DEF FirmEffects
<1>4. pc[q] = "add_job" => MetJobs \/ \A x : ExtTaken(x)' => ExtTaken(x)
  <2>1. CASE pc[r] \in {"add_job", "create_job"}
    <3>1. loc[r].op \in {"make", "publish"} /\ pc[r] \in IntakeLabels
      BY <2>1 DEF Desk, IntakeKinds, IntakeKind, IntakeLabels
    <3> QED BY <1>2, <3>1 DEF MetJobs
  <2>2. CASE pc[r] \notin {"add_job", "create_job"}
    <3>1. Here' = Here /\ \A j \in Here : job'[j].ext = job[j].ext
      BY <1>1, <2>2 DEF JobsStay, JobsMade
    <3> QED BY <3>1 DEF ExtTaken
  <2> QED BY <2>1, <2>2
<1> QED BY <1>1, <1>3, <1>4, EventAtStays

\* The lookup of the job knows what it finds.
LEMMA LookedAt ==
  ASSUME Desk, IntakeTyped, NEW r \in Req, Looked(r), UNCHANGED job
  PROVE  /\ pc'[r] \in {"add_job", "patch_job"} /\ loc'[r].key = loc[r].key
         /\ EventAt(r)'
<1> DEFINE e == Events[loc[r].key]
           session(j) == [op |-> "publish", key |-> loc[r].key, job |-> j,
                          row |-> IF j = None THEN NoJob ELSE job[j]]
<1>3. \A x : Published(x)' = Published(x) /\ ExtTaken(x)' = ExtTaken(x)
  BY DEF Published, ExtTaken, Here
<1>1. CASE Published(e.ext) = {}
  <2>1. pc'[r] = "add_job" /\ loc'[r] = session(None)
    BY <1>1 DEF Looked, Goto, Desk, Placed
  <2>2. loc'[r].key = loc[r].key
    BY <2>1
  <2>3. ~ExtTaken(e.ext)
    BY <1>1 DEF Published, ExtTaken
  <2> QED BY <1>3, <2>1, <2>2, <2>3 DEF EventAt
<1>2. CASE Published(e.ext) # {}
  <2>1. PICK j \in Published(e.ext) : Goto(r, "patch_job", session(j))
    BY <1>2 DEF Looked
  <2>2. pc'[r] = "patch_job" /\ loc'[r] = session(j)
    BY <2>1 DEF Goto, Desk, Placed
  <2>3. loc'[r].key = loc[r].key /\ loc'[r].job = j
    BY <2>2
  <2> QED BY <1>3, <2>1, <2>2, <2>3 DEF EventAt
<1> QED BY <1>1, <1>2

\* What became of the other events, and of this one as long as r stays with it.
LEMMA LandedStays ==
  ASSUME Onwards, EventInv, NEW k \in DOMAIN Events, inbox'[k] = inbox[k],
         NEW r \in Req, \A q \in Req \ {r} : pc'[q] = pc[q] /\ loc'[q] = loc[q],
         pc[r] \in PublishLabels \ {"record"} /\ loc[r].key = k =>
            \/ pc'[r] \in PublishLabels \ {"record"} /\ loc'[r].key = k
            \/ MetJobs' \/ inbox[k] # "received"
  PROVE  Landed(k)'
<1>1. \A e : Excused(e) => Excused(e)'
  BY DEF Onwards, Excused
<1>2. Landed(k)
  BY DEF EventInv, EventsLanded
<1>3. inbox'[k] = "received" =>
          \/ MetJobs' \/ "publish" \in died'
          \/ \E q \in Req : pc'[q] \in PublishLabels \ {"record"} /\ loc'[q].key = k
  <2> SUFFICES ASSUME inbox[k] = "received", ~MetJobs', "publish" \notin died'
               PROVE  \E q \in Req : pc'[q] \in PublishLabels \ {"record"} /\ loc'[q].key = k
    OBVIOUS
  <2>1. ~MetJobs /\ "publish" \notin died
    BY DEF Onwards
  <2>2. PICK q \in Req : pc[q] \in PublishLabels \ {"record"} /\ loc[q].key = k
    BY <1>2, <2>1 DEF Landed
  <2>3. CASE q = r
    BY <2>2, <2>3
  <2>4. CASE q # r
    BY <2>2, <2>4
  <2> QED BY <2>3, <2>4
<1> QED BY <1>1, <1>2, <1>3 DEF Landed, Onwards

\* A step of r that keeps the grounds, if it lands its own event.
LEMMA EventStep ==
  ASSUME Desk, IntakeTyped, FirmsTyped, EventInv, NEW r \in Req, Acts(r, IntakeLabels),
         IntakeNext(r),
         inbox' \in [DOMAIN Events -> {"none", "received", "processed", "failed"}],
         faults' \in Nat,
         pc'[r] \in PublishLabels => loc'[r].key \in DOMAIN Events,
         EventAt(r)',
         \A k \in DOMAIN Events : Landed(k)'
  PROVE  EventInv'
<1>1. \A q \in Req \ {r} : EventAt(q)'
  BY EventsBeside
<1>2. InboxTyped'
  BY DEF InboxTyped, EventInv, Acts
<1>3. EventsAt' /\ EventsLanded'
  BY <1>1 DEF EventsAt, EventsLanded
<1> QED BY <1>2, <1>3 DEF EventInv

\* Requests that have no event in hand.
LEMMA NoEventStep ==
  ASSUME Desk, IntakeTyped, FirmsTyped, EventInv, NEW r \in Req, Acts(r, IntakeLabels),
         IntakeNext(r), UNCHANGED <<inbox, faults>>,
         pc[r] \notin PublishLabels \ {"record"}, pc'[r] \notin PublishLabels
  PROVE  EventInv'
<1>1. Onwards
  BY OnwardsHere DEF EventInv
<1>2. \A q \in Req \ {r} : pc'[q] = pc[q] /\ loc'[q] = loc[q]
  BY DEF Acts
<1>3. \A k \in DOMAIN Events : Landed(k)'
  BY <1>1, <1>2, LandedStays
<1>4. EventAt(r)'
  BY DEF EventAt, PublishLabels
<1> QED BY <1>3, <1>4, EventStep DEF EventInv, InboxTyped

\* A request that stays with its event and leaves the inbox alone.
LEMMA SameEventStep ==
  ASSUME Desk, IntakeTyped, FirmsTyped, EventInv, NEW r \in Req, Acts(r, IntakeLabels),
         IntakeNext(r), UNCHANGED inbox, faults' \in Nat,
         pc[r] \in PublishLabels, pc'[r] \in PublishLabels \ {"record"},
         loc'[r].key = loc[r].key, EventAt(r)'
  PROVE  EventInv'
<1>1. Onwards
  BY OnwardsHere DEF EventInv
<1>2. \A q \in Req \ {r} : pc'[q] = pc[q] /\ loc'[q] = loc[q]
  BY DEF Acts
<1>3. \A k \in DOMAIN Events : Landed(k)'
  BY <1>1, <1>2, LandedStays
<1> QED BY <1>3, EventStep DEF EventInv, InboxTyped

\* A request that sets what became of its event.
LEMMA MarkedStep ==
  ASSUME Desk, IntakeTyped, FirmsTyped, EventInv, NEW r \in Req, Acts(r, IntakeLabels),
         IntakeNext(r), UNCHANGED faults,
         NEW k \in DOMAIN Events, k = loc[r].key,
         NEW status \in {"received", "processed", "failed"},
         inbox' = [inbox EXCEPT ![k] = status],
         pc'[r] \in PublishLabels => loc'[r].key = k,
         EventAt(r)', Landed(k)'
  PROVE  EventInv'
<1>1. Onwards
  BY OnwardsHere DEF EventInv
<1>2. \A q \in Req \ {r} : pc'[q] = pc[q] /\ loc'[q] = loc[q]
  BY DEF Acts
<1>3. inbox' \in [DOMAIN Events -> {"none", "received", "processed", "failed"}]
  BY DEF EventInv, InboxTyped
<1>4. \A h \in DOMAIN Events \ {k} : Landed(h)'
  <2>1. \A h \in DOMAIN Events \ {k} : inbox'[h] = inbox[h] /\ loc[r].key # h
    BY DEF EventInv, InboxTyped
  <2> QED BY <1>1, <1>2, <2>1, LandedStays
<1>5. \A h \in DOMAIN Events : Landed(h)'
  BY <1>4
<1> QED BY <1>3, <1>5, EventStep DEF EventInv, InboxTyped

\* The steps of an event.
LEMMA EventsKept ==
  ASSUME Desk, IntakeTyped, FirmsTyped, EventInv, NEW r \in Req, Acts(r, IntakeLabels),
         IntakeNext(r)
  PROVE  EventInv'
<1>1. /\ Onwards /\ EventAt(r)
      /\ pc[r] \in PublishLabels => loc[r].key \in DOMAIN Events /\ loc[r].op = "publish"
      /\ \A f : Excused(f) => Excused(f)'
  <2>1. Onwards
    BY OnwardsHere DEF EventInv
  <2>2. \A f : Excused(f) => Excused(f)'
    BY <2>1 DEF Onwards, Excused
  <2> QED BY <2>1, <2>2 DEF EventInv, EventsAt, InboxTyped, Desk, IntakeKinds, IntakeKind, PublishLabels
<1> DEFINE k == loc[r].key
           e == Events[k]
<1>2. CASE PushJob(r)
  <2>1. PICK h \in DOMAIN Events :
          Launch(r, "record", [op |-> "publish", key |-> h, seen |-> inbox[h], job |-> None])
    BY <1>2 DEF PushJob
  <2>2. /\ UNCHANGED <<inbox, faults>> /\ pc[r] = "idle" /\ pc'[r] = "record" /\ loc'[r].key = h
    BY <1>2, <2>1 DEF PushJob, Launch, intakeVars, Desk, Placed
  <2>3. \A q \in Req \ {r} : pc'[q] = pc[q] /\ loc'[q] = loc[q]
    BY DEF Acts
  <2>4. \A g \in DOMAIN Events : Landed(g)'
    BY <1>1, <2>2, <2>3, LandedStays DEF PublishLabels
  <2>5. EventAt(r)'
    BY <2>2 DEF EventAt
  <2> QED BY <2>2, <2>4, <2>5, EventStep DEF EventInv, InboxTyped
<1>3. CASE RecordEvent(r)
  <2>1. pc[r] = "record" /\ UNCHANGED <<job, firm, faults>>
    BY <1>3 DEF RecordEvent
  <2>2. CASE Broken(r) /\ UNCHANGED inbox
    <3>1. pc'[r] = "error"
      BY <2>2 DEF Broken, Goto, Desk, Placed
    <3> QED BY <2>1, <2>2, <3>1, NoEventStep DEF PublishLabels
  <2>3. ASSUME inbox' = [inbox EXCEPT ![k] = "received"],
               \/ e.company = None /\ Goto(r, "refuse", loc[r])
               \/ e.company \in Known /\ Looked(r)
               \/ e.company \notin Known \cup {None} /\ Goto(r, "add_firm", loc[r])
        PROVE  EventInv'
    <3>1. /\ pc'[r] \in PublishLabels \ {"record"} /\ loc'[r].key = k
          /\ EventAt(r)'
      <4>1. CASE e.company = None /\ Goto(r, "refuse", loc[r])
        <5>1. pc'[r] = "refuse" /\ loc'[r] = loc[r]
          BY <4>1 DEF Goto, Desk, Placed
        <5> QED BY <4>1, <5>1 DEF EventAt, PublishLabels
      <4>2. CASE Looked(r)
        BY <2>1, <4>2, LookedAt DEF PublishLabels
      <4>3. CASE e.company \notin Known \cup {None} /\ Goto(r, "add_firm", loc[r])
        <5>1. pc'[r] = "add_firm" /\ loc'[r] = loc[r] /\ Known' = Known
          BY <2>1, <4>3 DEF Goto, Desk, Placed, Known, LiveFirms
        <5> QED BY <4>3, <5>1 DEF EventAt, PublishLabels
      <4> QED BY <2>3, <4>1, <4>2, <4>3
    <3>2. PICK h \in DOMAIN Events : h = k
      BY <1>1, <2>1 DEF PublishLabels
    <3>3. inbox'[h] = "received"
      BY <2>3, <3>2 DEF EventInv, InboxTyped
    <3>4. Landed(h)'
      BY <3>1, <3>2, <3>3 DEF Landed
    <3> QED BY <2>1, <2>3, <3>1, <3>2, <3>4, MarkedStep
  <2> QED BY <1>3, <2>2, <2>3 DEF RecordEvent
<1>4. CASE AddFirm(r)
  <2>1. pc[r] = "add_firm" /\ UNCHANGED <<job, inbox, faults>>
    BY <1>4 DEF AddFirm
  <2>2. CASE Holders(e.company) # {} /\ Goto(r, "failed", loc[r]) /\ UNCHANGED firm
    <3>1. Excused(e)
      <4> SUFFICES ASSUME ~MetFirms PROVE HolderGone(e.company)
        BY DEF Excused
      <4>1. e.company # None /\ e.company \notin Known
        BY <1>1, <2>1 DEF EventAt
      <4>2. PICK f \in Fid : firm[f].state # "free" /\ firm[f].domain = e.company
        BY <2>2 DEF Holders
      <4>3. firm[f].state = "deleted"
        BY <4>1, <4>2 DEF Known, LiveFirms, FirmsTyped, FirmRows
      <4>4. ASSUME NEW q \in Req, pc[q] = "change_firm" PROVE FALSE
        <5>1. q # r /\ q \in Active /\ r \in Active /\ loc[q].op = "firm" /\ loc[r].op = "publish"
          BY <2>1, <4>4 DEF Active, Over, Desk, IntakeKinds, IntakeKind
        <5>2. Met("publish", "firm")
          BY <5>1 DEF Desk, Noticed
        <5> QED BY <5>2 DEF MetFirms
      <4> QED BY <4>1, <4>2, <4>3, <4>4 DEF HolderGone
    <3>2. pc'[r] = "failed" /\ loc'[r] = loc[r]
      BY <2>2 DEF Goto, Desk, Placed
    <3>3. \A x : Excused(x) => Excused(x)'
      BY <1>1
    <3>4. EventAt(r)'
      BY <3>1, <3>2, <3>3 DEF EventAt
    <3> QED BY <2>1, <3>2, <3>4, SameEventStep DEF PublishLabels, EventInv, InboxTyped
  <2>3. CASE Looked(r)
    <3>1. pc'[r] \in {"add_job", "patch_job"} /\ loc'[r].key = k /\ EventAt(r)'
      BY <2>1, <2>3, LookedAt
    <3> QED BY <2>1, <3>1, SameEventStep DEF PublishLabels, EventInv, InboxTyped
  <2> QED BY <1>4, <2>2, <2>3 DEF AddFirm
<1>5. CASE InsertJob(r)
  <2>1. pc[r] = "add_job" /\ UNCHANGED <<inbox, faults>>
    BY <1>5 DEF InsertJob
  <2>2. CASE ExtTaken(e.ext) /\ Broken(r)
    <3>1. MetJobs'
      BY <1>1, <2>1, <2>2 DEF EventAt, Onwards
    <3>2. pc'[r] = "error"
      BY <2>2 DEF Broken, Goto, Desk, Placed
    <3>3. \A q \in Req \ {r} : pc'[q] = pc[q] /\ loc'[q] = loc[q]
      BY DEF Acts
    <3>4. \A g \in DOMAIN Events : Landed(g)'
      BY <1>1, <2>1, <3>1, <3>3, LandedStays
    <3>5. EventAt(r)'
      BY <3>2 DEF EventAt
    <3> QED BY <2>1, <3>2, <3>4, <3>5, EventStep DEF EventInv, InboxTyped, PublishLabels
  <2>3. CASE AddJob(e) /\ Goto(r, "processed", loc[r])
    <3>1. pc'[r] = "processed" /\ loc'[r] = loc[r]
      BY <2>3 DEF Goto, Desk, Placed
    <3>2. PICK j \in Jid \ Here : Here' = Here \cup {j} /\ job'[j].ext = e.ext
      BY <2>1, <2>3, JobAdded
    <3>3. EventAt(r)'
      BY <3>1, <3>2 DEF EventAt, Published
    <3> QED BY <2>1, <3>1, <3>3, SameEventStep DEF PublishLabels, EventInv, InboxTyped
  <2> QED BY <1>5, <2>2, <2>3 DEF InsertJob
<1>6. CASE PatchJob(r)
  <2>1. /\ pc[r] = "patch_job" /\ UNCHANGED <<inbox, faults>>
        /\ pc'[r] = "processed" /\ loc'[r] = loc[r]
    BY <1>6 DEF PatchJob, Goto, Desk, Placed
  <2>2. EventAt(r)'
    BY <1>1, <2>1 DEF EventAt, Onwards
  <2> QED BY <2>1, <2>2, SameEventStep DEF PublishLabels, EventInv, InboxTyped
<1>7. CASE MarkEvent(r)
  <2>1. /\ pc[r] = "processed" /\ inbox' = [inbox EXCEPT ![k] = "processed"]
        /\ UNCHANGED faults /\ pc'[r] = "done"
    BY <1>7 DEF MarkEvent, Mark, Finish, Goto, Desk, Placed
  <2>2. PICK h \in DOMAIN Events : h = k
    BY <1>1, <2>1 DEF PublishLabels
  <2>3. inbox'[h] = "processed"
    BY <2>1, <2>2 DEF EventInv, InboxTyped
  <2>4. Landed(h)'
    BY <1>1, <2>1, <2>2, <2>3 DEF Landed, EventAt, Onwards
  <2>5. EventAt(r)'
    BY <2>1 DEF EventAt
  <2> QED BY <2>1, <2>2, <2>4, <2>5, MarkedStep DEF PublishLabels
<1>8. CASE FailEvent(r)
  <2>1. /\ pc[r] \in {"refuse", "failed"} /\ inbox' = [inbox EXCEPT ![k] = "failed"]
        /\ UNCHANGED faults /\ pc'[r] = "done"
    BY <1>8 DEF FailEvent, Mark, Finish, Goto, Desk, Placed
  <2>2. PICK h \in DOMAIN Events : h = k
    BY <1>1, <2>1 DEF PublishLabels
  <2>3. inbox'[h] = "failed"
    BY <2>1, <2>2 DEF EventInv, InboxTyped
  <2>4. Excused(Events[h])
    BY <1>1, <2>1, <2>2 DEF EventAt, Excused
  <2>5. Landed(h)'
    BY <1>1, <2>3, <2>4 DEF Landed
  <2>6. EventAt(r)'
    BY <2>1 DEF EventAt
  <2> QED BY <2>1, <2>2, <2>5, <2>6, MarkedStep DEF PublishLabels
<1>9. CASE EventFault(r)
  <2>1. /\ pc[r] \in {"add_firm", "add_job", "patch_job", "processed"}
        /\ UNCHANGED inbox /\ faults' = faults + 1 /\ pc'[r] = "failed" /\ loc'[r] = loc[r]
    BY <1>9 DEF EventFault, Goto, Desk, Placed
  <2>2. faults' \in Nat /\ faults' > 0
    BY <2>1 DEF EventInv, InboxTyped
  <2>3. EventAt(r)'
    BY <2>1, <2>2 DEF EventAt, Excused
  <2> QED BY <2>1, <2>2, <2>3, SameEventStep DEF PublishLabels
<1>10. CASE CreateJob(r) \/ CommitJob(r) \/ EditJob(r) \/ CommitChanges(r) \/ Bump(r)
  <2>1. /\ UNCHANGED <<inbox, faults>> /\ pc'[r] \in {"create_job", "edit_job"} \cup Over
        /\ pc[r] \in {"idle", "create_job", "edit_job", "bump"}
    BY <1>10 DEF CreateJob, CommitJob, EditJob, CommitChanges, Bump,
       Launch, Goto, Finish, Broken, Desk, Placed, intakeVars, Over
  <2> QED BY <2>1, NoEventStep DEF PublishLabels, Over
<1>11. CASE \/ Propose(r) \/ CommitCandidate(r) \/ Withdraw(r) \/ CommitWithdrawal(r)
            \/ ReadCount(r) \/ MoveCandidate(r) \/ CommitStatus(r)
  <2>1. /\ UNCHANGED <<inbox, faults>>
        /\ pc'[r] \in {"add_candidate", "bump", "drop_candidate", "count", "move_candidate"} \cup Over
        /\ pc[r] \in {"idle", "add_candidate", "drop_candidate", "count", "move_candidate"}
    BY <1>11 DEF Propose, CommitCandidate, Withdraw, CommitWithdrawal, ReadCount,
       MoveCandidate, CommitStatus, Launch, Goto, Finish, Desk, Placed, intakeVars, Over
  <2> QED BY <2>1, NoEventStep DEF PublishLabels, Over
<1>12. CASE CompaniesNext(r) /\ UNCHANGED <<job, candidate, inbox, faults>>
  <2>1. /\ UNCHANGED <<inbox, faults>>
        /\ pc'[r] \in {"create_firm", "change_firm", "contact"} \cup Over
        /\ pc[r] \in {"idle", "create_firm", "change_firm", "contact"}
    BY <1>12 DEF CompaniesNext, CreateFirm, CommitFirm, ChangeFirm, CommitFirmChange,
       StartApollo, SyncContact, Pulled, ApolloDone, Launch, Goto, Finish, Broken, Desk,
       Placed, Over
  <2> QED BY <2>1, NoEventStep DEF PublishLabels, Over
<1> QED
  BY <1>2, <1>3, <1>4, <1>5, <1>6, <1>7, <1>8, <1>9, <1>10, <1>11, <1>12 DEF IntakeNext

\* Elsewhere events stay where they are, but for one whose request dies.
LEMMA EventsElsewhere ==
  ASSUME Desk, FirmsTyped, EventInv, UNCHANGED intakeVars, Elsewhere(IntakeLabels)
  PROVE  FirmsTyped' /\ EventInv'
<1>1. Onwards /\ UNCHANGED <<job, firm, inbox, faults>>
  BY OnwardsElsewhere DEF intakeVars
<1>2. \A q \in Req : pc'[q] \in IntakeLabels => pc'[q] = pc[q] /\ loc'[q] = loc[q]
  BY DEF Elsewhere
<1>3. FirmsTyped'
  BY <1>1, <1>2 DEF FirmsTyped, FirmRows, FirmSession, IntakeLabels
<1>4. InboxTyped'
  BY <1>1, <1>2 DEF EventInv, InboxTyped, PublishLabels, IntakeLabels
<1>5. ASSUME NEW q \in Req PROVE EventAt(q)'
  <2>1. Known' = Known /\ \A x : ExtTaken(x)' => ExtTaken(x)
    BY <1>1 DEF Known, LiveFirms, ExtTaken, Here
  <2>2. CASE pc'[q] \in IntakeLabels
    BY <1>1, <1>2, <2>1, <2>2, EventAtStays DEF EventInv, EventsAt
  <2>3. CASE pc'[q] \notin IntakeLabels
    BY <2>3 DEF EventAt, IntakeLabels
  <2> QED BY <2>2, <2>3
<1>6. ASSUME NEW k \in DOMAIN Events PROVE Landed(k)'
  <2>1. Landed(k) /\ \A f : Excused(f) => Excused(f)'
    BY <1>1 DEF EventInv, EventsLanded, Onwards, Excused
  <2>2. ASSUME NEW q \in Req, pc[q] \in PublishLabels \ {"record"}, loc[q].key = k
        PROVE  \/ "publish" \in died'
               \/ pc'[q] \in PublishLabels \ {"record"} /\ loc'[q].key = k
    <3>1. pc[q] \in IntakeLabels /\ loc[q].op = "publish"
      BY <2>2 DEF PublishLabels, IntakeLabels, Desk, IntakeKinds, IntakeKind
    <3> QED BY <2>2, <3>1 DEF Elsewhere
  <2> QED BY <1>1, <2>1, <2>2 DEF Landed, Onwards
<1> QED BY <1>3, <1>4, <1>5, <1>6 DEF EventInv, EventsAt, EventsLanded

\* Before the first event.
LEMMA EventsStart == Init => FirmsTyped /\ EventInv
<1> SUFFICES ASSUME Init PROVE FirmsTyped /\ EventInv
  OBVIOUS
<1>1. /\ firm = Firms /\ inbox = [k \in DOMAIN Events |-> "none"] /\ faults = 0
      /\ \A r \in Req : pc[r] = "idle"
  BY DEF Init, IntakeInit, DeskInit
<1>2. DOMAIN NoFirm = FirmColumns
  BY DEF NoFirm, FirmColumns
<1>3. FirmsTyped
  BY <1>1, <1>2, FirmsAssumption DEF FirmsTyped, FirmRows, FirmSession
<1>4. InboxTyped
  BY <1>1 DEF InboxTyped, PublishLabels
<1>5. EventsAt /\ EventsLanded
  BY <1>1 DEF EventsAt, EventAt, EventsLanded, Landed
<1> QED BY <1>3, <1>4, <1>5 DEF EventInv

\* An event that nobody works on has its job, or the excuse that the board shows.
THEOREM EventsLandHolds == Spec => []EventsLand
<1> DEFINE Inv == Desk /\ IntakeTyped /\ FirmsTyped /\ EventInv
<1>1. Init => Inv
  BY DeskStarts, IntakeStarts, EventsStart
<1>2. Inv /\ [Next]_vars => Inv'
  <2> SUFFICES ASSUME Inv, [Next]_vars PROVE Inv'
    OBVIOUS
  <2>1. Desk' /\ IntakeStep
    BY Steps
  <2>2. CASE UNCHANGED intakeVars /\ Elsewhere(IntakeLabels)
    BY <2>1, <2>2, IntakeElsewhere, EventsElsewhere
  <2>3. ASSUME NEW r \in Req, IntakeNext(r), Acts(r, IntakeLabels) PROVE Inv'
    BY <2>1, <2>3, IntakeEffects, FirmsKept, EventsKept DEF Effects, FirmEffects
  <2> QED BY <2>1, <2>2, <2>3 DEF IntakeStep
<1>3. Inv => EventsLand
  <2> SUFFICES ASSUME Inv, NEW k \in DOMAIN Events
               PROVE  \/ \E r \in Active : loc[r].op = "publish" /\ loc[r].key = k
                      \/ inbox[k] = "none"
                      \/ inbox[k] = "processed" /\ Published(Events[k].ext) # {}
                      \/ /\ inbox[k] = "failed"
                         /\ \/ Events[k].company = None \/ faults > 0 \/ MetFirms
                            \/ Holders(Events[k].company) # {} /\ Events[k].company \notin Known
                      \/ inbox[k] = "received" /\ ("publish" \in died \/ MetJobs)
    BY DEF EventsLand, MetFirms, MetJobs
  <2>1. inbox[k] \in {"none", "received", "processed", "failed"} /\ Landed(k)
    BY DEF EventInv, InboxTyped, EventsLanded
  <2>2. \A r \in Req : pc[r] \in PublishLabels => r \in Active /\ loc[r].op = "publish"
    BY DEF Active, Over, PublishLabels, Desk, IntakeKinds, IntakeKind
  <2> QED BY <2>1, <2>2, GoneIsHeld DEF Landed, Excused
<1> QED BY <1>1, <1>2, <1>3, PTL DEF Spec

-----------------------------------------------------------------------------
(***************************************************************************)
(* The count of candidates.  A request that adds or drops one and meets no *)
(* other works on the count that stands, from the candidate's commit to    *)
(* the count's.                                                            *)
(***************************************************************************)
CountLabels == {"add_candidate", "drop_candidate", "count", "bump"}
OneByOne ==
    \A a, b \in {"add", "drop"} : ~Met(a, b) /\ a \notin died

\* The candidates of a job in a table of candidates.
Of(rows, j) == {c \in Cid : rows[c].state = "live" /\ rows[c].job = j}

CountInv ==
    OneByOne =>
        /\ \A r \in Req : pc[r] = "drop_candidate" => candidate[loc[r].candidate].state = "live"
        /\ \A r \in Req : pc[r] = "count" =>
              job[loc[r].job].prepared = Cardinality(Of(candidate, loc[r].job)) + 1
        /\ \A r \in Req : pc[r] = "bump" =>
              /\ loc[r].row.prepared = job[loc[r].job].prepared
              /\ loc[r].row.prepared + loc[r].step = Cardinality(Of(candidate, loc[r].job))
        /\ \A j \in Here :
              \/ \E r \in Req : pc[r] \in {"count", "bump"} /\ loc[r].job = j
              \/ job[j].prepared = Cardinality(Of(candidate, j))

\* Requests that meet nobody of their kind are alone.
LEMMA CountsAlone ==
  ASSUME Desk, OneByOne, NEW q \in Req, NEW r \in Req,
         pc[q] \in CountLabels, pc[r] \in CountLabels
  PROVE  q = r
<1>1. /\ q \in Active /\ r \in Active
      /\ loc[q].op \in {"add", "drop"} /\ loc[r].op \in {"add", "drop"}
  BY DEF Desk, IntakeKinds, IntakeKind, Active, Over, CountLabels
<1> QED BY <1>1 DEF Desk, Noticed, OneByOne

\* How many candidates a job has, when one comes or goes.
LEMMA OfCount ==
  ASSUME NEW rows, NEW j
  PROVE  /\ IsFiniteSet(Of(rows, j)) /\ Cardinality(Of(rows, j)) \in Nat
         /\ \A c \in Cid : c \notin Of(rows, j) =>
               Cardinality(Of(rows, j) \cup {c}) = Cardinality(Of(rows, j)) + 1
         /\ \A c \in Cid : c \in Of(rows, j) =>
               Cardinality(Of(rows, j) \ {c}) = Cardinality(Of(rows, j)) - 1
<1>1. Of(rows, j) \subseteq Cid
  BY DEF Of
<1>2. IsFiniteSet(Of(rows, j))
  BY <1>1, IntakeAssumption, FS_Subset
<1> HIDE DEF Of
<1> QED BY <1>2, FS_CardinalityType, FS_AddElement, FS_RemoveElement

\* Who begins to count has done nothing yet.
LEMMA CountBegins ==
  ASSUME Desk, NEW r \in Req, IntakeNext(r), pc[r] \notin CountLabels, pc'[r] \in CountLabels
  PROVE  /\ UNCHANGED <<job, candidate>> /\ pc'[r] \notin {"count", "bump"}
         /\ pc'[r] = "drop_candidate" => candidate[loc'[r].candidate].state = "live"
<1>1. ~(\/ PushJob(r) \/ InsertJob(r) \/ PatchJob(r) \/ MarkEvent(r) \/ FailEvent(r)
        \/ EventFault(r))
  BY DEF PushJob, InsertJob, PatchJob, MarkEvent, FailEvent, EventFault, Mark,
         Launch, Goto, Finish, Broken, Desk, Placed, CountLabels
<1>2. ~RecordEvent(r) /\ ~AddFirm(r)
  BY DEF RecordEvent, AddFirm, Looked, Launch, Goto, Finish, Broken, Desk, Placed, CountLabels
<1>3. ~(CreateJob(r) \/ CommitJob(r) \/ EditJob(r) \/ CommitChanges(r) \/ Bump(r))
  BY DEF CreateJob, CommitJob, EditJob, CommitChanges, Bump,
         Launch, Goto, Finish, Broken, Desk, Placed, CountLabels
<1>4. ~(CommitCandidate(r) \/ CommitWithdrawal(r) \/ ReadCount(r) \/ CommitStatus(r))
  BY DEF CommitCandidate, CommitWithdrawal, ReadCount, CommitStatus,
         Finish, Goto, Desk, Placed, CountLabels
<1>5. ~MoveCandidate(r)
  BY DEF MoveCandidate, Launch, Desk, Placed, CountLabels
<1>6. ~CompaniesNext(r)
  BY DEF CompaniesNext, CreateFirm, CommitFirm, ChangeFirm, CommitFirmChange,
         StartApollo, SyncContact, Pulled, ApolloDone,
         Launch, Goto, Finish, Broken, Desk, Placed, CountLabels
<1>7. CASE Propose(r)
  BY <1>7 DEF Propose, Launch, Desk, Placed, intakeVars
<1>8. CASE Withdraw(r)
  <2>1. PICK c \in Proposed :
          Launch(r, "drop_candidate", [op |-> "drop", candidate |-> c, row |-> candidate[c],
                                       job |-> candidate[c].job])
    BY <1>8 DEF Withdraw
  <2>2. pc'[r] = "drop_candidate" /\ loc'[r].candidate = c
    BY <2>1 DEF Launch, Desk, Placed
  <2> QED BY <1>8, <2>2 DEF Withdraw, Proposed, intakeVars
<1> QED BY <1>1, <1>2, <1>3, <1>4, <1>5, <1>6, <1>7, <1>8 DEF IntakeNext

\* A step of a request that does not count leaves every count right.
LEMMA CountedBeside ==
  ASSUME Desk, IntakeTyped, CountInv, NEW r \in Req, Acts(r, IntakeLabels), IntakeNext(r),
         pc[r] \notin CountLabels
  PROVE  CountInv'
<1> SUFFICES ASSUME OneByOne'
             PROVE  /\ \A q \in Req : pc'[q] = "drop_candidate" =>
                          candidate'[loc'[q].candidate].state = "live"
                    /\ \A q \in Req : pc'[q] = "count" =>
                          job'[loc'[q].job].prepared = Cardinality(Of(candidate', loc'[q].job)) + 1
                    /\ \A q \in Req : pc'[q] = "bump" =>
                          /\ loc'[q].row.prepared = job'[loc'[q].job].prepared
                          /\ loc'[q].row.prepared + loc'[q].step
                                = Cardinality(Of(candidate', loc'[q].job))
                    /\ \A j \in Here' :
                          \/ \E q \in Req : pc'[q] \in {"count", "bump"} /\ loc'[q].job = j
                          \/ job'[j].prepared = Cardinality(Of(candidate', j))
  BY DEF CountInv
<1>1. OneByOne /\ Effects(r)
  BY IntakeEffects DEF OneByOne, Met, Acts
<1>2. /\ pc'[r] \in CountLabels => UNCHANGED <<job, candidate>> /\ pc'[r] \notin {"count", "bump"}
      /\ pc'[r] = "drop_candidate" => candidate[loc'[r].candidate].state = "live"
  BY CountBegins DEF CountLabels
<1>3. \A q \in Req : pc'[q] \in CountLabels =>
         \/ q = r
         \/ pc'[q] = pc[q] /\ loc'[q] = loc[q]
  BY DEF Acts
<1>4. \A j : Of(candidate', j) = Of(candidate, j)
  <2>1. \A c \in Cid : candidate'[c].state = "live" <=> candidate[c].state = "live"
    BY <1>1 DEF Effects, CandidatesStay, Proposed, CountLabels
  <2>2. \A c \in Cid : candidate[c].state = "live" => candidate'[c].job = candidate[c].job
    BY <1>1 DEF Effects, CandidatesStay
  <2> QED BY <2>1, <2>2 DEF Of
<1>5. \A j \in Here : j \in Here' /\ job'[j].prepared = job[j].prepared
  BY <1>1 DEF Effects, JobsStay, CountLabels
<1>6. \A j \in Here' \ Here : job'[j].prepared = 0 /\ Cardinality(Of(candidate, j)) = 0
  <2>1. \A j \in Here' \ Here : Of(candidate, j) = {}
    BY DEF IntakeTyped, RowsTyped, Proposed, Of
  <2> QED BY <1>1, <2>1, FS_EmptySet DEF Effects, JobsMade
<1>7. ASSUME NEW q \in Req, pc'[q] \in {"count", "bump"}
      PROVE  q # r /\ pc'[q] = pc[q] /\ loc'[q] = loc[q] /\ loc[q].job \in Here
  <2>1. q # r
    BY <1>2, <1>7 DEF CountLabels
  <2> QED BY <1>3, <1>7, <2>1 DEF CountLabels, IntakeTyped, SessionsTyped, SessionTyped
<1>8. ASSUME NEW q \in Req, pc'[q] = "drop_candidate"
      PROVE  candidate'[loc'[q].candidate].state = "live"
  <2>1. CASE q = r
    BY <1>2, <1>8, <2>1 DEF CountLabels
  <2>2. CASE q # r
    <3>1. /\ pc[q] = "drop_candidate" /\ loc'[q] = loc[q] /\ loc[q].candidate \in Cid
          /\ candidate[loc[q].candidate].state = "live"
      BY <1>1, <1>3, <1>8, <2>2 DEF CountLabels, CountInv, IntakeTyped, SessionsTyped, SessionTyped
    <3> QED BY <1>1, <3>1 DEF Effects, CandidatesStay, Proposed, CountLabels
  <2> QED BY <2>1, <2>2
<1>9. ASSUME NEW j \in Here'
      PROVE  \/ \E q \in Req : pc'[q] \in {"count", "bump"} /\ loc'[q].job = j
             \/ job'[j].prepared = Cardinality(Of(candidate', j))
  <2>1. CASE j \notin Here
    BY <1>4, <1>6, <2>1
  <2>2. CASE j \in Here /\ job[j].prepared = Cardinality(Of(candidate, j))
    BY <1>4, <1>5, <2>2
  <2>3. ASSUME j \in Here, NEW q \in Req, pc[q] \in {"count", "bump"}, loc[q].job = j
        PROVE  pc'[q] \in {"count", "bump"} /\ loc'[q].job = j
    BY <2>3 DEF Acts, CountLabels
  <2> QED BY <1>1, <2>1, <2>2, <2>3 DEF CountInv
<1> QED BY <1>1, <1>4, <1>5, <1>7, <1>8, <1>9 DEF CountInv

\* A request that counts is alone, from the candidate's commit to the count's.
LEMMA CountedAlone ==
  ASSUME Desk, IntakeTyped, CountInv, NEW r \in Req, Acts(r, IntakeLabels), IntakeNext(r),
         pc[r] \in CountLabels
  PROVE  CountInv'
<1> DEFINE j == loc[r].job
<1> SUFFICES ASSUME OneByOne'
             PROVE  /\ \A q \in Req : pc'[q] = "drop_candidate" =>
                          candidate'[loc'[q].candidate].state = "live"
                    /\ \A q \in Req : pc'[q] = "count" =>
                          job'[loc'[q].job].prepared = Cardinality(Of(candidate', loc'[q].job)) + 1
                    /\ \A q \in Req : pc'[q] = "bump" =>
                          /\ loc'[q].row.prepared = job'[loc'[q].job].prepared
                          /\ loc'[q].row.prepared + loc'[q].step
                                = Cardinality(Of(candidate', loc'[q].job))
                    /\ \A i \in Here' :
                          \/ \E q \in Req : pc'[q] \in {"count", "bump"} /\ loc'[q].job = i
                          \/ job'[i].prepared = Cardinality(Of(candidate', i))
  BY DEF CountInv
<1>1. OneByOne
  BY DEF OneByOne, Met, Acts
<1>2. \A q \in Req \ {r} : pc'[q] \notin CountLabels
  <2>1. \A q \in Req \ {r} : pc[q] \notin CountLabels
    BY <1>1, CountsAlone
  <2> QED BY <2>1 DEF Acts
<1>3. j \in Here /\ j \in Jid
  BY DEF CountLabels, IntakeTyped, SessionsTyped, SessionTyped, Here
<1>4. \A i \in Here \ {j} : job[i].prepared = Cardinality(Of(candidate, i))
  <2>1. \A q \in Req : pc[q] \in {"count", "bump"} => loc[q].job = j
    BY <1>1, CountsAlone DEF CountLabels
  <2> QED BY <1>1, <2>1 DEF CountInv
<1>5. \/ CommitCandidate(r) \/ CommitWithdrawal(r) \/ ReadCount(r) \/ Bump(r)
  BY DEF CountLabels, IntakeNext, PushJob, RecordEvent, AddFirm, InsertJob, PatchJob,
     MarkEvent, FailEvent, EventFault, CreateJob, CommitJob, EditJob, CommitChanges, Propose,
     Withdraw, MoveCandidate, CommitStatus, CompaniesNext, CreateFirm, CommitFirm, ChangeFirm,
     CommitFirmChange, StartApollo, SyncContact, ApolloDone, Launch
<1>6. CASE CommitCandidate(r)
  <2> DEFINE free == {c \in Cid : candidate[c].state = "free"}
             new == Min(free)
             row == [NoCandidate EXCEPT !.state = "live", !.job = j]
             l == [op |-> "add", job |-> j, row |-> job[j], step |-> 1]
  <2>1. /\ pc[r] = "add_candidate" /\ free # {} /\ candidate' = [candidate EXCEPT ![new] = row]
        /\ pc'[r] = "bump" /\ loc'[r] = l /\ UNCHANGED job
    BY <1>6 DEF CommitCandidate, Goto, Desk, Placed
  <2>2. new \in Cid /\ candidate[new].state = "free"
    <3>1. free \subseteq Nat
      BY IntakeAssumption
    <3>2. new \in free
      BY <2>1, <3>1, Smallest
    <3> QED BY <3>2
  <2> HIDE DEF new, free
  <2>3. row.job = j /\ row.state = "live"
    BY DEF NoCandidate
  <2>4. candidate'[new] = row /\ \A c \in Cid \ {new} : candidate'[c] = candidate[c]
    BY <2>1, <2>2 DEF IntakeTyped, RowsTyped
  <2> HIDE DEF row, j
  <2>5. /\ new \notin Of(candidate, j)
        /\ Of(candidate', j) = Of(candidate, j) \cup {new}
        /\ \A i \in Here \ {j} : Of(candidate', i) = Of(candidate, i)
    BY <2>2, <2>3, <2>4 DEF Of
  <2>6. Cardinality(Of(candidate', j)) = Cardinality(Of(candidate, j)) + 1
    BY <2>2, <2>5, OfCount
  <2>7. job[j].prepared = Cardinality(Of(candidate, j))
    BY <1>1, <1>3, <2>1, CountsAlone DEF CountInv, CountLabels
  <2>8. loc'[r].job = j /\ loc'[r].row = job'[j] /\ loc'[r].step = 1
    BY <2>1
  <2>9. Here' = Here
    BY <2>1 DEF Here
  <2> HIDE DEF l
  <2>10. \A i \in Here' \ {j} : job'[i].prepared = Cardinality(Of(candidate', i))
    BY <1>4, <2>1, <2>5, <2>9
  <2> QED BY <1>2, <2>1, <2>6, <2>7, <2>8, <2>10 DEF CountLabels
<1>7. CASE CommitWithdrawal(r)
  <2> DEFINE c == loc[r].candidate
             new == [loc[r].row EXCEPT !.state = "deleted"]
  <2>1. /\ pc[r] = "drop_candidate" /\ SaveCandidate(r, new) /\ UNCHANGED job
        /\ pc'[r] = "count" /\ loc'[r] = loc[r]
    BY <1>7 DEF CommitWithdrawal, Goto, Desk, Placed
  <2>2. /\ DOMAIN loc[r].row = CandidateColumns /\ c \in Cid /\ candidate[c].job = j
        /\ candidate[c].state = "live"
    BY <1>1, <2>1 DEF IntakeTyped, SessionsTyped, SessionTyped, CountInv
  <2>3. DOMAIN new = CandidateColumns /\ new.job = loc[r].row.job /\ new.state = "deleted"
    BY <2>2 DEF CandidateColumns
  <2> HIDE DEF new, j
  <2>4. /\ \A b \in Cid \ {c} : candidate'[b] = candidate[b]
        /\ candidate'[c].state = "deleted"
    BY <2>1, <2>3, CandidateSaved
  <2>5. /\ c \in Of(candidate, j)
        /\ Of(candidate', j) = Of(candidate, j) \ {c}
        /\ \A i \in Here \ {j} : Of(candidate', i) = Of(candidate, i)
    BY <2>2, <2>4 DEF Of
  <2>6. /\ Cardinality(Of(candidate', j)) = Cardinality(Of(candidate, j)) - 1
        /\ Cardinality(Of(candidate, j)) \in Nat
    BY <2>2, <2>5, OfCount
  <2>7. job[j].prepared = Cardinality(Of(candidate, j))
    BY <1>1, <1>3, <2>1, CountsAlone DEF CountInv, CountLabels
  <2>8. Here' = Here /\ loc'[r].job = j
    BY <2>1 DEF Here, j
  <2>9. \A i \in Here' \ {j} : job'[i].prepared = Cardinality(Of(candidate', i))
    BY <1>4, <2>1, <2>5, <2>8
  <2> QED BY <1>2, <2>1, <2>6, <2>7, <2>8, <2>9 DEF CountLabels
<1>8. CASE ReadCount(r)
  <2> DEFINE l == [op |-> "drop", job |-> j, row |-> job[j], step |-> -1]
  <2>1. /\ pc[r] = "count" /\ UNCHANGED <<job, candidate>>
        /\ pc'[r] = "bump" /\ loc'[r] = l
    BY <1>8 DEF ReadCount, Goto, intakeVars, Desk, Placed
  <2>2. loc'[r].job = j /\ loc'[r].row = job'[j] /\ loc'[r].step = -1
    BY <2>1
  <2>3. job[j].prepared = Cardinality(Of(candidate, j)) + 1
    BY <1>1, <2>1 DEF CountInv
  <2> HIDE DEF l, j
  <2>4. Here' = Here /\ Of(candidate', j) = Of(candidate, j)
    BY <2>1 DEF Here
  <2>5. Cardinality(Of(candidate, j)) \in Nat
    BY OfCount
  <2>6. \A i \in Here' \ {j} : job'[i].prepared = Cardinality(Of(candidate', i))
    BY <1>4, <2>1, <2>4
  <2> QED BY <1>2, <2>1, <2>2, <2>3, <2>4, <2>5, <2>6 DEF CountLabels
<1>9. CASE Bump(r)
  <2> DEFINE old == loc[r].row
             count == old.prepared + loc[r].step
             most == IF count < 0 THEN 0 ELSE count
             new == [old EXCEPT !.prepared = most]
  <2>1. pc[r] = "bump" /\ UNCHANGED candidate /\ pc'[r] \in Over /\ SaveJob(r, new)
    BY <1>9 DEF Bump, Finish, Goto, Desk, Placed, Over
  <2>2. DOMAIN old = JobColumns /\ old.prepared \in Nat /\ loc[r].step \in {1, -1}
    BY <2>1 DEF IntakeTyped, SessionsTyped, SessionTyped
  <2>3. /\ old.prepared = job[j].prepared /\ count = Cardinality(Of(candidate, j))
        /\ Cardinality(Of(candidate, j)) \in Nat
    BY <1>1, <2>1, OfCount DEF CountInv
  <2>4. most = Cardinality(Of(candidate, j)) /\ most \in Nat
    BY <2>2, <2>3
  <2> HIDE DEF most
  <2>5. DOMAIN new = JobColumns /\ new.state = old.state /\ new.ext = old.ext
        /\ new.title = old.title /\ new.link = old.link /\ new.prepared = most
    BY <2>2 DEF JobColumns
  <2> HIDE DEF new
  <2>6. /\ Here' = Here /\ \A i \in Jid \ {j} : job'[i] = job[i]
        /\ \A f \in JobColumns : job'[j][f] = Written(job[j][f], old[f], new[f])
    BY <2>1, <2>4, <2>5, JobSaved
  <2>7. job'[j].prepared = most
    BY <2>3, <2>5, <2>6 DEF JobColumns, Written
  <2> HIDE DEF j
  <2>8. \A i \in Here' : job'[i].prepared = Cardinality(Of(candidate, i))
    BY <1>4, <2>4, <2>6, <2>7 DEF Here
  <2> QED BY <1>2, <2>1, <2>8 DEF CountLabels, Over
<1> QED BY <1>5, <1>6, <1>7, <1>8, <1>9

\* A death of one that counts spoils the count for good; another's does not touch it.
LEMMA CountElsewhere ==
  ASSUME Desk, IntakeTyped, CountInv, UNCHANGED intakeVars, Elsewhere(IntakeLabels)
  PROVE  CountInv'
<1> SUFFICES ASSUME OneByOne' PROVE CountInv'
  BY DEF CountInv
<1>1. OneByOne
  BY DEF OneByOne, Met, Elsewhere
<1>2. ASSUME NEW q \in Req
      PROVE  /\ pc'[q] \in CountLabels => pc'[q] = pc[q] /\ loc'[q] = loc[q]
             /\ pc[q] \in CountLabels => pc'[q] = pc[q] /\ loc'[q] = loc[q]
  <2>1. CountLabels \subseteq IntakeLabels
    BY DEF CountLabels, IntakeLabels
  <2>2. pc[q] \in CountLabels => loc[q].op \in {"add", "drop"}
    BY DEF CountLabels, Desk, IntakeKinds, IntakeKind
  <2>3. loc[q].op \in {"add", "drop"} => loc[q].op \notin died'
    BY DEF OneByOne
  <2> QED BY <2>1, <2>2, <2>3 DEF Elsewhere
<1>3. job' = job /\ candidate' = candidate /\ Here' = Here
  BY DEF intakeVars, Here
<1> QED BY <1>1, <1>2, <1>3 DEF CountInv, CountLabels

\* The tables that the behaviour starts from are counted right.
LEMMA CountStarts == Init => CountInv
<1> SUFFICES ASSUME Init PROVE CountInv
  OBVIOUS
<1>1. /\ job = Jobs /\ candidate = Candidates /\ \A r \in Req : pc[r] = "idle"
  BY DEF Init, IntakeInit, DeskInit
<1>2. \A j \in Here : job[j].prepared = Cardinality(Of(candidate, j))
  BY <1>1, TablesAssumption DEF Here, Of
<1> QED BY <1>1, <1>2 DEF CountInv

\* Once nobody adds or drops a candidate the count of a job is that of its candidates,
\* unless two who did met or one died.
THEOREM PreparedCountsHolds == Spec => []PreparedCounts
<1> DEFINE Inv == Desk /\ IntakeTyped /\ CountInv
<1>1. Init => Inv
  BY DeskStarts, IntakeStarts, CountStarts
<1>2. Inv /\ [Next]_vars => Inv'
  <2> SUFFICES ASSUME Inv, [Next]_vars PROVE Inv'
    OBVIOUS
  <2>1. Desk' /\ IntakeStep
    BY Steps
  <2>2. CASE UNCHANGED intakeVars /\ Elsewhere(IntakeLabels)
    BY <2>1, <2>2, IntakeElsewhere, CountElsewhere
  <2>3. ASSUME NEW r \in Req, IntakeNext(r), Acts(r, IntakeLabels) PROVE Inv'
    BY <2>1, <2>3, IntakeEffects, CountedBeside, CountedAlone DEF Effects
  <2> QED BY <2>1, <2>2, <2>3 DEF IntakeStep
<1>3. Inv => PreparedCounts
  <2> SUFFICES ASSUME Inv, OneByOne, \A r \in Active : loc[r].op \notin {"add", "drop"},
                      NEW j \in Here
               PROVE  job[j].prepared = Cardinality({c \in Proposed : candidate[c].job = j})
    BY DEF PreparedCounts, OneByOne
  <2>1. \A r \in Req : pc[r] \notin {"count", "bump"}
    BY DEF Active, Over, Desk, IntakeKinds, IntakeKind
  <2>2. {c \in Proposed : candidate[c].job = j} = Of(candidate, j)
    BY DEF Proposed, Of
  <2> QED BY <2>1, <2>2 DEF CountInv
<1> QED BY <1>1, <1>2, <1>3, PTL DEF Spec
=============================================================================
