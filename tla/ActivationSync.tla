--------------------------- MODULE ActivationSync ---------------------------
(***************************************************************************)
(* What customers did on HH-BE: jobs and applicants of promoted leads.     *)
(*                                                                         *)
(* Once a day the worker loads all promoted leads and asks HH-BE about one *)
(* after the other; job events bring the number of jobs in between.  The   *)
(* rest of the events' handler is module InboundIngest.  Audit rows are    *)
(* left out.                                                               *)
(***************************************************************************)
EXTENDS Sessions

CONSTANTS
    Promoted,     \* live leads with an account on HH-BE
    MaxGrowth     \* bound: jobs and applicants of all accounts

ASSUME ActivationAssumption == IsFiniteSet(Promoted) /\ MaxGrowth \in Nat

VARIABLES
    account,      \* HH-BE: the jobs and applicants of each account
    milestone,    \* prospects: the counts, and whether the first of each is stamped
    alerts,       \* history: Telegram alerts sent for the first of each
    touched       \* history: leads that the last sync may have missed

activationVars == <<account, milestone, alerts, touched>>

Kind == {"job", "applicant"}
Nothing == [job |-> 0, applicant |-> 0]

ActivationInit ==
    /\ account = [p \in Promoted |-> Nothing]
    /\ milestone = [p \in Promoted |-> [count |-> Nothing, first |-> {}]]
    /\ alerts = [p \in Promoted |-> Nothing]
    /\ touched = {}

Syncs(r) == r \in Active /\ loc[r].op = "sync"

\* first: the kinds whose stamp is set; a stamp that is set stays.
Stored(row, seen, new) ==
    [count |-> WrittenRow(row.count, seen.count, new.count),
     first |-> row.first \cup (new.first \ seen.first)]

-----------------------------------------------------------------------------
\* A customer publishes a job or gets an applicant.
Grow ==
    \E p \in Promoted, k \in Kind :
        /\ FoldSet(LAMBDA q, n : n + account[q].job + account[q].applicant, 0, Promoted) < MaxGrowth
        /\ k = "applicant" => account[p].job > 0
        /\ account' = [account EXCEPT ![p][k] = @ + 1]
        /\ touched' = touched \cup {p}
        /\ UNCHANGED <<desk, milestone, alerts>>

\* A job event, which carries the number of jobs when it was raised.
JobEvent(r) ==
    \E p \in Promoted :
        \E n \in 1 .. account[p].job :
            /\ Launch(r, "job_event", [op |-> "told", lead |-> p, row |-> milestone[p], jobs |-> n])
            /\ touched' = touched \cup {p}
            /\ UNCHANGED <<account, milestone, alerts>>

\* set_first_job_created
StoreJobs(r) ==
    LET p == loc[r].lead
        old == loc[r].row
        new == [count |-> [old.count EXCEPT !.job = loc[r].jobs], first |-> old.first \cup {"job"}]
    IN /\ pc[r] = "job_event"
       /\ milestone' = [milestone EXCEPT ![p] = Stored(@, old, new)]
       /\ touched' = touched \cup {p}
       /\ Finish(r)
       /\ UNCHANGED <<account, alerts>>

-----------------------------------------------------------------------------
(***************************************************************************)
(* activation_sync.  The queue runs a cron job once at a time.             *)
(***************************************************************************)
StartSync(r) ==
    /\ \A q \in Req : ~Syncs(q)
    /\ Launch(r, "poll", [op |-> "sync", rows |-> milestone, todo |-> Promoted])
    /\ touched' = {loc[q].lead : q \in {e \in Active : loc[e].op = "told"}}
    /\ UNCHANGED <<account, milestone, alerts>>

\* HH-BE answers, or the call fails and the lead is passed over.
Poll(r) ==
    /\ pc[r] = "poll"
    /\ \E p \in loc[r].todo :
          LET left == [loc[r] EXCEPT !.todo = @ \ {p}] IN
          \/ Goto(r, "poll", left) /\ touched' = touched \cup {p}
          \/ /\ Goto(r, "store", With(left, [lead |-> p, got |-> account[p]]))
             /\ UNCHANGED touched
    /\ UNCHANGED <<account, milestone, alerts>>

Onward(r) == [op |-> "sync", rows |-> loc[r].rows, todo |-> loc[r].todo]

\* Mutant: the counts are committed only with a first activation.
StoreFirsts(r) ==
    LET p == loc[r].lead
        old == loc[r].rows[p]
        new == [count |-> loc[r].got, first |-> old.first \cup {k \in Kind : loc[r].got[k] > 0}]
        news == new.first \ old.first
    IN /\ pc[r] = "store"
       /\ IF news = {} THEN UNCHANGED milestone
          ELSE milestone' = [milestone EXCEPT ![p] = Stored(@, old, new)]
       /\ IF news = {} THEN Goto(r, "poll", Onward(r))
          ELSE Goto(r, "alert", With(Onward(r), [lead |-> p, news |-> news]))
       /\ UNCHANGED <<account, alerts, touched>>

\* Stamps that the loaded lead lacks, and counts that differ from the loaded ones.
Store(r) ==
    LET p == loc[r].lead
        old == loc[r].rows[p]
        new == [count |-> loc[r].got, first |-> old.first \cup {k \in Kind : loc[r].got[k] > 0}]
        news == new.first \ old.first
    IN /\ pc[r] = "store"
       /\ milestone' = [milestone EXCEPT ![p] = Stored(@, old, new)]
       /\ IF news = {} THEN Goto(r, "poll", Onward(r))
          ELSE Goto(r, "alert", With(Onward(r), [lead |-> p, news |-> news]))
       /\ UNCHANGED <<account, alerts, touched>>

\* The alerts are sent behind the commit.
Alert(r) ==
    /\ pc[r] = "alert"
    /\ alerts' = [alerts EXCEPT ![loc[r].lead] =
                     [k \in Kind |-> IF k \in loc[r].news THEN @[k] + 1 ELSE @[k]]]
    /\ Goto(r, "poll", Onward(r))
    /\ UNCHANGED <<account, milestone, touched>>

Synced(r) ==
    /\ pc[r] = "poll" /\ loc[r].todo = {}
    /\ Finish(r)
    /\ UNCHANGED activationVars

-----------------------------------------------------------------------------
ActivationNext(r) ==
    \/ JobEvent(r) \/ StoreJobs(r)
    \/ StartSync(r) \/ Poll(r) \/ Store(r) \/ Alert(r) \/ Synced(r)
=============================================================================
