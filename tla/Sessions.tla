------------------------------ MODULE Sessions ------------------------------
(***************************************************************************)
(* The requests of the API, and the jobs of the worker, as processes.      *)
(*                                                                         *)
(* Each is a chain of transactions with one database session.  Its reads   *)
(* come from the snapshot that its transaction opened, its writes are the  *)
(* columns that differ from what it loaded, and each CRUD method ends in a *)
(* commit.  Objects outlive a commit as they were (expire_on_commit=False).*)
(***************************************************************************)
EXTENDS Naturals, Sequences, FiniteSets, FiniteSetsExt, SequencesExt

CONSTANTS
    Req,          \* requests, each used once
    None,         \* SQL NULL
    MaxActive,    \* bound: requests under way at the same time
    MaxAborts     \* bound: requests that die between two commits

ASSUME SessionAssumption == MaxActive \in Nat /\ MaxAborts \in Nat

VARIABLES
    pc, loc,      \* where each request is and what its session holds
    aborts,       \* requests that died so far
    met,          \* history: the kinds of requests that were under way together
    died          \* history: the kinds of requests that died

desk == <<pc, loc, aborts, met, died>>

Idle == [op |-> None]
Over == {"idle", "done", "error"}
Active == {r \in Req : pc[r] \notin Over}

DeskInit ==
    /\ pc = [r \in Req |-> "idle"] /\ loc = [r \in Req |-> Idle]
    /\ aborts = 0 /\ met = {} /\ died = {}

\* The unit of work writes only columns whose value changed in the session.
Written(column, loaded, value) == IF loaded = value THEN column ELSE value
WrittenRow(row, loaded, new) ==
    [f \in DOMAIN row |-> Written(row[f], loaded[f], new[f])]

\* What was loaded, with other or more columns set.
With(loaded, set) ==
    [f \in DOMAIN loaded \cup DOMAIN set |-> IF f \in DOMAIN set THEN set[f] ELSE loaded[f]]

\* A request reads what it needs and goes on to its first write.
Launch(r, label, session) ==
    /\ pc[r] = "idle" /\ Cardinality(Active) < MaxActive
    /\ pc' = [pc EXCEPT ![r] = label]
    /\ loc' = [loc EXCEPT ![r] = session]
    /\ met' = met \cup {{session.op, loc[q].op} : q \in Active}
    /\ UNCHANGED <<aborts, died>>

Goto(r, label, session) ==
    /\ pc' = [pc EXCEPT ![r] = label]
    /\ loc' = [loc EXCEPT ![r] = session]
    /\ UNCHANGED <<aborts, met, died>>

Finish(r) == Goto(r, "done", Idle)
Broken(r) == Goto(r, "error", Idle)       \* answered with a 500

\* The process or its database connection dies between two commits.
Abort(r) ==
    /\ r \in Active /\ aborts < MaxAborts
    /\ aborts' = aborts + 1
    /\ died' = died \cup {loc[r].op}
    /\ pc' = [pc EXCEPT ![r] = "error"]
    /\ loc' = [loc EXCEPT ![r] = Idle]
    /\ UNCHANGED met

\* Met(a, b): a request of kind a and one of kind b were under way together.
Met(a, b) == {a, b} \in met
=============================================================================
