------------------------- MODULE InboundIngestProofs -------------------------
(***************************************************************************)
(* What holds of the lead intake for every set of events, requests and     *)
(* prospects, and for any number of faults, crashes and deletions.         *)
(***************************************************************************)
EXTENDS InboundIngest, FiniteSetTheorems, TLAPS

\* The labels at which a session works on a prospect it has loaded or created.
Bound == InTry \ {"resolve", "create", "fail"}

\* A request that was pushed carries a key, and one that got past the lookups
\* has its prospect's id.
Placed ==
    \A r \in Req : /\ pc[r] # "idle" => key[r] \in Key
                   /\ pc[r] \in Bound => loc[r].pid \in Pid

Typed == TypeOK /\ Placed

\* The row of an id not handed out is well formed.
LEMMA UnusedTyped == Unused \in Row
  BY DEF Unused, Row

\* A session that has loaded nothing is well formed.
LEMMA UnloadedTyped ==
  ASSUME NEW status \in Statuses
  PROVE  Unloaded(status) \in Loc
  BY UnusedTyped DEF Unloaded, Loc

\* A session that has just loaded its prospect is well formed.
LEMMA LoadedTyped ==
  ASSUME Typed, NEW r \in Req, NEW p \in Pid, NEW status \in Statuses
  PROVE  Loaded(r, p, status) \in Loc
  BY DEF Typed, TypeOK, Loaded, Loc

\* Writing one column keeps a prospect a row.
LEMMA RowUpdates ==
  ASSUME NEW row \in Row, NEW n \in Nat, NEW k \in Key
  PROVE  /\ [row EXCEPT !.name = k] \in Row
         /\ [row EXCEPT !.company = Event[k].domain] \in Row
         /\ [row EXCEPT !.touch = n] \in Row
         /\ [row EXCEPT !.registered = TRUE] \in Row
         /\ [row EXCEPT !.uid = Event[k].uid] \in Row
         /\ [row EXCEPT !.state = "deleted"] \in Row
         /\ [row EXCEPT !.firstJob = TRUE, !.jobs = n] \in Row
  BY DEF Row, Uids, Domains

\* What the handler reads in an event is what events hold.
LEMMA EventTyped ==
  ASSUME NEW k \in Key
  PROVE  /\ Event[k].kind \in Kinds
         /\ Event[k].named \in BOOLEAN
         /\ Event[k].jobs \in Nat \ {0}
         /\ Event[k].email \in Emails
         /\ Event[k].uid \in Uids
         /\ Event[k].domain \in Domains
  BY EventAssumption DEF Emails, Uids, Domains

\* The tables and sessions are well formed at the start.
LEMMA TypedInit == Init => Typed
<1> SUFFICES ASSUME Init PROVE Typed
  OBVIOUS
<1>1. prospect \in [Pid -> Row] /\ loc \in [Req -> Loc]
  BY UnusedTyped, UnloadedTyped DEF Init, Statuses
<1>2. pc \in [Req -> {"idle"} \cup Outside \cup InTry \cup Over] /\ Placed
  BY DEF Init, Placed, Bound, InTry
<1> QED BY <1>1, <1>2 DEF Init, Typed, TypeOK, Statuses, CompanyStates

\* Every transaction of the handler keeps the tables and sessions well formed.
LEMMA TypedStep ==
  ASSUME Typed, NEW r \in Req, Step(r)
  PROVE  Typed'
<1>k. key[r] \in Key
  BY DEF Step, Typed, Placed, Lookup, Insert, Reset, Resolve, Create, Enrich, Refresh,
         CompanyUpsert, Resnap, AttachCompany, Touch, SetRegistered,
         SetFirstJobCreated, SetThhUserId, AddSignup, MarkProcessed, MarkFailed
<1>e. /\ Ev(r).kind \in Kinds /\ Ev(r).jobs \in Nat /\ Ev(r).email \in Emails
      /\ Ev(r).uid \in Uids /\ Ev(r).domain \in Domains
  BY <1>k, EventTyped DEF Ev
<1>1. CASE Lookup(r)
  BY <1>1 DEF Typed, TypeOK, Placed, Bound, Lookup, Goto, tables, faults, history,
              Outside, InTry, Over, Answered
<1>2. CASE Insert(r)
  BY <1>2 DEF Typed, TypeOK, Placed, Bound, Insert, Goto, tables, faults, history,
              Outside, InTry, Over, Answered, Statuses
<1>3. CASE Reset(r)
  BY <1>3 DEF Typed, TypeOK, Placed, Bound, Reset, Goto, tables, faults, history,
              Outside, InTry, Over, Answered, Statuses
<1>4. CASE Resolve(r)
  <2>1. delivery[key[r]] \in Statuses
    BY <1>k DEF Typed, TypeOK
  <2>2. loc' \in [Req -> Loc]
    <3>1. /\ Unloaded(delivery[key[r]]) \in Loc /\ Unloaded("absent") \in Loc
          /\ \A p \in Pid : Loaded(r, p, delivery[key[r]]) \in Loc
      BY <2>1, UnloadedTyped, LoadedTyped DEF Statuses
    <3>2. Matches(r) \subseteq Pid
      BY DEF Matches, ByUid, ByEmail
    <3> QED BY <1>4, <3>1, <3>2 DEF Resolve, Finish, Typed, TypeOK
  <2>3. /\ pc' \in [Req -> {"idle"} \cup Outside \cup InTry \cup Over]
        /\ Placed'
    <3>1. Matches(r) \subseteq Pid
      BY DEF Matches, ByUid, ByEmail
    <3>2. \A p, w : Loaded(r, p, w).pid = p
      BY DEF Loaded
    <3> QED BY <1>4, <1>k, <3>1, <3>2 DEF Resolve, AfterResolve, Finish, Typed, TypeOK,
              Placed, Bound, Goto, Outside, InTry, Over, Answered
  <2> QED BY <1>4, <2>2, <2>3 DEF Resolve, Typed, TypeOK, tables, faults, history
<1>5. CASE Create(r)
  <2>1. PICK p \in Pid :
          /\ prospect' = [prospect EXCEPT ![p] =
               [Unused EXCEPT !.state = "live", !.email = Ev(r).email,
                              !.name = IF Ev(r).named THEN key[r] ELSE None]]
          /\ loc' = [loc EXCEPT ![r].pid = p]
    BY <1>5 DEF Create
  <2>2. [Unused EXCEPT !.state = "live", !.email = Ev(r).email,
                       !.name = IF Ev(r).named THEN key[r] ELSE None] \in Row
    BY <1>k, <1>e DEF Unused, Row
  <2>3. prospect' \in [Pid -> Row]
    BY <2>1, <2>2 DEF Typed, TypeOK
  <2>4. loc' \in [Req -> Loc]
    BY <2>1 DEF Typed, TypeOK, Loc
  <2>5. /\ pc' \in [Req -> {"idle"} \cup Outside \cup InTry \cup Over]
        /\ Placed'
    BY <1>5, <1>k, <2>1 DEF Create, Typed, TypeOK, Placed, Bound, Loc, Goto,
        Outside, InTry, Over, Answered
  <2> QED BY <1>5, <2>3, <2>4, <2>5 DEF Create, Typed, TypeOK, faults, history
<1>6. CASE Enrich(r)
  <2>1. loc[r].pid \in Pid
    BY <1>6 DEF Enrich, Typed, Placed, Bound, InTry
  <2>2. prospect' \in [Pid -> Row]
    BY <1>6, <1>k, <1>e, <2>1, RowUpdates DEF Enrich, Typed, TypeOK, Ev
  <2>3. /\ pc' \in [Req -> {"idle"} \cup Outside \cup InTry \cup Over]
        /\ Placed'
    BY <1>6 DEF Enrich, Typed, TypeOK, Placed, Bound, Goto, Outside, InTry, Over, Answered
  <2> QED BY <1>6, <2>2, <2>3 DEF Enrich, Typed, TypeOK, faults, history
<1>7. CASE Refresh(r)
  <2>1. loc[r].pid \in Pid /\ loc[r].wd \in Statuses
    BY <1>7 DEF Refresh, Typed, TypeOK, Placed, Bound, InTry, Loc
  <2>2. Loaded(r, loc[r].pid, loc[r].wd) \in Loc
    BY <2>1, LoadedTyped
  <2>3. loc' \in [Req -> Loc]
    BY <1>7, <2>2 DEF Refresh, Typed, TypeOK
  <2>4. pc'[r] \in {"company", "touch", "register", "job", "setuid", "signup"}
    BY <1>7 DEF Refresh, Goto, AfterResolve, AfterTouch, UidStep, Typed, TypeOK
  <2>5. /\ pc' \in [Req -> {"idle"} \cup Outside \cup InTry \cup Over]
        /\ \A q \in Req : q # r => pc'[q] = pc[q]
    BY <1>7, <2>4 DEF Refresh, Goto, Typed, TypeOK, InTry
  <2>6. \A q \in Req : loc'[q].pid = loc[q].pid
    BY <1>7 DEF Refresh, Loaded, Typed, TypeOK
  <2>7. Placed'
    BY <1>7, <1>k, <2>1, <2>5, <2>6 DEF Refresh, Typed, Placed
  <2> QED BY <1>7, <2>3, <2>5, <2>7 DEF Refresh, Typed, TypeOK, tables, faults, history
<1>8. CASE CompanyUpsert(r)
  BY <1>8, <1>e DEF Typed, TypeOK, Placed, Bound, CompanyUpsert, Goto, AfterCompany,
              tables, faults, history, CompanyStates, Outside, InTry, Over, Answered
<1>9. CASE Resnap(r)
  <2>1. loc[r].pid \in Pid
    BY <1>9 DEF Resnap, Typed, Placed, Bound, InTry
  <2>2. loc' \in [Req -> Loc]
    BY <1>9, <2>1 DEF Resnap, Typed, TypeOK, Loc
  <2>3. \A q \in Req : loc'[q].pid = loc[q].pid
    BY <1>9 DEF Resnap, Typed, TypeOK, Loc
  <2>4. /\ pc' \in [Req -> {"idle"} \cup Outside \cup InTry \cup Over]
        /\ Placed'
    BY <1>9, <2>1, <2>3 DEF Resnap, AfterCompany, Typed, TypeOK, Placed, Bound, Goto,
                 Outside, InTry, Over, Answered
  <2> QED BY <1>9, <2>2, <2>4 DEF Resnap, Typed, TypeOK, tables, faults, history
<1>10. CASE AttachCompany(r)
  <2>1. loc[r].pid \in Pid
    BY <1>10 DEF AttachCompany, Typed, Placed, Bound, InTry
  <2>2. prospect' \in [Pid -> Row]
    BY <1>10, <1>k, <1>e, <2>1, RowUpdates DEF AttachCompany, Typed, TypeOK, Ev
  <2>3. /\ pc' \in [Req -> {"idle"} \cup Outside \cup InTry \cup Over]
        /\ Placed'
    BY <1>10 DEF AttachCompany, Typed, TypeOK, Placed, Bound, Goto, Outside, InTry, Over, Answered
  <2> QED BY <1>10, <2>2, <2>3 DEF AttachCompany, Typed, TypeOK, faults, history
<1>11. CASE Touch(r)
  <2>1. loc[r].pid \in Pid /\ loc[r].row.touch \in Nat /\ loc[r].chan \in Nat
    BY <1>11 DEF Touch, Typed, TypeOK, Placed, Bound, InTry, Loc, Row
  <2>2. prospect' \in [Pid -> Row]
    <3> DEFINE n == loc[r].row.touch + 1
    <3>1. [prospect[loc[r].pid] EXCEPT !.touch = n] \in Row
      <4>1. prospect[loc[r].pid] \in Row /\ n \in Nat
        BY <2>1 DEF Typed, TypeOK
      <4> HIDE DEF n
      <4> QED BY <1>k, <4>1, RowUpdates
    <3>2. CASE prospect' = [prospect EXCEPT ![loc[r].pid].touch = n]
      <4>1. prospect' = [prospect EXCEPT ![loc[r].pid] =
                           [prospect[loc[r].pid] EXCEPT !.touch = n]]
        BY <3>2
      <4> HIDE DEF n
      <4> QED BY <2>1, <3>1, <4>1 DEF Typed, TypeOK
    <3>3. CASE prospect' = prospect
      BY <3>3 DEF Typed, TypeOK
    <3> QED BY <1>11, <3>2, <3>3 DEF Touch
  <2>3. touches' \in [Pid -> Nat]
    BY <1>11, <2>1 DEF Touch, Typed, TypeOK
  <2>4. loc' \in [Req -> Loc]
    BY <1>11, UnloadedTyped DEF Touch, Finish, Typed, TypeOK, Statuses
  <2>5. /\ pc' \in [Req -> {"idle"} \cup Outside \cup InTry \cup Over]
        /\ Placed'
    BY <1>11, <1>k DEF Touch, Finish, Typed, TypeOK, Placed, Bound, Goto,
                 Outside, InTry, Over, Answered
  <2> QED BY <1>11, <2>2, <2>3, <2>4, <2>5 DEF Touch, Typed, TypeOK, faults, history
<1>12. CASE SetRegistered(r)
  <2>1. loc[r].pid \in Pid
    BY <1>12 DEF SetRegistered, Typed, Placed, Bound, InTry
  <2>2. prospect' \in [Pid -> Row]
    BY <1>12, <1>k, <1>e, <2>1, RowUpdates DEF SetRegistered, Typed, TypeOK, Ev
  <2>3. /\ pc' \in [Req -> {"idle"} \cup Outside \cup InTry \cup Over]
        /\ Placed'
    BY <1>12 DEF SetRegistered, Typed, TypeOK, Placed, Bound, Goto, Outside, InTry, Over, Answered
  <2> QED BY <1>12, <2>2, <2>3 DEF SetRegistered, Typed, TypeOK, faults, history
<1>13. CASE SetFirstJobCreated(r)
  <2>1. loc[r].pid \in Pid
    BY <1>13 DEF SetFirstJobCreated, Typed, Placed, Bound, InTry
  <2>2. prospect' \in [Pid -> Row]
    <3> DEFINE p == loc[r].pid
               n == IF loc[r].row.jobs # Ev(r).jobs THEN Ev(r).jobs
                    ELSE prospect[p].jobs
    <3>1. prospect[p] \in Row /\ n \in Nat
      BY <1>e, <2>1 DEF Typed, TypeOK, Row
    <3>2. [prospect[p] EXCEPT !.firstJob = TRUE, !.jobs = n] \in Row
      BY <3>1 DEF Row
    <3>3. prospect' = [prospect EXCEPT ![p] =
                         [prospect[p] EXCEPT !.firstJob = TRUE, !.jobs = n]]
      BY <1>13, <2>1, <3>1 DEF SetFirstJobCreated, Typed, TypeOK, Row
    <3> QED BY <3>2, <3>3 DEF Typed, TypeOK
  <2>3. /\ pc' \in [Req -> {"idle"} \cup Outside \cup InTry \cup Over]
        /\ Placed'
    BY <1>13 DEF SetFirstJobCreated, Typed, TypeOK, Placed, Bound, Goto,
                 Outside, InTry, Over, Answered
  <2> QED BY <1>13, <2>2, <2>3 DEF SetFirstJobCreated, Typed, TypeOK, faults, history
<1>14. CASE SetThhUserId(r)
  <2>1. loc[r].pid \in Pid
    BY <1>14 DEF SetThhUserId, Typed, Placed, Bound, InTry
  <2>2. prospect' \in [Pid -> Row]
    BY <1>14, <1>k, <1>e, <2>1, RowUpdates DEF SetThhUserId, Typed, TypeOK, Ev
  <2>3. /\ pc' \in [Req -> {"idle"} \cup Outside \cup InTry \cup Over]
        /\ Placed'
    BY <1>14 DEF SetThhUserId, Typed, TypeOK, Placed, Bound, Goto, Outside, InTry, Over, Answered
  <2> QED BY <1>14, <2>2, <2>3 DEF SetThhUserId, Typed, TypeOK, faults, history
<1>15. CASE AddSignup(r)
  <2>1. loc[r].pid \in Pid
    BY <1>15 DEF AddSignup, Typed, Placed, Bound, InTry
  <2>2. signups' \subseteq [req : Req, prospect : Pid, verified : BOOLEAN]
    <3> DEFINE row == [req |-> r, prospect |-> loc[r].pid,
                       verified |-> Ev(r).kind = "L3"]
    <3>1. row \in [req : Req, prospect : Pid, verified : BOOLEAN]
      BY <2>1
    <3>2. signups' = signups \cup {row}
      BY <1>15 DEF AddSignup
    <3> QED BY <3>1, <3>2 DEF Typed, TypeOK
  <2>3. ingested' \in [Key -> Nat]
    BY <1>15, <1>k DEF AddSignup, Typed, TypeOK
  <2>4. /\ pc' \in [Req -> {"idle"} \cup Outside \cup InTry \cup Over]
        /\ Placed'
    BY <1>15 DEF AddSignup, Typed, TypeOK, Placed, Bound, Goto,
                 Outside, InTry, Over, Answered
  <2> QED BY <1>15, <2>2, <2>3, <2>4 DEF AddSignup, Typed, TypeOK, faults
<1>16. CASE MarkProcessed(r)
  <2>1. delivery' \in [Key -> Statuses]
    BY <1>16 DEF MarkProcessed, WriteStatus, Typed, TypeOK, Statuses
  <2>2. loc' \in [Req -> Loc]
    BY <1>16, UnloadedTyped DEF MarkProcessed, Finish, Typed, TypeOK, Statuses
  <2>3. /\ pc' \in [Req -> {"idle"} \cup Outside \cup InTry \cup Over]
        /\ Placed'
    BY <1>16 DEF MarkProcessed, Finish, Typed, TypeOK, Placed, Bound, Goto,
                 Outside, InTry, Over, Answered
  <2> QED BY <1>16, <2>1, <2>2, <2>3 DEF MarkProcessed, Typed, TypeOK, faults, history
<1>17. CASE MarkFailed(r)
  <2>1. delivery' \in [Key -> Statuses]
    BY <1>17 DEF MarkFailed, WriteStatus, Typed, TypeOK, Statuses
  <2>2. loc' \in [Req -> Loc]
    BY <1>17, UnloadedTyped DEF MarkFailed, Finish, Typed, TypeOK, Statuses
  <2>3. /\ pc' \in [Req -> {"idle"} \cup Outside \cup InTry \cup Over]
        /\ Placed'
    BY <1>17 DEF MarkFailed, Finish, Typed, TypeOK, Placed, Bound, Goto,
                 Outside, InTry, Over, Answered
  <2> QED BY <1>17, <2>1, <2>2, <2>3 DEF MarkFailed, Typed, TypeOK, faults, history
<1> QED BY <1>1, <1>2, <1>3, <1>4, <1>5, <1>6, <1>7, <1>8, <1>9, <1>10, <1>11, <1>12,
           <1>13, <1>14, <1>15, <1>16, <1>17 DEF Step

\* So do pushes, faults, deaths and the deletions of an admin.
LEMMA TypedSurroundings ==
  ASSUME Typed,
         \/ \E r \in Req : (\E k \in Key : Push(r, k)) \/ SoftFault(r) \/ HardFault(r)
         \/ Crash \/ DeleteLead \/ DeleteCompany \/ UNCHANGED vars
  PROVE  Typed'
<1>1. ASSUME NEW r \in Req, NEW k \in Key, Push(r, k) PROVE Typed'
  BY <1>1 DEF Typed, TypeOK, Placed, Bound, Push, Goto, tables, faults,
              Outside, InTry, Over, Answered
<1>2. ASSUME NEW r \in Req, SoftFault(r) PROVE Typed'
  <2>1. loc[r].wd \in Statuses /\ key[r] \in Key
    BY <1>2 DEF SoftFault, Typed, TypeOK, Placed, Loc
  <2>2. delivery[key[r]] \in Statuses
    BY <2>1 DEF Typed, TypeOK
  <2>3. loc' \in [Req -> Loc]
    BY <1>2, <2>1, <2>2, UnloadedTyped DEF SoftFault, Typed, TypeOK
  <2>4. /\ pc' \in [Req -> {"idle"} \cup Outside \cup InTry \cup Over]
        /\ Placed'
    BY <1>2, <2>1 DEF SoftFault, Typed, TypeOK, Placed, Bound, Goto,
                 Outside, InTry, Over, Answered
  <2> QED BY <1>2, <2>3, <2>4 DEF SoftFault, Typed, TypeOK, tables, history
<1>3. ASSUME NEW r \in Req, HardFault(r) PROVE Typed'
  <2>1. loc' \in [Req -> Loc]
    BY <1>3, UnloadedTyped DEF HardFault, Finish, Typed, TypeOK, Statuses
  <2>2. /\ pc' \in [Req -> {"idle"} \cup Outside \cup InTry \cup Over]
        /\ Placed'
    BY <1>3 DEF HardFault, Finish, Active, Typed, TypeOK, Placed, Bound, Goto,
                 Outside, InTry, Over, Answered
  <2> QED BY <1>3, <2>1, <2>2 DEF HardFault, Typed, TypeOK, tables, history
<1>4. ASSUME Crash PROVE Typed'
  <2>1. PICK lost \in SUBSET Active :
          /\ pc' = [r \in Req |-> IF r \in lost THEN "dead" ELSE pc[r]]
          /\ loc' = [r \in Req |-> IF r \in lost THEN Unloaded("absent") ELSE loc[r]]
    BY <1>4 DEF Crash
  <2>2. loc' \in [Req -> Loc]
    BY <2>1, UnloadedTyped DEF Typed, TypeOK, Statuses
  <2>3. /\ pc' \in [Req -> {"idle"} \cup Outside \cup InTry \cup Over]
        /\ Placed'
    BY <1>4, <2>1 DEF Crash, Active, Typed, TypeOK, Placed, Bound,
                 Outside, InTry, Over, Answered
  <2> QED BY <1>4, <2>2, <2>3 DEF Crash, Typed, TypeOK, tables, history
<1>5. ASSUME DeleteLead PROVE Typed'
  <2>1. PICK row \in signups :
          /\ signups' = {s \in signups : s.prospect # row.prospect}
          /\ prospect' = [prospect EXCEPT ![row.prospect].state = "deleted"]
    BY <1>5 DEF DeleteLead
  <2>2. row.prospect \in Pid
    BY DEF Typed, TypeOK
  <2>3. [prospect[row.prospect] EXCEPT !.state = "deleted"] \in Row
    BY <2>2 DEF Typed, TypeOK, Row
  <2>4. prospect' \in [Pid -> Row]
    BY <2>1, <2>2, <2>3 DEF Typed, TypeOK
  <2> QED BY <1>5, <2>1, <2>4 DEF DeleteLead, Typed, TypeOK, Placed, faults, history
<1>6. ASSUME DeleteCompany PROVE Typed'
  <2>1. companies' \in [Domains -> CompanyStates]
    BY <1>6 DEF DeleteCompany, Typed, TypeOK, CompanyStates
  <2> QED BY <1>6, <2>1 DEF DeleteCompany, Typed, TypeOK, Placed, faults, history
<1>7. ASSUME UNCHANGED vars PROVE Typed'
  BY <1>7 DEF vars, tables, faults, history, Typed, TypeOK, Placed
<1> QED BY <1>1, <1>2, <1>3, <1>4, <1>5, <1>6, <1>7

\* The tables and sessions are well formed in every reachable state.
LEMMA TypedAlways == Spec => []Typed
<1>1. Typed /\ [Next]_vars => Typed'
  BY TypedStep, TypedSurroundings DEF Next, Quiet
<1> QED BY <1>1, TypedInit, PTL DEF Spec

\* Type correctness of the tables and the sessions; every session past the
\* lookups has its prospect.
THEOREM TypeCorrect == Spec => [](TypeOK /\ Placed)
BY TypedAlways, PTL DEF Typed

-----------------------------------------------------------------------------
(***************************************************************************)
(* Admission.  The steps that neither admit, ingest nor settle an event    *)
(* only move one session along inside the handler or end it.               *)
(***************************************************************************)
Inside(r) ==
    /\ UNCHANGED <<delivery, ingested, everFailed, key>>
    /\ \E label \in (InTry \ {"mark"}) \cup Over :
         /\ pc' = [pc EXCEPT ![r] = label]
         /\ \/ pc[r] \in InTry \ {"mark", "fail"}
            \/ pc[r] \in {"mark", "fail"} /\ label \in Over \cup {"fail"}
            \/ pc[r] \in Outside /\ label \in Over

\* The steps of the handler, and its faults, that leave the ledger's tables
\* alone.
LEMMA InsideSteps ==
  ASSUME Typed, NEW r \in Req,
         \/ Resolve(r) \/ Create(r) \/ Enrich(r) \/ Refresh(r) \/ CompanyUpsert(r)
         \/ Resnap(r) \/ AttachCompany(r) \/ Touch(r) \/ SetRegistered(r)
         \/ SetFirstJobCreated(r) \/ SetThhUserId(r) \/ SoftFault(r) \/ HardFault(r)
  PROVE  Inside(r)
<1>1. CASE Resolve(r)
  BY <1>1 DEF Resolve, AfterResolve, Finish, Goto, Inside, InTry, Over, Answered,
              tables, history
<1>2. CASE Refresh(r)
  <2>1. PICK label \in {"company", "touch", "register", "job", "setuid", "signup"} :
          pc' = [pc EXCEPT ![r] = label]
    BY <1>2 DEF Refresh, Goto, AfterResolve, AfterTouch, UidStep
  <2> QED BY <1>2, <2>1 DEF Refresh, Inside, InTry, tables, history
<1>3. CASE Create(r) \/ Enrich(r) \/ CompanyUpsert(r) \/ Resnap(r) \/ AttachCompany(r)
  BY <1>3 DEF Create, Enrich, CompanyUpsert, Resnap, AttachCompany, AfterCompany, Goto,
              Inside, InTry, tables, history
<1>4. CASE Touch(r)
  BY <1>4 DEF Touch, Finish, Goto, Inside, InTry, Over, Answered, history
<1>5. CASE SetRegistered(r) \/ SetFirstJobCreated(r) \/ SetThhUserId(r)
  BY <1>5 DEF SetRegistered, SetFirstJobCreated, SetThhUserId, Goto, Inside, InTry, history
<1>6. CASE SoftFault(r)
  BY <1>6 DEF SoftFault, Goto, Inside, InTry, Outside, tables, history
<1>7. CASE HardFault(r)
  BY <1>7 DEF HardFault, Active, Finish, Goto, Inside, InTry, Outside, Over, tables, history
<1> QED BY <1>1, <1>2, <1>3, <1>4, <1>5, <1>6, <1>7

\* The inductive form of SingleIngest, for one key: until an attempt failed, the
\* delivery row stands for one admission, and that admission has not ingested
\* before its session reaches mark.
Admission(k) ==
    ~everFailed[k] =>
        /\ \A r, q \in Handling(k) : r = q
        /\ delivery[k] # "failed"
        /\ delivery[k] = "absent" => Handling(k) = {} /\ ingested[k] = 0
        /\ delivery[k] = "processed" => Handling(k) = {}
        /\ ingested[k] <= 1
        /\ \A r \in Handling(k) : pc[r] \notin {"mark", "fail"} => ingested[k] = 0
        /\ \A r \in Req : key[r] = k => pc[r] # "reset"

\* The inductive form of ProcessedIngested.
Processed ==
    /\ ProcessedIngested
    /\ \A r \in Req : pc[r] = "mark" => ingested[key[r]] > 0

\* Every disjunct of Next, sorted by what it does to an admission.
LEMMA NextCases ==
  ASSUME Typed, Next
  PROVE  \/ \E r \in Req : \/ \E k \in Key : Push(r, k)
                           \/ Lookup(r) \/ Insert(r) \/ Reset(r) \/ Inside(r)
                           \/ AddSignup(r) \/ MarkProcessed(r) \/ MarkFailed(r)
         \/ Crash \/ DeleteLead \/ DeleteCompany \/ UNCHANGED vars
  BY InsideSteps DEF Next, Step, Quiet

\* Every step keeps a delivery that never failed with one request at most.
LEMMA AdmissionStep ==
  ASSUME Typed, NEW k \in Key, Admission(k), [Next]_vars
  PROVE  Admission(k)'
<1>1. ASSUME NEW r \in Req, NEW j \in Key, Push(r, j) PROVE Admission(k)'
  BY <1>1 DEF Typed, TypeOK, Placed, Admission, Handling, Push, Goto, tables, InTry
<1>2. ASSUME NEW r \in Req, Lookup(r) PROVE Admission(k)'
  BY <1>2 DEF Typed, TypeOK, Placed, Admission, Handling, Lookup, Goto, tables, history, InTry
<1>3. ASSUME NEW r \in Req, Insert(r) PROVE Admission(k)'
  BY <1>3 DEF Typed, TypeOK, Placed, Admission, Handling, Insert, Goto, history, InTry
<1>4. ASSUME NEW r \in Req, Reset(r) PROVE Admission(k)'
  BY <1>4 DEF Typed, TypeOK, Placed, Admission, Handling, Reset, Goto, history, InTry
<1>5. ASSUME NEW r \in Req, Inside(r) PROVE Admission(k)'
  BY <1>5 DEF Typed, TypeOK, Placed, Admission, Handling, Inside, InTry, Outside, Over, Answered
<1>6. ASSUME NEW r \in Req, AddSignup(r) PROVE Admission(k)'
  BY <1>6 DEF Typed, TypeOK, Placed, Admission, Handling, AddSignup, Goto, InTry
<1>7. ASSUME NEW r \in Req, MarkProcessed(r) PROVE Admission(k)'
  BY <1>7 DEF Typed, TypeOK, Placed, Admission, Handling, MarkProcessed, WriteStatus, Finish, Goto, history, InTry
<1>8. ASSUME NEW r \in Req, MarkFailed(r) PROVE Admission(k)'
  BY <1>8 DEF Typed, TypeOK, Placed, Admission, Handling, MarkFailed, WriteStatus, Finish, Goto, InTry
<1>9. ASSUME Crash PROVE Admission(k)'
  BY <1>9 DEF Typed, TypeOK, Placed, Admission, Handling, Crash, tables, history, InTry
<1>10. ASSUME DeleteLead \/ DeleteCompany \/ UNCHANGED vars PROVE Admission(k)'
  BY <1>10 DEF Typed, TypeOK, Placed, Admission, Handling, DeleteLead, DeleteCompany, vars, tables, history
<1> QED BY NextCases, <1>1, <1>2, <1>3, <1>4, <1>5, <1>6, <1>7, <1>8, <1>9, <1>10

\* Unless an attempt of a key was marked failed, one push at most is handled and
\* one signups row inserted, for any number of pushes, crashes and faults.
THEOREM SingleIngestHolds == Spec => []SingleIngest
<1> DEFINE IInv == \A k \in Key : Admission(k)
<1>1. Init => IInv
  BY DEF Init, Admission, Handling, InTry
<1>2. Typed /\ IInv /\ [Next]_vars => IInv'
  BY AdmissionStep
<1>3. IInv => SingleIngest
  BY DEF Admission, SingleIngest
<1> QED BY <1>1, <1>2, <1>3, TypedAlways, PTL DEF Spec

\* A processed delivery of a key that never failed stays processed.
THEOREM SettledStaysHolds == Spec => SettledStays
<1> DEFINE IInv == \A k \in Key : Admission(k)
           Stays == \A k \in Key : delivery[k] = "processed" /\ ~everFailed[k]
                                     => delivery'[k] = "processed"
<1>1. Init => IInv
  BY DEF Init, Admission, Handling, InTry
<1>2. Typed /\ IInv /\ [Next]_vars => IInv'
  BY AdmissionStep
<1>3. ASSUME Typed, IInv, [Next]_vars PROVE Stays
  <2> SUFFICES ASSUME NEW k \in Key, delivery[k] = "processed", ~everFailed[k]
               PROVE  delivery'[k] = "processed"
    OBVIOUS
  <2>1. Handling(k) = {} /\ \A r \in Req : key[r] = k => pc[r] # "reset"
    BY <1>3 DEF Admission
  <2>2. ASSUME NEW r \in Req, Insert(r) \/ Reset(r) \/ MarkProcessed(r) \/ MarkFailed(r)
        PROVE  delivery'[k] = "processed"
    BY <1>3, <2>1, <2>2 DEF Insert, Reset, MarkProcessed, MarkFailed, WriteStatus,
        Handling, InTry, Typed, TypeOK
  <2>3. ASSUME NEW r \in Req,
               \/ \E j \in Key : Push(r, j)
               \/ Lookup(r) \/ Inside(r) \/ AddSignup(r)
        PROVE  delivery'[k] = "processed"
    BY <2>3 DEF Push, Lookup, Inside, AddSignup, tables
  <2>4. CASE Crash \/ DeleteLead \/ DeleteCompany \/ UNCHANGED vars
    BY <2>4 DEF Crash, DeleteLead, DeleteCompany, vars, tables
  <2> QED BY <1>3, <2>2, <2>3, <2>4, NextCases
<1>4. Spec => [](Typed /\ IInv)
  BY <1>1, <1>2, TypedAlways, PTL DEF Spec
<1>5. Typed /\ IInv /\ [Next]_vars => [Stays]_vars
  BY <1>3
<1> QED BY <1>4, <1>5, PTL DEF Spec, SettledStays

\* Every step keeps a signups row behind each delivery marked processed.
LEMMA ProcessedStep ==
  ASSUME Typed, Processed, [Next]_vars
  PROVE  Processed'
<1>1. ASSUME NEW r \in Req, NEW j \in Key, Push(r, j) PROVE Processed'
  BY <1>1 DEF Typed, TypeOK, Placed, Processed, ProcessedIngested, Push, Goto, tables
<1>2. ASSUME NEW r \in Req, Lookup(r) PROVE Processed'
  BY <1>2 DEF Typed, TypeOK, Placed, Processed, ProcessedIngested, Lookup, Goto, tables, history
<1>3. ASSUME NEW r \in Req, Insert(r) PROVE Processed'
  BY <1>3 DEF Typed, TypeOK, Placed, Processed, ProcessedIngested, Insert, Goto, history
<1>4. ASSUME NEW r \in Req, Reset(r) PROVE Processed'
  BY <1>4 DEF Typed, TypeOK, Placed, Processed, ProcessedIngested, Reset, Goto, history
<1>5. ASSUME NEW r \in Req, Inside(r) PROVE Processed'
  BY <1>5 DEF Typed, TypeOK, Placed, Processed, ProcessedIngested, Inside, InTry, Over, Answered
<1>6. ASSUME NEW r \in Req, AddSignup(r) PROVE Processed'
  BY <1>6 DEF Typed, TypeOK, Placed, Processed, ProcessedIngested, AddSignup, Goto
<1>7. ASSUME NEW r \in Req, MarkProcessed(r) PROVE Processed'
  BY <1>7 DEF Typed, TypeOK, Placed, Processed, ProcessedIngested, MarkProcessed, WriteStatus, Finish, Goto, history
<1>8. ASSUME NEW r \in Req, MarkFailed(r) PROVE Processed'
  BY <1>8 DEF Typed, TypeOK, Placed, Processed, ProcessedIngested, MarkFailed, WriteStatus, Finish, Goto
<1>9. ASSUME Crash PROVE Processed'
  BY <1>9 DEF Typed, TypeOK, Placed, Processed, ProcessedIngested, Crash, tables, history
<1>10. ASSUME DeleteLead \/ DeleteCompany \/ UNCHANGED vars PROVE Processed'
  BY <1>10 DEF Typed, TypeOK, Placed, Processed, ProcessedIngested, DeleteLead, DeleteCompany, vars, tables, history
<1> QED BY NextCases, <1>1, <1>2, <1>3, <1>4, <1>5, <1>6, <1>7, <1>8, <1>9, <1>10

\* A processed delivery has been ingested.
THEOREM ProcessedIngestedHolds == Spec => []ProcessedIngested
<1>1. Init => Processed
  BY DEF Init, Processed, ProcessedIngested
<1>2. Typed /\ Processed /\ [Next]_vars => Processed'
  BY ProcessedStep
<1>3. Processed => ProcessedIngested
  BY DEF Processed
<1> QED BY <1>1, <1>2, <1>3, TypedAlways, PTL DEF Spec

-----------------------------------------------------------------------------
(***************************************************************************)
(* Milestones.  A session writes one column of a prospect that exists, so  *)
(* no stale copy takes a milestone back.                                   *)
(***************************************************************************)
Linked(p) == prospect[p].uid # None
Taken(p) == prospect[p].state # "free"
Identifies(r) == Ev(r).kind \in {"L3", "L4"} /\ Ev(r).uid # None

\* The inductive form: the milestones of an event are on the prospect when its
\* session is about to insert the signups row, and stay there.
SessionOk(r) ==
    /\ pc[r] \in Bound => Taken(loc[r].pid)
    /\ pc[r] \in {"loadU", "setuid", "signup"} /\ Ev(r).kind = "L3"
         => prospect[loc[r].pid].registered
    /\ pc[r] = "setuid" => Identifies(r)
    /\ pc[r] = "job" => Ev(r).kind = "L4"
    /\ pc[r] = "signup" /\ Identifies(r) => Linked(loc[r].pid)

SignupOk(s) ==
    /\ Taken(s.prospect) /\ pc[s.req] # "idle"
    /\ s.verified => prospect[s.prospect].registered
    /\ Identifies(s.req) => Linked(s.prospect)

Milestones ==
    /\ \A r \in Req : SessionOk(r)
    /\ \A s \in signups : SignupOk(s)

\* Rows are never freed, never unregistered, never unlinked.
Kept == \A p \in Pid : Taken(p) =>
    /\ Taken(p)'
    /\ prospect[p].registered => prospect'[p].registered
    /\ Linked(p) => Linked(p)'

\* A session past the lookups works on a prospect.
LEMMA PidOfSession ==
  ASSUME Typed, NEW r \in Req, pc[r] \in Bound
  PROVE  loc[r].pid \in Pid
  BY DEF Typed, Placed

\* No step takes a milestone of a prospect back.
LEMMA KeptStep ==
  ASSUME Typed, Milestones, [Next]_vars
  PROVE  Kept
<1> USE DEF Kept, Taken, Linked
<1>1. ASSUME NEW r \in Req, Create(r) PROVE Kept
  BY <1>1 DEF Create, Typed, TypeOK
<1>2. ASSUME NEW r \in Req, Enrich(r) PROVE Kept
  BY <1>2, PidOfSession DEF Enrich, Typed, TypeOK, Row
<1>3. ASSUME NEW r \in Req, AttachCompany(r) PROVE Kept
  BY <1>3, PidOfSession DEF AttachCompany, Typed, TypeOK, Row
<1>4. ASSUME NEW r \in Req, Touch(r) PROVE Kept
  BY <1>4, PidOfSession DEF Touch, Typed, TypeOK, Row
<1>5. ASSUME NEW r \in Req, SetRegistered(r) PROVE Kept
  BY <1>5, PidOfSession DEF SetRegistered, Typed, TypeOK, Row
<1>6. ASSUME NEW r \in Req, SetFirstJobCreated(r) PROVE Kept
  BY <1>6, PidOfSession DEF SetFirstJobCreated, Typed, TypeOK, Row
<1>7. ASSUME NEW r \in Req, SetThhUserId(r) PROVE Kept
  BY <1>7, PidOfSession DEF SetThhUserId, Milestones, SessionOk, Identifies, Typed, TypeOK, Row
<1>8. ASSUME DeleteLead PROVE Kept
  BY <1>8 DEF DeleteLead, Typed, TypeOK, Row
<1>9. ASSUME UNCHANGED prospect PROVE Kept
  BY <1>9
<1> QED BY <1>1, <1>2, <1>3, <1>4, <1>5, <1>6, <1>7, <1>8, <1>9
        DEF Next, Step, Quiet, vars, tables, Push, Lookup, Insert, Reset, Resolve, Refresh,
            CompanyUpsert, Resnap, AddSignup, MarkProcessed, MarkFailed, SoftFault,
            HardFault, Crash, DeleteCompany

\* Every disjunct of Next is one request's step, or leaves the sessions alone.
Alone(r) == \A q \in Req \ {r} :
    pc'[q] = pc[q] /\ key'[q] = key[q] /\ loc'[q].pid = loc[q].pid

\* A step of a request leaves the other sessions' place and prospect alone.
LEMMA StepIsAlone ==
  ASSUME Typed, NEW r \in Req,
         Step(r) \/ SoftFault(r) \/ HardFault(r) \/ \E k \in Key : Push(r, k)
  PROVE  Alone(r)
  BY DEF Alone, Step, Push, Lookup, Insert, Reset, Resolve, Create, Enrich, Refresh,
         CompanyUpsert, Resnap, AttachCompany, Touch, SetRegistered, SetFirstJobCreated,
         SetThhUserId, AddSignup, MarkProcessed, MarkFailed, SoftFault, HardFault,
         Finish, Goto, Typed, TypeOK

\* What another session knows of its prospect's milestones stays true.
LEMMA OthersOk ==
  ASSUME Typed, Milestones, Kept, NEW r \in Req, Alone(r), NEW q \in Req \ {r}
  PROVE  SessionOk(q)'
<1>1. pc[q] \in Bound => loc[q].pid \in Pid
  BY PidOfSession
<1>2. {"loadU", "setuid", "signup"} \subseteq Bound
  BY DEF Bound, InTry
<1> QED BY <1>1, <1>2 DEF Milestones, SessionOk, Kept, Alone, Identifies, Ev, Taken, Linked

\* What the step of r has to establish for r itself.
LEMMA OwnOk ==
  ASSUME Typed, Milestones, Kept, NEW r \in Req,
         Step(r) \/ SoftFault(r) \/ HardFault(r) \/ \E k \in Key : Push(r, k)
  PROVE  SessionOk(r)'
<1> USE DEF SessionOk, Taken, Linked, Identifies, Bound, InTry, Typed, TypeOK
<1>s. SessionOk(r) /\ (pc[r] \in Bound => loc[r].pid \in Pid)
  BY PidOfSession DEF Milestones
<1>1. ASSUME NEW k \in Key, Push(r, k) PROVE SessionOk(r)'
  BY <1>1 DEF Push, Goto
<1>2. CASE Lookup(r) \/ Insert(r) \/ Reset(r)
  BY <1>2 DEF Lookup, Insert, Reset, Goto
<1>3. CASE Resolve(r)
  <2>1. Matches(r) \subseteq {p \in Pid : Taken(p)}
    BY DEF Matches, ByUid, ByEmail
  <2>2. \A p, w : Loaded(r, p, w).pid = p
    BY DEF Loaded
  <2> QED BY <1>3, <2>1, <2>2 DEF Resolve, AfterResolve, Finish, Goto, tables
<1>4. CASE Create(r)
  <2> DEFINE new == [Unused EXCEPT !.state = "live", !.email = Ev(r).email,
                                   !.name = IF Ev(r).named THEN key[r] ELSE None]
  <2>0. new.state = "live"
    BY DEF Unused
  <2> HIDE DEF new
  <2>1. PICK p \in Pid : /\ prospect' = [prospect EXCEPT ![p] = new]
                         /\ loc' = [loc EXCEPT ![r].pid = p]
    BY <1>4 DEF Create, new
  <2>2. loc'[r].pid = p
    BY <2>1 DEF Loc
  <2> QED BY <1>4, <2>0, <2>1, <2>2 DEF Create, Goto
<1>5. CASE Enrich(r) \/ AttachCompany(r) \/ CompanyUpsert(r) \/ Resnap(r)
  <2>1. loc'[r].pid = loc[r].pid
    BY <1>5 DEF Enrich, AttachCompany, CompanyUpsert, Resnap, Loc
  <2>2. pc[r] \in Bound /\ pc'[r] \in {"load", "loadT", "resnap", "attach", "touch", "fail"}
    BY <1>5 DEF Enrich, AttachCompany, CompanyUpsert, Resnap, AfterCompany, Goto
  <2> QED BY <1>s, <2>1, <2>2 DEF Kept
<1>6. CASE Refresh(r)
  <2>1. loc'[r].pid = loc[r].pid /\ loc[r].pid \in Pid /\ prospect' = prospect
    BY <1>6, <1>s DEF Refresh, Loaded, tables
  <2>2. key' = key
    BY <1>6 DEF Refresh
  <2>3. CASE pc[r] \in {"load", "loadT"}
    BY <1>6, <1>s, <2>1, <2>2, <2>3 DEF Refresh, Goto, AfterResolve
  <2>4. CASE pc[r] = "loadM"
    BY <1>6, <1>s, <2>1, <2>2, <2>4 DEF Refresh, Goto, AfterTouch, UidStep, Ev
  <2>5. CASE pc[r] = "loadU"
    BY <1>6, <1>s, <2>1, <2>2, <2>5 DEF Refresh, Goto, UidStep, Ev
  <2> QED BY <1>6, <2>3, <2>4, <2>5 DEF Refresh
<1>7. CASE Touch(r)
  BY <1>7, <1>s DEF Touch, Finish, Goto, Kept
<1>8. CASE SetRegistered(r)
  BY <1>8, <1>s DEF SetRegistered, Goto, Row
<1>9. CASE SetFirstJobCreated(r)
  <2>1. Ev(r).kind = "L4"
    BY <1>9, <1>s DEF SetFirstJobCreated
  <2> QED BY <1>9, <1>s, <2>1 DEF SetFirstJobCreated, Goto, Kept, Ev
<1>10. CASE SetThhUserId(r)
  BY <1>10, <1>s DEF SetThhUserId, Goto, Row, Ev
<1>11. CASE AddSignup(r)
  BY <1>11, <1>s DEF AddSignup, Goto
<1>12. CASE MarkProcessed(r) \/ MarkFailed(r) \/ HardFault(r) \/ SoftFault(r)
  BY <1>12 DEF MarkProcessed, MarkFailed, HardFault, SoftFault, Finish, Goto
<1> QED BY <1>1, <1>2, <1>3, <1>4, <1>5, <1>6, <1>7, <1>8, <1>9, <1>10, <1>11, <1>12 DEF Step

\* Every step keeps the milestones in agreement with the signups rows.
LEMMA MilestonesStep ==
  ASSUME Typed, Milestones, [Next]_vars
  PROVE  Milestones'
<1>0. Kept
  BY KeptStep
<1>1. ASSUME NEW r \in Req,
             Step(r) \/ SoftFault(r) \/ HardFault(r) \/ \E k \in Key : Push(r, k)
      PROVE  Milestones'
  <2>1. \A q \in Req : SessionOk(q)'
    BY <1>0, <1>1, OwnOk, OthersOk, StepIsAlone
  <2>2. ASSUME NEW s \in signups PROVE SignupOk(s)'
    <3>1. s.req \in Req /\ s.prospect \in Pid /\ SignupOk(s)
      BY DEF Typed, TypeOK, Milestones
    <3>2. key'[s.req] = key[s.req] /\ pc'[s.req] # "idle"
      BY <1>1, <3>1 DEF SignupOk, Step, Push, Lookup, Insert, Reset, Resolve, Create,
        Enrich, Refresh, CompanyUpsert, Resnap, AttachCompany, Touch, SetRegistered,
        SetFirstJobCreated, SetThhUserId, AddSignup, MarkProcessed, MarkFailed,
        SoftFault, HardFault, AfterResolve, AfterCompany, AfterTouch, UidStep,
        Finish, Goto, Typed, TypeOK
    <3> QED BY <1>0, <3>1, <3>2 DEF SignupOk, Kept, Identifies, Ev, Taken, Linked
  <2>3. CASE AddSignup(r)
    <3>0. PICK new :
            new = [req |-> r, prospect |-> loc[r].pid, verified |-> Ev(r).kind = "L3"]
      OBVIOUS
    <3>1. SessionOk(r) /\ loc[r].pid \in Pid
      BY <2>3, PidOfSession DEF Milestones, AddSignup, Bound, InTry
    <3>2. SignupOk(new)'
      BY <2>3, <3>0, <3>1 DEF SessionOk, SignupOk, AddSignup, Goto, Bound, InTry,
        Taken, Linked, Identifies, Ev, Typed, TypeOK
    <3>3. signups' = signups \cup {new}
      BY <2>3, <3>0 DEF AddSignup
    <3> QED BY <2>1, <2>2, <3>2, <3>3 DEF Milestones
  <2>4. CASE UNCHANGED signups
    BY <2>1, <2>2, <2>4 DEF Milestones
  <2> QED BY <1>1, <2>3, <2>4 DEF Step, Push, Lookup, Insert, Reset, Resolve, Create,
        Enrich, Refresh, CompanyUpsert, Resnap, AttachCompany, Touch, SetRegistered,
        SetFirstJobCreated, SetThhUserId, MarkProcessed, MarkFailed, SoftFault,
        HardFault, tables
<1>2. ASSUME Crash PROVE Milestones'
  <2>1. PICK lost \in SUBSET Active :
          /\ pc' = [r \in Req |-> IF r \in lost THEN "dead" ELSE pc[r]]
          /\ loc' = [r \in Req |-> IF r \in lost THEN Unloaded("absent") ELSE loc[r]]
    BY <1>2 DEF Crash
  <2>2. UNCHANGED <<prospect, signups, key>>
    BY <1>2 DEF Crash, tables
  <2>3. \A r \in Req : SessionOk(r)'
    BY <2>1, <2>2 DEF Milestones, SessionOk, Taken, Linked, Identifies, Ev, Bound, InTry
  <2>4. \A s \in signups : SignupOk(s)'
    <3>1. \A s \in signups : s.req \in Req
      BY DEF Typed, TypeOK
    <3>2. \A r \in Req : pc[r] # "idle" => pc'[r] # "idle"
      BY <2>1
    <3> QED BY <2>2, <3>1, <3>2 DEF Milestones, SignupOk, Taken, Linked, Identifies, Ev
  <2> QED BY <2>2, <2>3, <2>4 DEF Milestones
<1>3. ASSUME DeleteLead \/ DeleteCompany \/ UNCHANGED vars PROVE Milestones'
  <2>1. UNCHANGED <<pc, key, loc>> /\ signups' \subseteq signups
    BY <1>3 DEF DeleteLead, DeleteCompany, vars, tables
  <2>2. \A r \in Req : SessionOk(r)'
    <3>1. \A r \in Req : pc[r] \in Bound => loc[r].pid \in Pid
      BY PidOfSession
    <3> QED BY <1>0, <2>1, <3>1 DEF Milestones, SessionOk, Kept, Taken, Linked,
               Identifies, Ev, Bound, InTry
  <2>3. \A s \in signups : SignupOk(s)'
    <3>1. \A s \in signups : s.prospect \in Pid
      BY DEF Typed, TypeOK
    <3> QED BY <1>0, <2>1, <3>1 DEF Milestones, SignupOk, Kept, Taken, Linked, Identifies, Ev
  <2> QED BY <2>1, <2>2, <2>3 DEF Milestones
<1> QED BY <1>1, <1>2, <1>3 DEF Next, Quiet

\* A signups row with otp_verified_at belongs to a registered prospect, and the
\* row of an L3 or L4 event with a thh_user_id to a linked one, whatever the
\* interleaving: no stale session undoes a milestone.
THEOREM MilestonesHold == Spec => [](VerifiedIsRegistered /\ IdentifiedSignup)
<1>1. Init => Milestones
  BY DEF Init, Milestones, SessionOk, Bound, InTry
<1>2. Typed /\ Milestones /\ [Next]_vars => Milestones'
  BY MilestonesStep
<1>3. Typed /\ Milestones => VerifiedIsRegistered /\ IdentifiedSignup
  BY DEF Milestones, SignupOk, VerifiedIsRegistered, IdentifiedSignup, Identifies, Linked
<1> QED BY <1>1, <1>2, <1>3, TypedAlways, PTL DEF Spec

\* The second half of MilestonesHold: a signup pushed with a user id stays tied to
\* a linked prospect.
THEOREM IdentifiedSignupHolds == Spec => []IdentifiedSignup
<1>1. VerifiedIsRegistered /\ IdentifiedSignup => IdentifiedSignup
  OBVIOUS
<1> QED BY <1>1, MilestonesHold, PTL

-----------------------------------------------------------------------------
(***************************************************************************)
(* The ledger.  A patient sender has one request at most under way for an  *)
(* event, so what a session found of its delivery is still there.          *)
(***************************************************************************)
Lost == {"err500", "dead"}

UnderWay(r) == key[r] # None /\ pc[r] \notin Lost

\* The requests of an event that the sender has no answer for, and the status that
\* they work on.
Awaited ==
    /\ \A r \in Req : pc[r] = "idle" => key[r] = None
    /\ \A q, r \in Req : UnderWay(q) /\ UnderWay(r) /\ key[q] = key[r] => q = r
    /\ \A r \in Req : /\ pc[r] = "reset" => delivery[key[r]] = "failed"
                      /\ pc[r] \in InTry => delivery[key[r]] = "received"

\* Every step of a patient sender and of the intake keeps them apart.
LEMMA AwaitedStep ==
  ASSUME Patient, Typed, Awaited, [Next]_vars
  PROVE  Awaited'
<1>0. None \notin Key
  BY EventAssumption
<1>1. ASSUME NEW r \in Req, NEW j \in Key, Push(r, j) PROVE Awaited'
  BY <1>0, <1>1 DEF Typed, TypeOK, Placed, Awaited, UnderWay, Lost, Push, Goto, tables, InTry, Over, Answered
<1>2. ASSUME NEW r \in Req, Lookup(r) PROVE Awaited'
  BY <1>2 DEF Typed, TypeOK, Placed, Awaited, UnderWay, Lost, Lookup, Goto, tables, history, InTry
<1>3. ASSUME NEW r \in Req, Insert(r) PROVE Awaited'
  BY <1>0, <1>3 DEF Typed, TypeOK, Placed, Awaited, UnderWay, Lost, Insert, Goto, history, InTry
<1>4. ASSUME NEW r \in Req, Reset(r) PROVE Awaited'
  BY <1>0, <1>4 DEF Typed, TypeOK, Placed, Awaited, UnderWay, Lost, Reset, Goto, history, InTry
<1>5. ASSUME NEW r \in Req, Inside(r) PROVE Awaited'
  BY <1>5 DEF Typed, TypeOK, Placed, Awaited, UnderWay, Lost, Inside, InTry, Outside, Over, Answered
<1>6. ASSUME NEW r \in Req, AddSignup(r) PROVE Awaited'
  BY <1>6 DEF Typed, TypeOK, Placed, Awaited, UnderWay, Lost, AddSignup, Goto, InTry
<1>7. ASSUME NEW r \in Req, MarkProcessed(r) PROVE Awaited'
  BY <1>0, <1>7 DEF Typed, TypeOK, Placed, Awaited, UnderWay, Lost, MarkProcessed, WriteStatus, Finish, Goto, history, InTry
<1>8. ASSUME NEW r \in Req, MarkFailed(r) PROVE Awaited'
  BY <1>0, <1>8 DEF Typed, TypeOK, Placed, Awaited, UnderWay, Lost, MarkFailed, WriteStatus, Finish, Goto, InTry
<1>9. ASSUME Crash PROVE Awaited'
  BY <1>9 DEF Typed, TypeOK, Placed, Awaited, UnderWay, Lost, Crash, tables, history, InTry
<1>10. ASSUME DeleteLead \/ DeleteCompany \/ UNCHANGED vars PROVE Awaited'
  BY <1>10 DEF Typed, TypeOK, Placed, Awaited, UnderWay, Lost, DeleteLead, DeleteCompany, vars, tables, history
<1> QED BY NextCases, <1>1, <1>2, <1>3, <1>4, <1>5, <1>6, <1>7, <1>8, <1>9, <1>10

\* The events that are admitted and still to be ingested.
Open == {k \in Key : \E r \in Handling(k) : pc[r] \notin {"mark", "fail"}}

\* A step that ingests nothing, settles nothing and admits nothing is a step of the
\* ledger that loses the attempts it ends, or none.
LEMMA LedgerDrops ==
  ASSUME UNCHANGED <<delivery, ingested>>, Open' \subseteq Open
  PROVE  [Ledger!Next]_(Ledger!vars)
<1>1. CASE Open' = Open
  BY <1>1 DEF Ledger!vars, Open
<1>2. CASE Open' # Open
  <2>0. PICK lost \in SUBSET Key : lost = Open \ Open'
    BY DEF Open
  <2>1. lost # {} /\ lost \subseteq Open /\ Open' = Open \ lost
    BY <1>2, <2>0
  <2>2. Ledger!Drop(lost)
    BY <2>1 DEF Ledger!Drop, Open
  <2>3. Ledger!Next
    BY <2>1, <2>2, Zenon DEF Ledger!Next
  <2> QED BY <2>3
<1> QED BY <1>1, <1>2

\* Every step of the intake is one of the ledger, or leaves it as it is.
LEMMA LedgerStep ==
  ASSUME Typed, Processed, Awaited, [Next]_vars
  PROVE  [Ledger!Next]_(Ledger!vars)
<1>0. None \notin Key
  BY EventAssumption
<1>1. ASSUME NEW r \in Req, NEW j \in Key, Push(r, j) PROVE [Ledger!Next]_(Ledger!vars)
  <2>1. Open' \subseteq Open
    BY <1>0, <1>1 DEF Typed, TypeOK, Placed, Awaited, Push, Goto, Open, Handling, InTry, tables
  <2> QED BY <1>1, <2>1, LedgerDrops DEF Push, tables
<1>2. ASSUME NEW r \in Req, Lookup(r) PROVE [Ledger!Next]_(Ledger!vars)
  <2>1. Open' \subseteq Open
    BY <1>2 DEF Typed, TypeOK, Lookup, Goto, Open, Handling, InTry, tables
  <2> QED BY <1>2, <2>1, LedgerDrops DEF Lookup, tables, history
<1>3. ASSUME NEW r \in Req, Inside(r) PROVE [Ledger!Next]_(Ledger!vars)
  <2>1. Open' \subseteq Open
    BY <1>3 DEF Typed, TypeOK, Inside, Open, Handling, InTry, Over, Answered, Outside
  <2> QED BY <1>3, <2>1, LedgerDrops DEF Inside
<1>4. ASSUME Crash \/ DeleteLead \/ DeleteCompany \/ UNCHANGED vars PROVE [Ledger!Next]_(Ledger!vars)
  <2>1. Open' \subseteq Open
    BY <1>4 DEF Typed, TypeOK, Crash, DeleteLead, DeleteCompany, vars, tables, Open, Handling, InTry
  <2> QED BY <1>4, <2>1, LedgerDrops DEF Crash, DeleteLead, DeleteCompany, vars, tables, history
<1>5. ASSUME NEW r \in Req, Insert(r) \/ Reset(r) PROVE [Ledger!Next]_(Ledger!vars)
  <2>1. PICK k \in Key : k = key[r]
    BY <1>5 DEF Typed, Placed, Insert, Reset
  <2>2. CASE Insert(r) /\ delivery[key[r]] # "absent"
    <3>1. Open' \subseteq Open
      BY <2>2 DEF Typed, TypeOK, Insert, Goto, Open, Handling, InTry
    <3> QED BY <2>2, <3>1, LedgerDrops DEF Insert, history
  <2>3. CASE (Insert(r) /\ delivery[key[r]] = "absent") \/ Reset(r)
    <3>1. Open' = Open \cup {k}
      BY <2>1, <2>3 DEF Typed, TypeOK, Insert, Reset, Goto, Open, Handling, InTry
    <3>2. delivery[k] \in {"absent", "failed"}
      BY <2>1, <2>3 DEF Awaited, Reset
    <3>3. Ledger!Admit(k)
      BY <2>1, <2>3, <3>1, <3>2 DEF Ledger!Admit, Open, Insert, Reset, history
    <3>4. Ledger!Next
      BY <3>3, Zenon DEF Ledger!Next
    <3> QED BY <3>4
  <2> QED BY <1>5, <2>2, <2>3
<1>6. ASSUME NEW r \in Req, AddSignup(r) PROVE [Ledger!Next]_(Ledger!vars)
  <2>0. PICK k \in Key : k = key[r]
    BY <1>6 DEF Typed, Placed, AddSignup
  <2>1. pc[r] = "signup" /\ key' = key /\ pc' = [pc EXCEPT ![r] = "mark"]
    BY <1>6 DEF Typed, Placed, AddSignup, Goto
  <2>2. \A q \in Req : key[q] = k /\ pc[q] \in InTry => q = r
    BY <1>0, <2>0, <2>1 DEF Awaited, UnderWay, Lost, InTry
  <2>3. k \in Open /\ Open' = Open \ {k}
    BY <2>0, <2>1, <2>2 DEF Typed, TypeOK, Open, Handling, InTry
  <2>4. Ledger!Ingest(k)
    BY <1>6, <2>0, <2>3 DEF Ledger!Ingest, Open, AddSignup
  <2>5. Ledger!Next
    BY <2>4, Zenon DEF Ledger!Next
  <2> QED BY <2>5
<1>7. ASSUME NEW r \in Req, MarkProcessed(r) \/ MarkFailed(r) PROVE [Ledger!Next]_(Ledger!vars)
  <2>0. PICK k \in Key : k = key[r]
    BY <1>7 DEF Typed, Placed, MarkProcessed, MarkFailed
  <2>1. /\ pc[r] \in {"mark", "fail"} /\ key' = key
        /\ \E label \in Over : pc' = [pc EXCEPT ![r] = label]
        /\ delivery[k] = "received"
    BY <1>7, <2>0 DEF Typed, Placed, MarkProcessed, MarkFailed, Finish, Goto, Awaited, InTry, Over, Answered
  <2>2. \A q \in Req : key[q] = k /\ pc[q] \in InTry => q = r
    BY <1>0, <2>0, <2>1 DEF Awaited, UnderWay, Lost, InTry
  <2>3. k \notin Open /\ Open' = Open
    BY <2>0, <2>1, <2>2 DEF Typed, TypeOK, Open, Handling, InTry, Over, Answered
  <2>4. CASE delivery' = delivery
    BY <1>7, <2>3, <2>4, LedgerDrops DEF MarkProcessed, MarkFailed, history
  <2>5. CASE delivery' # delivery
    <3>1. \/ pc[r] = "mark" /\ delivery' = [delivery EXCEPT ![k] = "processed"]
          \/ delivery' = [delivery EXCEPT ![k] = "failed"]
      BY <1>7, <2>0, <2>5 DEF Typed, TypeOK, MarkProcessed, MarkFailed, WriteStatus
    <3>2. pc[r] = "mark" => ingested[k] > 0
      BY <2>0 DEF Processed
    <3>3. Ledger!Settle(k)
      BY <1>7, <2>1, <2>3, <3>1, <3>2 DEF Ledger!Settle, Open, MarkProcessed, MarkFailed, history
    <3>4. Ledger!Next
      BY <3>3, Zenon DEF Ledger!Next
    <3> QED BY <3>4
  <2> QED BY <2>4, <2>5
<1> QED BY NextCases, <1>1, <1>2, <1>3, <1>4, <1>5, <1>6, <1>7

\* When the sender awaits an answer before it pushes an event again, the handler
\* keeps what the ledger promises: an event is admitted when it is new or failed, an
\* admission ingests it once at most, and processed means ingested.
THEOREM LedgerImplemented ==
  ASSUME Patient
  PROVE  Spec => LedgerSpec
<1>1. Init => Awaited /\ Processed /\ Ledger!Init
  <2> SUFFICES ASSUME Init PROVE Awaited /\ Processed /\ Ledger!Init
    OBVIOUS
  <2>1. \A k \in Key : Handling(k) = {}
    BY DEF Init, Handling, InTry
  <2>2. Awaited
    <3>1. \A r \in Req : pc[r] = "idle" /\ key[r] = None
      BY DEF Init
    <3>2. "idle" \notin InTry /\ "idle" # "reset"
      BY DEF InTry
    <3>3. \A r \in Req : pc[r] # "reset" /\ pc[r] \notin InTry
      BY <3>1, <3>2
    <3> HIDE DEF Init
    <3> QED BY <3>1, <3>3 DEF Awaited, UnderWay
  <2>3. Open = {}
    BY <2>1 DEF Open
  <2>4. Processed
    BY DEF Init, Processed, ProcessedIngested
  <2>5. Ledger!Init
    BY <2>3 DEF Init, Open, Ledger!Init
  <2> QED BY <2>2, <2>4, <2>5
<1>2. Typed /\ Awaited /\ [Next]_vars => Awaited'
  BY AwaitedStep
<1>3. Typed /\ Processed /\ [Next]_vars => Processed'
  BY ProcessedStep
<1>4. Typed /\ Processed /\ Awaited /\ [Next]_vars => [Ledger!Next]_(Ledger!vars)
  BY LedgerStep
<1>5. Spec => [](Typed /\ Processed /\ Awaited)
  BY <1>1, <1>2, <1>3, TypedAlways, PTL DEF Spec
<1>6. Ledger!Spec <=> Ledger!Init /\ [][Ledger!Next]_(Ledger!vars)
  BY DEF Ledger!Spec
<1> QED BY <1>1, <1>4, <1>5, <1>6, PTL DEF Spec, LedgerSpec

-----------------------------------------------------------------------------
(***************************************************************************)
(* Serial runs.  While one request at most is under way, what its session  *)
(* has loaded is what the tables hold.                                     *)
(***************************************************************************)
Live(p) == prospect[p].state = "live"
RowsOf(p) == {s \in signups : s.prospect = p}

\* Where a session has looked for the event's user id and email, where the values
\* it touches with are loaded, and where it has touched and not yet signed up.
Searched == Bound \cup {"create"}
Fresh == {"enrich", "company", "resnap", "attach", "touch"}
Touched == {"loadM", "register", "job", "loadU", "setuid", "signup"}

\* What a lone session knows of the tables.
SerialSession(r) ==
    /\ pc[r] = "create" => \A p \in Pid : Live(p) => prospect[p].email # Ev(r).email
    /\ pc[r] \in Searched /\ Ev(r).uid # None =>
         \A p \in Pid : prospect[p].uid = Ev(r).uid
                          => pc[r] # "create" /\ p = loc[r].pid
    /\ pc[r] \in Fresh => /\ loc[r].row.touch = touches[loc[r].pid]
                          /\ loc[r].chan = touches[loc[r].pid]
    /\ pc[r] \in Touched => Cardinality(RowsOf(loc[r].pid)) < touches[loc[r].pid]

\* The two counters and the two keys of the prospects table.
SerialTables ==
    /\ IsFiniteSet(signups)
    /\ \A p \in Pid : ~Taken(p) => prospect[p] = Unused
    /\ \A p \in Pid : prospect[p].touch = touches[p]
    /\ \A p \in Pid : Cardinality(RowsOf(p)) <= touches[p]
    /\ \A p, q \in Pid : prospect[p].uid # None /\ prospect[p].uid = prospect[q].uid
                           => p = q
    /\ \A p, q \in Pid : Live(p) /\ Live(q) /\ prospect[p].email = prospect[q].email
                           => p = q

Alive == \A q, r \in Active : q = r

Serial == ~overlap => Alive /\ SerialTables /\ \A r \in Req : SerialSession(r)

\* The labels that say something of the tables.
LEMMA SearchedLabels ==
  /\ Fresh \subseteq Bound /\ Touched \subseteq Bound
  /\ Bound \subseteq InTry /\ Searched \subseteq InTry
  /\ "create" \notin Bound /\ Searched = Bound \cup {"create"}
  BY DEF Fresh, Touched, Searched, Bound, InTry

\* A session at no such label knows nothing.
LEMMA OutsideSerial ==
  ASSUME NEW r \in Req, pc[r] \notin Searched
  PROVE  SerialSession(r)
  BY SearchedLabels DEF SerialSession

\* It is enough to look at the one session that is under way.
LEMMA OneSession ==
  ASSUME Alive, NEW r \in Req, r \in Active, Alone(r), Typed
  PROVE  Alive' /\ \A q \in Req \ {r} : SerialSession(q)'
<1>1. \A q \in Req \ {r} : pc'[q] = pc[q] /\ pc[q] \notin Outside \cup InTry
  BY DEF Alone, Alive, Active
<1>2. Alive'
  BY <1>1 DEF Alive, Active
<1>3. ASSUME NEW q \in Req \ {r} PROVE SerialSession(q)'
  <2>1. pc'[q] \notin Searched
    BY <1>1, SearchedLabels
  <2> QED BY <2>1, SearchedLabels DEF SerialSession
<1> QED BY <1>2, <1>3

\* Writing another column of a row that exists keeps the counters and the keys.
LEMMA OtherColumn ==
  ASSUME Typed, SerialTables, NEW p \in Pid, Taken(p), NEW row,
         prospect' = [prospect EXCEPT ![p] = row],
         row.state = prospect[p].state \/ row.state = "deleted",
         row.email = prospect[p].email,
         row.uid = prospect[p].uid, row.touch = prospect[p].touch,
         UNCHANGED <<touches, signups>>
  PROVE  SerialTables'
<1>1. \A q \in Pid : prospect'[q] = IF q = p THEN row ELSE prospect[q]
  BY DEF Typed, TypeOK
<1>2. \A q \in Pid : /\ prospect'[q].uid = prospect[q].uid
                     /\ prospect'[q].email = prospect[q].email
                     /\ prospect'[q].touch = prospect[q].touch
                     /\ Live(q)' => Live(q)
  BY <1>1 DEF Live
<1>3. \A q \in Pid : Taken(q)' \/ prospect'[q] = Unused
  BY <1>1 DEF SerialTables, Taken
<1> QED BY <1>2, <1>3 DEF SerialTables, RowsOf

\* A step after which the session is at no such label, and that writes no prospect.
LEMMA LeavesSerial ==
  ASSUME Typed, Milestones, Serial, ~overlap, NEW r \in Req, r \in Active,
         Lookup(r) \/ Insert(r) \/ Reset(r) \/ MarkProcessed(r) \/ MarkFailed(r)
           \/ SoftFault(r) \/ HardFault(r)
  PROVE  /\ SerialTables' /\ SerialSession(r)'
<1>1. UNCHANGED <<prospect, touches, signups>>
  BY DEF Lookup, Insert, Reset, MarkProcessed, MarkFailed, SoftFault, HardFault, tables
<1>2. pc'[r] \notin Searched
  BY DEF Lookup, Insert, Reset, MarkProcessed, MarkFailed, SoftFault, HardFault, Finish,
         Goto, Searched, Bound, InTry, Typed, TypeOK
<1>3. SerialSession(r)'
  BY <1>2, SearchedLabels DEF SerialSession
<1> QED BY <1>1, <1>3 DEF Serial, SerialTables, RowsOf, Taken, Live

\* The lookups find the prospect of the user id, or see that there is none.
LEMMA ResolveSerial ==
  ASSUME Typed, Milestones, Serial, ~overlap, NEW r \in Req, Resolve(r)
  PROVE  SerialTables' /\ SerialSession(r)'
<1>1. UNCHANGED <<prospect, touches, signups, key>> /\ SerialTables
  BY DEF Resolve, tables, Serial
<1>2. SerialTables'
  BY <1>1 DEF SerialTables, RowsOf, Taken, Live
<1>3. \A p \in Pid : Ev(r).uid # None /\ prospect[p].uid = Ev(r).uid => p \in ByUid(r)
  BY <1>1 DEF SerialTables, ByUid, Taken, Unused
<1>4. \A p \in Matches(r), q \in Pid :
        Ev(r).uid # None /\ prospect[q].uid = Ev(r).uid => p = q
  BY <1>1, <1>3 DEF SerialTables, Matches, ByUid
<1>5. CASE pc'[r] \notin Searched
  BY <1>2, <1>5, SearchedLabels DEF SerialSession
<1>6. CASE pc'[r] = "create" /\ Matches(r) = {} /\ Ev(r).email # None
  <2>1. \A p \in Pid : Live(p) => prospect[p].email # Ev(r).email
    BY <1>6 DEF Matches, ByEmail, Live
  <2>2. \A p \in Pid : Ev(r).uid # None => prospect[p].uid # Ev(r).uid
    BY <1>3, <1>6 DEF Matches
  <2> QED BY <1>1, <1>2, <1>6, <2>1, <2>2, SearchedLabels DEF SerialSession, Ev, Live
<1>7. ASSUME NEW p \in Matches(r), NEW status \in Statuses,
             loc' = [loc EXCEPT ![r] = Loaded(r, p, status)],
             pc'[r] \in Fresh
      PROVE  SerialSession(r)'
  <2>1. p \in Pid
    BY DEF Matches, ByUid, ByEmail
  <2>2. loc'[r].pid = p /\ loc'[r].row.touch = touches[p] /\ loc'[r].chan = touches[p]
    BY <1>1, <1>7, <2>1 DEF Loaded, Typed, TypeOK, SerialTables
  <2>3. pc'[r] # "create" /\ pc'[r] \notin Touched
    BY <1>7 DEF Fresh, Touched
  <2> QED BY <1>1, <1>4, <2>1, <2>2, <2>3 DEF SerialSession, Ev
<1>8. key[r] \in Key
  BY DEF Resolve, Typed, Placed
<1>9. \/ pc'[r] \in {"fail", "unresolved"}
      \/ pc'[r] = "create" /\ Matches(r) = {} /\ Ev(r).email # None
      \/ \E p \in Matches(r) : /\ loc' = [loc EXCEPT ![r] = Loaded(r, p, delivery[key[r]])]
                               /\ pc'[r] \in Fresh
  BY DEF Resolve, Finish, Goto, AfterResolve, Fresh, Typed, TypeOK
<1>10. delivery[key[r]] \in Statuses
  BY <1>8 DEF Typed, TypeOK
<1>11. "fail" \notin Searched /\ "unresolved" \notin Searched
  BY DEF Searched, Bound, InTry
<1> QED BY <1>2, <1>5, <1>6, <1>7, <1>9, <1>10, <1>11

\* The new prospect has an email that no live one has, and no user id yet.
LEMMA CreateSerial ==
  ASSUME Typed, Milestones, Serial, ~overlap, NEW r \in Req, Create(r)
  PROVE  SerialTables' /\ SerialSession(r)'
<1> DEFINE new == [Unused EXCEPT !.state = "live", !.email = Ev(r).email,
                                 !.name = IF Ev(r).named THEN key[r] ELSE None]
<1>0. new.state = "live" /\ new.email = Ev(r).email /\ new.uid = None /\ new.touch = 0
  BY DEF Unused
<1> HIDE DEF new
<1>1. PICK p \in Pid : /\ prospect[p].state = "free"
                       /\ prospect' = [prospect EXCEPT ![p] = new]
                       /\ loc' = [loc EXCEPT ![r].pid = p]
  BY DEF Create, new
<1>2. UNCHANGED <<touches, signups, key>> /\ pc[r] = "create" /\ pc'[r] = "load"
  BY DEF Create, Goto, Typed, TypeOK
<1>3. SerialTables /\ SerialSession(r)
  BY DEF Serial
<1>4. \A q \in Pid : prospect'[q] = IF q = p THEN new ELSE prospect[q]
  BY <1>1 DEF Typed, TypeOK
<1>5. prospect[p] = Unused /\ prospect[p].uid = None /\ touches[p] = 0
  <2>1. prospect[p] = Unused
    BY <1>1, <1>3 DEF SerialTables, Taken
  <2>2. Unused.uid = None /\ Unused.touch = 0
    BY DEF Unused
  <2>3. prospect[p].touch = touches[p]
    BY <1>3 DEF SerialTables
  <2> QED BY <2>1, <2>2, <2>3
<1>6. \A q \in Pid : Live(q) => prospect[q].email # new.email
  BY <1>0, <1>2, <1>3 DEF SerialSession
<1>7. SerialTables'
  <2>1. \A q \in Pid : Taken(q)' \/ prospect'[q] = Unused
    BY <1>0, <1>3, <1>4 DEF SerialTables, Taken
  <2>2. \A q \in Pid : prospect'[q].touch = touches'[q]
    BY <1>0, <1>2, <1>3, <1>4, <1>5 DEF SerialTables
  <2>3. \A q, q2 \in Pid : prospect'[q].uid # None /\ prospect'[q].uid = prospect'[q2].uid
                             => q = q2
    BY <1>0, <1>3, <1>4 DEF SerialTables
  <2>4. \A q, q2 \in Pid : Live(q)' /\ Live(q2)' /\ prospect'[q].email = prospect'[q2].email
                             => q = q2
    BY <1>0, <1>3, <1>4, <1>6 DEF SerialTables, Live
  <2> QED BY <1>2, <1>3, <2>1, <2>2, <2>3, <2>4 DEF SerialTables, RowsOf
<1>8. loc'[r].pid = p
  BY <1>1 DEF Typed, TypeOK, Loc
<1>9. Ev(r)' = Ev(r)
  BY <1>2 DEF Ev
<1>10. \A q \in Pid : Ev(r).uid # None /\ prospect'[q].uid = Ev(r).uid => q = p
  <2>1. \A q \in Pid : Ev(r).uid # None => prospect[q].uid # Ev(r).uid
    BY <1>2, <1>3, SearchedLabels DEF SerialSession
  <2> QED BY <1>4, <2>1
<1>11. "load" \notin Fresh /\ "load" \notin Touched
  BY DEF Fresh, Touched
<1> QED BY <1>2, <1>7, <1>8, <1>9, <1>10, <1>11 DEF SerialSession

\* The steps that write one column of the prospect they work on.
LEMMA ColumnSerial ==
  ASSUME Typed, Milestones, Serial, ~overlap, NEW r \in Req,
         Enrich(r) \/ AttachCompany(r) \/ SetRegistered(r) \/ SetFirstJobCreated(r)
  PROVE  SerialTables' /\ SerialSession(r)'
<1>1. UNCHANGED <<touches, signups, key, loc>> /\ SerialTables /\ SerialSession(r)
  BY DEF Enrich, AttachCompany, SetRegistered, SetFirstJobCreated, Serial
<1>2. pc[r] \in {"enrich", "attach", "register", "job"}
      /\ pc'[r] \in {"load", "loadT", "loadU"}
      /\ (pc'[r] = "loadU" => pc[r] \in {"register", "job"})
  BY DEF Enrich, AttachCompany, SetRegistered, SetFirstJobCreated, Goto, Typed, TypeOK
<1>3. PICK p : p = loc[r].pid
  OBVIOUS
<1>4. p \in Pid /\ Taken(p)
  BY <1>2, <1>3, PidOfSession DEF Milestones, SessionOk, Bound, InTry
<1>5. PICK row : prospect' = [prospect EXCEPT ![p] = row]
                 /\ row.state = prospect[p].state /\ row.email = prospect[p].email
                 /\ row.uid = prospect[p].uid /\ row.touch = prospect[p].touch
  <2>1. prospect[p] \in Row
    BY <1>4 DEF Typed, TypeOK
  <2>2. CASE Enrich(r)
    <3> WITNESS [prospect[p] EXCEPT !.name = key[r]]
    <3> QED BY <1>3, <2>1, <2>2 DEF Enrich, Row
  <2>3. CASE AttachCompany(r)
    <3> WITNESS [prospect[p] EXCEPT !.company = Ev(r).domain]
    <3> QED BY <1>3, <2>1, <2>3 DEF AttachCompany, Row
  <2>4. CASE SetRegistered(r)
    <3> WITNESS [prospect[p] EXCEPT !.registered = TRUE]
    <3> QED BY <1>3, <2>1, <2>4 DEF SetRegistered, Row
  <2>5. CASE SetFirstJobCreated(r)
    <3> DEFINE n == IF loc[r].row.jobs # Ev(r).jobs THEN Ev(r).jobs ELSE prospect[p].jobs
    <3>1. prospect' = [prospect EXCEPT ![p] = [prospect[p] EXCEPT !.firstJob = TRUE, !.jobs = n]]
      BY <1>3, <1>4, <2>1, <2>5 DEF SetFirstJobCreated, Typed, TypeOK, Row
    <3> HIDE DEF n
    <3> WITNESS [prospect[p] EXCEPT !.firstJob = TRUE, !.jobs = n]
    <3> QED BY <2>1, <3>1 DEF Row
  <2> QED BY <2>2, <2>3, <2>4, <2>5
<1>6. SerialTables'
  BY <1>1, <1>4, <1>5, OtherColumn
<1>7. \A q \in Pid : prospect'[q].uid = prospect[q].uid
  BY <1>5 DEF Typed, TypeOK
<1>8. /\ pc[r] \in Searched /\ pc'[r] # "create" /\ pc'[r] \notin Fresh
      /\ pc'[r] \in Touched => pc[r] \in Touched
  BY <1>2 DEF Searched, Bound, InTry, Fresh, Touched
<1> QED BY <1>1, <1>6, <1>7, <1>8 DEF SerialSession, Ev, RowsOf

\* No other prospect has the user id that is written.
LEMMA UidSerial ==
  ASSUME Typed, Milestones, Serial, ~overlap, NEW r \in Req, SetThhUserId(r)
  PROVE  SerialTables' /\ SerialSession(r)'
<1>1. /\ UNCHANGED <<touches, signups, key, loc>> /\ SerialTables /\ SerialSession(r)
      /\ pc[r] = "setuid" /\ pc'[r] = "signup"
  BY DEF SetThhUserId, Serial, Goto, Typed, TypeOK
<1>2. PICK p \in Pid : p = loc[r].pid
  BY <1>1, PidOfSession DEF Bound, InTry
<1>3. Ev(r).uid # None /\ Taken(p)
  BY <1>1, <1>2 DEF Milestones, SessionOk, Identifies, Bound, InTry
<1>4. \A q \in Pid : prospect[q].uid = Ev(r).uid => q = p
  BY <1>1, <1>2, <1>3 DEF SerialSession, Searched, Bound, InTry
<1>5. \A q \in Pid : /\ prospect'[q].state = prospect[q].state
                     /\ prospect'[q].email = prospect[q].email
                     /\ prospect'[q].touch = prospect[q].touch
                     /\ prospect'[q].uid = (IF q = p THEN Ev(r).uid ELSE prospect[q].uid)
                     /\ q # p => prospect'[q] = prospect[q]
  BY <1>2 DEF SetThhUserId, Typed, TypeOK, Row
<1>6. SerialTables'
  <2>1. \A q \in Pid : Taken(q)' \/ prospect'[q] = Unused
    BY <1>1, <1>3, <1>5 DEF SerialTables, Taken
  <2>2. \A q, q2 \in Pid : prospect'[q].uid # None /\ prospect'[q].uid = prospect'[q2].uid
                             => q = q2
    BY <1>1, <1>4, <1>5 DEF SerialTables
  <2>3. \A q, q2 \in Pid : Live(q)' /\ Live(q2)' /\ prospect'[q].email = prospect'[q2].email
                             => q = q2
    BY <1>1, <1>5 DEF SerialTables, Live
  <2>4. \A q \in Pid : prospect'[q].touch = touches'[q]
    BY <1>1, <1>5 DEF SerialTables
  <2> QED BY <1>1, <2>1, <2>2, <2>3, <2>4 DEF SerialTables, RowsOf
<1>7. \A q \in Pid : prospect'[q].uid = Ev(r).uid => q = p
  BY <1>4, <1>5
<1>8. "signup" \notin Fresh /\ "setuid" \in Touched
  BY DEF Fresh, Touched
<1> QED BY <1>1, <1>2, <1>6, <1>7, <1>8 DEF SerialSession, Ev, RowsOf

\* A fresh snapshot is what the tables hold.
LEMMA RefreshSerial ==
  ASSUME Typed, Milestones, Serial, ~overlap, NEW r \in Req,
         Refresh(r) \/ CompanyUpsert(r) \/ Resnap(r)
  PROVE  SerialTables' /\ SerialSession(r)'
<1>1. UNCHANGED <<prospect, touches, signups, key>> /\ SerialTables /\ SerialSession(r)
  BY DEF Refresh, CompanyUpsert, Resnap, tables, Serial
<1>2. SerialTables'
  BY <1>1 DEF SerialTables, RowsOf, Taken, Live
<1>3. PICK p : p = loc[r].pid
  OBVIOUS
<1>4. pc[r] \in Searched /\ p \in Pid
  BY <1>3, PidOfSession DEF Refresh, CompanyUpsert, Resnap, Searched, Bound, InTry
<1>5. loc'[r].pid = p
  BY <1>3 DEF Refresh, CompanyUpsert, Resnap, Loaded, Typed, TypeOK, Loc
<1>6. pc'[r] # "create" /\ (pc'[r] \in Touched => pc[r] \in Touched)
  BY DEF Refresh, CompanyUpsert, Resnap, AfterResolve, AfterCompany, AfterTouch, UidStep,
         Goto, Touched, Typed, TypeOK
<1>7. ASSUME pc'[r] \in Fresh
      PROVE  loc'[r].row.touch = touches[p] /\ loc'[r].chan = touches[p]
  <2>1. CASE Refresh(r)
    BY <1>1, <1>3, <1>4, <2>1 DEF Refresh, Loaded, SerialTables, Typed, TypeOK
  <2>2. CASE CompanyUpsert(r)
    BY <1>1, <1>3, <2>2 DEF CompanyUpsert, SerialSession, Fresh
  <2>3. CASE Resnap(r)
    BY <1>1, <1>3, <2>3 DEF Resnap, SerialSession, Fresh, Typed, TypeOK, Loc
  <2> QED BY <2>1, <2>2, <2>3
<1> QED BY <1>1, <1>2, <1>3, <1>4, <1>5, <1>6, <1>7 DEF SerialSession, Ev, RowsOf

\* A touch counts both counters up, or finds nothing amiss.
LEMMA TouchSerial ==
  ASSUME Typed, Milestones, Serial, ~overlap, NEW r \in Req, Touch(r)
  PROVE  SerialTables' /\ SerialSession(r)'
<1>1. /\ UNCHANGED <<signups, key>> /\ SerialTables /\ SerialSession(r)
      /\ pc[r] = "touch" /\ pc'[r] \in {"err500", "loadM"}
  BY DEF Touch, Finish, Serial, Goto, Typed, TypeOK
<1>2. PICK p \in Pid : p = loc[r].pid
  BY <1>1, PidOfSession DEF Bound, InTry
<1>3. Taken(p) /\ pc[r] \in Searched
  BY <1>1, <1>2 DEF Milestones, SessionOk, Bound, InTry, Searched
<1>4. loc[r].row.touch = touches[p] /\ loc[r].chan = touches[p] /\ touches[p] \in Nat
  BY <1>1, <1>2 DEF SerialSession, Fresh, Typed, TypeOK
<1>5. CASE pc'[r] = "err500"
  <2>1. UNCHANGED <<prospect, touches>> /\ pc'[r] \notin Searched
    BY <1>5 DEF Touch, Searched, Bound, InTry, Goto, Typed, TypeOK
  <2>2. SerialSession(r)'
    BY <2>1, SearchedLabels DEF SerialSession
  <2> QED BY <1>1, <2>1, <2>2 DEF SerialTables, RowsOf, Taken, Live
<1>6. CASE pc'[r] = "loadM"
  <2>1. /\ prospect' = [prospect EXCEPT ![p].touch = touches[p] + 1]
        /\ touches' = [touches EXCEPT ![p] = touches[p] + 1]
        /\ loc' = loc
    BY <1>2, <1>4, <1>6 DEF Touch, Finish, Goto, Typed, TypeOK
  <2>2. \A q \in Pid : /\ prospect'[q].state = prospect[q].state
                       /\ prospect'[q].email = prospect[q].email
                       /\ prospect'[q].uid = prospect[q].uid
                       /\ prospect'[q].touch = (IF q = p THEN touches[p] + 1 ELSE prospect[q].touch)
                       /\ touches'[q] = (IF q = p THEN touches[p] + 1 ELSE touches[q])
                       /\ q # p => prospect'[q] = prospect[q]
    BY <2>1 DEF Typed, TypeOK, Row
  <2>3. \A q \in Pid : Taken(q)' \/ prospect'[q] = Unused
    BY <1>1, <1>3, <2>2 DEF SerialTables, Taken
  <2>4. \A q \in Pid : prospect'[q].touch = touches'[q]
    BY <1>1, <2>2 DEF SerialTables
  <2>5. \A q \in Pid : Cardinality(RowsOf(q)) \in Nat
    <3> SUFFICES ASSUME NEW q \in Pid PROVE Cardinality(RowsOf(q)) \in Nat
      OBVIOUS
    <3>1. RowsOf(q) \in SUBSET signups
      BY DEF RowsOf
    <3> QED BY <1>1, <3>1, FS_Subset, FS_CardinalityType DEF SerialTables
  <2>6. \A q \in Pid : /\ RowsOf(q)' = RowsOf(q)
                       /\ Cardinality(RowsOf(q)) <= touches'[q]
                       /\ q = p => Cardinality(RowsOf(q)) < touches'[q]
    <3>1. \A q \in Pid : RowsOf(q)' = RowsOf(q)
      BY <1>1 DEF RowsOf
    <3>2. \A q \in Pid : Cardinality(RowsOf(q)) <= touches[q]
      BY <1>1 DEF SerialTables
    <3> HIDE DEF RowsOf
    <3> QED BY <1>4, <2>2, <2>5, <3>1, <3>2
  <2>7. SerialTables'
    <3>1. \A q, q2 \in Pid : prospect'[q].uid # None /\ prospect'[q].uid = prospect'[q2].uid
                               => q = q2
      BY <1>1, <2>2 DEF SerialTables
    <3>2. \A q, q2 \in Pid : Live(q)' /\ Live(q2)' /\ prospect'[q].email = prospect'[q2].email
                               => q = q2
      BY <1>1, <2>2 DEF SerialTables, Live
    <3> QED BY <1>1, <2>3, <2>4, <2>6, <3>1, <3>2 DEF SerialTables
  <2>8. "loadM" \notin Fresh
    BY DEF Fresh
  <2> QED BY <1>1, <1>2, <1>3, <1>6, <2>1, <2>2, <2>6, <2>7, <2>8 DEF SerialSession, Ev
<1> QED BY <1>1, <1>5, <1>6

\* The row that is added was paid for by a touch.
LEMMA SignupSerial ==
  ASSUME Typed, Milestones, Serial, ~overlap, NEW r \in Req, AddSignup(r)
  PROVE  SerialTables' /\ SerialSession(r)'
<1>1. /\ UNCHANGED <<prospect, touches, key, loc>> /\ SerialTables /\ SerialSession(r)
      /\ pc[r] = "signup" /\ pc'[r] = "mark"
  BY DEF AddSignup, Serial, Goto, Typed, TypeOK
<1>2. PICK p \in Pid : p = loc[r].pid
  BY <1>1, PidOfSession DEF Bound, InTry
<1>3. PICK new : /\ new = [req |-> r, prospect |-> p, verified |-> Ev(r).kind = "L3"]
                 /\ signups' = signups \cup {new}
  BY <1>2 DEF AddSignup
<1>4. new.prospect = p
  BY <1>3
<1>5. RowsOf(p)' = RowsOf(p) \cup {new} /\ \A q \in Pid \ {p} : RowsOf(q)' = RowsOf(q)
  BY <1>3, <1>4 DEF RowsOf
<1>6. IsFiniteSet(RowsOf(p)) /\ IsFiniteSet(signups')
  <2>1. RowsOf(p) \in SUBSET signups
    BY DEF RowsOf
  <2> QED BY <1>1, <1>3, <2>1, FS_Subset, FS_AddElement DEF SerialTables
<1>7. Cardinality(RowsOf(p)') <= touches[p]
  <2>1. Cardinality(RowsOf(p)) \in Nat
    BY <1>6, FS_CardinalityType
  <2>2. Cardinality(RowsOf(p)) < touches[p] /\ touches[p] \in Nat
    BY <1>1, <1>2 DEF SerialSession, Touched, Typed, TypeOK
  <2>3. Cardinality(RowsOf(p) \cup {new}) \in {Cardinality(RowsOf(p)), Cardinality(RowsOf(p)) + 1}
    BY <1>6, FS_AddElement
  <2> QED BY <1>5, <2>1, <2>2, <2>3
<1>8. SerialTables'
  <2>1. \A q \in Pid : Cardinality(RowsOf(q)') <= touches[q]
    BY <1>1, <1>5, <1>7 DEF SerialTables
  <2> QED BY <1>1, <1>6, <2>1 DEF SerialTables, Taken, Live
<1>9. /\ "mark" \notin Fresh /\ "mark" \notin Touched /\ "signup" \in Searched
  BY DEF Fresh, Touched, Searched, Bound, InTry
<1> QED BY <1>1, <1>8, <1>9 DEF SerialSession, Ev

\* The rows of a deleted lead are gone, its prospect keeps its counters and keys.
LEMMA DeleteSerial ==
  ASSUME Typed, Milestones, Serial, ~overlap, DeleteLead
  PROVE  SerialTables' /\ \A r \in Req : SerialSession(r)'
<1>1. /\ UNCHANGED <<touches, key, loc, pc>> /\ SerialTables
      /\ \A r \in Req : SerialSession(r)
  BY DEF DeleteLead, Serial
<1>2. PICK s \in signups :
        /\ signups' = {t \in signups : t.prospect # s.prospect}
        /\ prospect' = [prospect EXCEPT ![s.prospect].state = "deleted"]
  BY DEF DeleteLead
<1>3. s.prospect \in Pid /\ Taken(s.prospect)
  BY DEF Milestones, SignupOk, Typed, TypeOK
<1>4. \A q \in Pid : /\ prospect'[q].state # "free" \/ prospect'[q] = prospect[q]
                     /\ Live(q)' => Live(q)
                     /\ prospect'[q].email = prospect[q].email
                     /\ prospect'[q].uid = prospect[q].uid
                     /\ prospect'[q].touch = prospect[q].touch
  BY <1>2, <1>3 DEF Typed, TypeOK, Row, Live
<1>5. IsFiniteSet(signups')
  BY <1>1, <1>2, FS_Subset DEF SerialTables
<1>6. \A q \in Pid : Cardinality(RowsOf(q)') \in Nat /\ Cardinality(RowsOf(q)) \in Nat
                     /\ Cardinality(RowsOf(q)') <= Cardinality(RowsOf(q))
  <2> SUFFICES ASSUME NEW q \in Pid
               PROVE  Cardinality(RowsOf(q)') \in Nat /\ Cardinality(RowsOf(q)) \in Nat
                      /\ Cardinality(RowsOf(q)') <= Cardinality(RowsOf(q))
    OBVIOUS
  <2>1. RowsOf(q) \in SUBSET signups /\ RowsOf(q)' \in SUBSET RowsOf(q)
    BY <1>2 DEF RowsOf
  <2>2. IsFiniteSet(RowsOf(q))
    BY <1>1, <2>1, FS_Subset DEF SerialTables
  <2> QED BY <2>1, <2>2, FS_Subset, FS_CardinalityType
<1>7. \A q \in Pid : Cardinality(RowsOf(q)) <= touches[q] /\ touches[q] \in Nat
  BY <1>1 DEF SerialTables, Typed, TypeOK
<1>8. SerialTables'
  <2>1. \A q \in Pid : Taken(q)' \/ prospect'[q] = Unused
    BY <1>1, <1>4 DEF SerialTables, Taken
  <2>2. \A q \in Pid : Cardinality(RowsOf(q)') <= touches[q]
    BY <1>6, <1>7
  <2>3. \A q, q2 \in Pid : Live(q)' /\ Live(q2)' /\ prospect'[q].email = prospect'[q2].email
                             => q = q2
    BY <1>1, <1>4 DEF SerialTables
  <2> QED BY <1>1, <1>4, <1>5, <2>1, <2>2, <2>3 DEF SerialTables
<1>9. ASSUME NEW r \in Req PROVE SerialSession(r)'
  <2>1. SerialSession(r)
    BY <1>1
  <2>2. pc[r] \in Touched => Cardinality(RowsOf(loc[r].pid)') < touches[loc[r].pid]
    <3> SUFFICES ASSUME pc[r] \in Touched
                 PROVE  Cardinality(RowsOf(loc[r].pid)') < touches[loc[r].pid]
      OBVIOUS
    <3>1. PICK p \in Pid : p = loc[r].pid
      BY PidOfSession, SearchedLabels
    <3>2. Cardinality(RowsOf(p)) < touches[p]
      BY <2>1, <3>1 DEF SerialSession
    <3>3. Cardinality(RowsOf(p)') < touches[p]
      BY <1>6, <1>7, <3>2
    <3> QED BY <1>1, <3>1, <3>3 DEF RowsOf
  <2> QED BY <1>1, <1>4, <2>1, <2>2 DEF SerialSession, Ev
<1> QED BY <1>8, <1>9

\* Every step keeps a serial run serial: two sessions make overlap true.
LEMMA SerialStep ==
  ASSUME Typed, Milestones, Serial, [Next]_vars
  PROVE  Serial'
<1> SUFFICES ASSUME ~overlap'
             PROVE  Alive' /\ SerialTables' /\ \A r \in Req : SerialSession(r)'
  BY DEF Serial
<1>1. ASSUME NEW r \in Req, NEW k \in Key, Push(r, k)
      PROVE  Alive' /\ SerialTables' /\ \A q \in Req : SerialSession(q)'
  <2>1. /\ Active = {} /\ ~overlap /\ SerialTables
        /\ UNCHANGED <<prospect, touches, signups>>
    BY <1>1 DEF Push, tables, Serial, Typed, TypeOK
  <2>2. \A q \in Req : pc'[q] \in Outside \cup InTry => q = r
    BY <1>1, <2>1 DEF Push, Goto, Active, Typed, TypeOK
  <2>3. \A q \in Req : pc'[q] \notin Searched
    BY <1>1, <2>1 DEF Push, Goto, Active, Searched, Bound, InTry, Typed, TypeOK
  <2>4. Alive'
    BY <2>2 DEF Alive, Active
  <2>5. \A q \in Req : SerialSession(q)'
    BY <2>3, SearchedLabels DEF SerialSession
  <2> QED BY <2>1, <2>4, <2>5 DEF SerialTables, RowsOf, Taken, Live
<1>2. ASSUME NEW r \in Req, Step(r) \/ SoftFault(r) \/ HardFault(r)
      PROVE  Alive' /\ SerialTables' /\ \A q \in Req : SerialSession(q)'
  <2>1. ~overlap /\ Alive
    BY <1>2 DEF Serial, Step, Lookup, Insert, Reset, Resolve, Create, Enrich, Refresh,
         CompanyUpsert, Resnap, AttachCompany, Touch, SetRegistered, SetFirstJobCreated,
         SetThhUserId, AddSignup, MarkProcessed, MarkFailed, SoftFault, HardFault, history
  <2>2. r \in Active
    BY <1>2 DEF Active, Outside, InTry, Step, Lookup, Insert, Reset, Resolve, Create,
         Enrich, Refresh, CompanyUpsert, Resnap, AttachCompany, Touch, SetRegistered,
         SetFirstJobCreated, SetThhUserId, AddSignup, MarkProcessed, MarkFailed,
         SoftFault, HardFault
  <2>3. SerialTables' /\ SerialSession(r)'
    BY <1>2, <2>1, <2>2, LeavesSerial, ResolveSerial, CreateSerial, ColumnSerial, UidSerial,
       RefreshSerial, TouchSerial, SignupSerial DEF Step
  <2>4. Alive' /\ \A q \in Req \ {r} : SerialSession(q)'
    BY <1>2, <2>1, <2>2, StepIsAlone, OneSession
  <2> QED BY <2>3, <2>4
<1>3. ASSUME Crash PROVE Alive' /\ SerialTables' /\ \A r \in Req : SerialSession(r)'
  <2>1. /\ UNCHANGED <<prospect, touches, signups, key>>
        /\ Alive /\ SerialTables /\ \A r \in Req : SerialSession(r)
    BY <1>3 DEF Crash, tables, history, Serial
  <2>2. PICK lost \in SUBSET Active :
          /\ pc' = [r \in Req |-> IF r \in lost THEN "dead" ELSE pc[r]]
          /\ loc' = [r \in Req |-> IF r \in lost THEN Unloaded("absent") ELSE loc[r]]
    BY <1>3 DEF Crash
  <2>3. "dead" \notin Outside \cup InTry
    BY DEF Outside, InTry
  <2>4. Alive'
    BY <2>1, <2>2, <2>3 DEF Alive, Active
  <2>5. ASSUME NEW r \in Req PROVE SerialSession(r)'
    <3>1. CASE pc'[r] \notin Searched
      BY <3>1, SearchedLabels DEF SerialSession
    <3>2. CASE pc'[r] \in Searched
      <4>1. pc'[r] = pc[r] /\ loc'[r] = loc[r]
        BY <2>2, <2>3, <3>2, SearchedLabels
      <4> QED BY <2>1, <4>1 DEF SerialSession, Ev, RowsOf, Live
    <3> QED BY <3>1, <3>2
  <2> QED BY <2>1, <2>4, <2>5 DEF SerialTables, RowsOf, Taken, Live
<1>4. ASSUME DeleteLead PROVE Alive' /\ SerialTables' /\ \A r \in Req : SerialSession(r)'
  <2>1. ~overlap /\ Alive /\ pc' = pc
    BY <1>4 DEF DeleteLead, history, Serial
  <2> QED BY <1>4, <2>1, DeleteSerial DEF Alive, Active
<1>5. ASSUME DeleteCompany \/ UNCHANGED vars
      PROVE  Alive' /\ SerialTables' /\ \A r \in Req : SerialSession(r)'
  <2>1. UNCHANGED <<prospect, touches, signups, pc, key, loc, overlap>>
    BY <1>5 DEF DeleteCompany, vars, tables, history
  <2>2. Alive /\ SerialTables /\ \A r \in Req : SerialSession(r)
    BY <1>5, <2>1 DEF Serial
  <2> QED BY <2>1, <2>2 DEF Alive, Active, SerialTables, SerialSession,
                 RowsOf, Taken, Live, Ev
<1> QED BY <1>1, <1>2, <1>3, <1>4, <1>5 DEF Next, Quiet

\* Nothing has been loaded and nothing is in the tables at the start.
LEMMA SerialInit == Init => Serial
<1> SUFFICES ASSUME Init PROVE Alive /\ SerialTables /\ \A r \in Req : SerialSession(r)
  BY DEF Serial
<1>1. \A r \in Req : pc[r] = "idle"
  BY DEF Init
<1>2. "idle" \notin Outside \cup InTry
  BY DEF Outside, InTry
<1>3. Alive /\ \A r \in Req : SerialSession(r)
  BY <1>1, <1>2, OutsideSerial, SearchedLabels DEF Alive, Active
<1>4. \A p \in Pid : prospect[p] = Unused /\ touches[p] = 0 /\ signups = {}
  BY DEF Init
<1>5. signups = {}
  BY DEF Init
<1>6. /\ Unused.touch = 0 /\ Unused.uid = None /\ Unused.state = "free"
  BY DEF Unused
<1>7. \A p \in Pid : Cardinality(RowsOf(p)) = 0 /\ IsFiniteSet({})
  BY <1>5, FS_EmptySet DEF RowsOf
<1> QED BY <1>3, <1>4, <1>5, <1>6, <1>7, FS_EmptySet DEF SerialTables, Live

\* The tables of a run in which no two requests met.
LEMMA SerialAlways == Spec => []Serial
<1>1. Init => Milestones
  BY DEF Init, Milestones, SessionOk, Bound, InTry
<1>2. Typed /\ Milestones /\ [Next]_vars => Milestones'
  BY MilestonesStep
<1>3. Typed /\ Milestones /\ Serial /\ [Next]_vars => Serial'
  BY SerialStep
<1> QED BY <1>1, <1>2, <1>3, SerialInit, TypedAlways, PTL DEF Spec

\* As long as no two requests were under way together there is one live prospect
\* per email and one prospect per thh_user_id, whatever failed, crashed, was
\* replayed or deleted in between.
THEOREM SerialDedupeHolds == Spec => []SerialDedupe
<1>1. Serial => SerialDedupe
  <2> SUFFICES ASSUME Serial, ~overlap, NEW p \in Pid, NEW q \in Pid, p # q
               PROVE  /\ prospect[p].uid = None \/ prospect[p].uid # prospect[q].uid
                      /\ \/ "live" \notin {prospect[p].state} \cap {prospect[q].state}
                         \/ prospect[p].email # prospect[q].email
    BY DEF SerialDedupe
  <2> QED BY DEF Serial, SerialTables, Live
<1> QED BY <1>1, SerialAlways, PTL

\* As long as no two requests were under way together the touch counter of the
\* prospect and the one of its channel agree, and cover every signups row of it.
THEOREM SerialTouchesHold == Spec => []SerialTouches
<1>1. Serial => SerialTouches
  BY DEF Serial, SerialTables, SerialTouches, RowsOf
<1> QED BY <1>1, SerialAlways, PTL
=============================================================================
