--------------------------- MODULE CallQueueProofs ---------------------------
(***************************************************************************)
(* What holds of the callers' work for every set of callers, leads and     *)
(* requests, however many calls are logged and however requests overlap.   *)
(***************************************************************************)
EXTENDS CallQueue, FiniteSetTheorems, TLAPS

Opening == {"record", "skip", "stage", "check"}

\* A request under way has a lead; one that wrote its log row has a row of its own,
\* which nobody else sees yet.
Placed ==
    /\ \A r \in Req : pc[r] \in Working => loc[r].lead \in Lead
    /\ \A r \in Req : pc[r] = "write" =>
         /\ loc[r].id \in LogId
         /\ log[loc[r].id].state = "flushed"
         /\ log[loc[r].id].lead = loc[r].lead
         /\ log[loc[r].id].outcome = loc[r].outcome
    /\ \A r, q \in Req :
         pc[r] = "write" /\ pc[q] = "write" /\ loc[r].id = loc[q].id => r = q

-----------------------------------------------------------------------------
(***************************************************************************)
(* Types.                                                                  *)
(***************************************************************************)
LEMMA FreshTyped == ASSUME NEW c \in Caller \cup {None} PROVE Fresh(c) \in LeadRow
BY DEF Fresh, LeadRow, Stages

\* The session of a request that has not begun is well formed.
LEMMA NothingTyped == Nothing \in Session
<1>1. Fresh(None) \in LeadRow
  BY FreshTyped
<1>2. 0 \in Seconds
  BY QueueAssumption DEF Seconds
<1> QED BY <1>1, <1>2 DEF Nothing, Session, CallOutcomes, Stages

\* The tables and sessions are well formed at the start.
LEMMA TypedInit == Init => TypeOK /\ Placed
<1> SUFFICES ASSUME Init PROVE TypeOK /\ Placed
  OBVIOUS
<1>1. 0 \in Seconds
  BY QueueAssumption DEF Seconds
<1>2. lead \in [Lead -> LeadRow]
  BY FreshTyped DEF Init
<1>3. NoLog \in LogRow
  BY <1>1 DEF NoLog, LogRow, CallOutcomes
<1>4. log \in [LogId -> LogRow]
  BY <1>3 DEF Init
<1>5. changes \in [Lead -> Seq([from : Stages, to : Stages])]
  BY DEF Init
<1>6. loc \in [Req -> Session]
  BY NothingTyped DEF Init
<1>7. TypeOK
  BY <1>1, <1>2, <1>4, <1>5, <1>6 DEF Init, TypeOK
<1> QED BY <1>7 DEF Init, Placed, Working

\* Every request begins with a lead and a payload built from Nothing.
LEMMA StartBegins ==
  ASSUME NEW r \in Req, Start(r)
  PROVE  \E next \in Opening, p \in Lead, payload \in Session : Begin(r, next, p, payload)
<1>1. CASE Record(r)
  <2>1. PICK c \in Caller, p \in Lead, o \in Outcomes, t \in Times \cup {None} :
           Begin(r, "record", p, [Nothing EXCEPT !.caller = c, !.outcome = o,
                                      !.callback = t, !.offered = InTurn(c, p)])
    BY <1>1 DEF Record
  <2>2. InTurn(c, p) \in BOOLEAN
    BY DEF InTurn
  <2>3. [Nothing EXCEPT !.caller = c, !.outcome = o, !.callback = t,
                        !.offered = InTurn(c, p)] \in Session
    BY <2>2, NothingTyped, QueueAssumption DEF Session
  <2> QED BY <2>1, <2>3 DEF Opening
<1>2. CASE Skip(r)
  <2>1. PICK c \in Caller, p \in Lead :
           Begin(r, "skip", p, [Nothing EXCEPT !.offered = InTurn(c, p)])
    BY <1>2 DEF Skip
  <2>2. InTurn(c, p) \in BOOLEAN
    BY DEF InTurn
  <2>3. [Nothing EXCEPT !.offered = InTurn(c, p)] \in Session
    BY <2>2, NothingTyped DEF Session
  <2> QED BY <2>1, <2>3 DEF Opening
<1>3. CASE ChangeStage(r)
  <2>1. PICK p \in Lead, s \in NewStages :
           Begin(r, "stage", p, [Nothing EXCEPT !.stage = s])
    BY <1>3 DEF ChangeStage
  <2>2. [Nothing EXCEPT !.stage = s] \in Session
    BY NothingTyped, QueueAssumption DEF Session
  <2> QED BY <2>1, <2>2 DEF Opening
<1>4. CASE Reassign(r)
  <2>1. PICK p \in Lead, c \in Caller \cup {None}, f \in BOOLEAN :
           Begin(r, "check", p, [Nothing EXCEPT !.owner = c, !.force = f])
    BY <1>4 DEF Reassign
  <2>2. [Nothing EXCEPT !.owner = c, !.force = f] \in Session
    BY NothingTyped DEF Session
  <2> QED BY <2>1, <2>2 DEF Opening
<1> QED BY <1>1, <1>2, <1>3, <1>4 DEF Start

\* A request that loads its lead keeps the tables and sessions well formed.
LEMMA TypedBegin ==
  ASSUME TypeOK, Placed, NEW r \in Req, NEW next \in Opening, NEW p \in Lead,
         NEW payload \in Session, Begin(r, next, p, payload)
  PROVE  TypeOK' /\ Placed'
<1> DEFINE l == [payload EXCEPT !.lead = p, !.row = lead[p], !.began = clock]
<1>1. l \in Session /\ l.lead = p
  BY DEF Session, TypeOK
<1>2. loc' = [loc EXCEPT ![r] = l] /\ pc' = [pc EXCEPT ![r] = next]
  BY DEF Begin
<1> HIDE DEF l
<1>3. overlapped' \subseteq Lead
  BY DEF Begin, TypeOK
<1>4. odd' \in BOOLEAN
  BY DEF Begin, TypeOK, Session
<1>5. turns' \in [Lead -> Nat]
  BY DEF Begin, TypeOK
<1>6. TypeOK'
  <2>1. pc' \in [Req -> Working \cup {"idle", "done"}] /\ loc' \in [Req -> Session]
    BY <1>1, <1>2 DEF TypeOK, Opening, Working
  <2>2. UNCHANGED <<lead, log, changes, marks, clock>>
    BY DEF Begin, rows
  <2> QED BY <1>3, <1>4, <1>5, <2>1, <2>2 DEF TypeOK
<1>7. Placed'
  BY <1>1, <1>2 DEF Begin, rows, TypeOK, Placed, Opening, Working
<1> QED BY <1>6, <1>7

\* A request that ends drops its session and leaves the others alone.
LEMMA TypedFinish ==
  ASSUME TypeOK, NEW r \in Req, Finish(r)
  PROVE  /\ pc' \in [Req -> Working \cup {"idle", "done"}] /\ loc' \in [Req -> Session]
         /\ pc'[r] = "done"
         /\ \A q \in Req \ {r} : pc'[q] = pc[q] /\ loc'[q] = loc[q]
BY NothingTyped DEF TypeOK, Finish, Goto

\* The time of a touch, read between the load and the commit, is a time of the
\* clock.
LEMMA TypedTouched ==
  ASSUME TypeOK, NEW r \in Req, NEW now \in loc[r].began .. clock, Touched(r, now)
  PROVE  now \in Seconds /\ turns' \in [Lead -> Nat] /\ odd' \in BOOLEAN
<1>1. loc[r].began \in Nat /\ clock \in 0..MaxClock
  BY QueueAssumption DEF TypeOK, Session, Seconds
<1>2. now \in Seconds
  BY <1>1, QueueAssumption DEF Seconds
<1>3. turns' \in [Lead -> Nat]
  BY DEF Touched, TypeOK
<1>4. odd' \in BOOLEAN
  BY DEF Touched, TypeOK
<1> QED BY <1>2, <1>3, <1>4

\* A request that ends lets go of its log row, which no other request holds.
LEMMA PlacedFinish ==
  ASSUME TypeOK, Placed, NEW r \in Req, Finish(r),
         \A i \in LogId : log'[i] = log[i] \/ (pc[r] = "write" /\ i = loc[r].id)
  PROVE  Placed'
<1>1. pc'[r] = "done" /\ \A q \in Req \ {r} : pc'[q] = pc[q] /\ loc'[q] = loc[q]
  BY TypedFinish
<1>2. \A q \in Req : pc'[q] \in Working => q # r
  BY <1>1 DEF Working
<1> QED BY <1>1, <1>2 DEF Placed, Working

\* Every step keeps the tables and sessions well formed.
LEMMA TypedNext == TypeOK /\ Placed /\ [Next]_vars => TypeOK' /\ Placed'
<1> SUFFICES ASSUME TypeOK, Placed, [Next]_vars PROVE TypeOK' /\ Placed'
  OBVIOUS
<1>1. ASSUME NEW r \in Req, Start(r) PROVE TypeOK' /\ Placed'
  BY <1>1, StartBegins, TypedBegin
<1>2. ASSUME NEW r \in Req, FlushLog(r) PROVE TypeOK' /\ Placed'
  <2>1. PICK i \in LogId :
          /\ log[i].state = "free"
          /\ log' = [log EXCEPT ![i] =
               [state |-> "flushed", lead |-> loc[r].lead, caller |-> loc[r].caller,
                outcome |-> loc[r].outcome, callback |-> loc[r].callback,
                at |-> clock]]
          /\ loc' = [loc EXCEPT ![r] = [loc[r] EXCEPT !.id = i, !.began = clock]]
    BY <1>2 DEF FlushLog
  <2>2. log' \in [LogId -> LogRow]
    BY <2>1 DEF TypeOK, Session, LogRow
  <2>3. loc' \in [Req -> Session]
    <3>1. [loc[r] EXCEPT !.id = i, !.began = clock] \in Session
      BY DEF TypeOK, Session
    <3> QED BY <2>1, <3>1 DEF TypeOK
  <2>4. pc[r] = "record" /\ pc' = [pc EXCEPT ![r] = "write"]
    BY <1>2 DEF FlushLog, Goto
  <2>5. TypeOK'
    <3>1. pc' \in [Req -> Working \cup {"idle", "done"}]
      BY <2>4 DEF TypeOK, Working
    <3>2. UNCHANGED <<lead, changes, marks, clock, overlapped, turns, odd>>
      BY <1>2 DEF FlushLog, history
    <3> QED BY <2>2, <2>3, <3>1, <3>2 DEF TypeOK
  <2>6. /\ loc'[r].lead = loc[r].lead /\ loc'[r].outcome = loc[r].outcome
        /\ loc'[r].id = i
        /\ \A q \in Req \ {r} : loc'[q] = loc[q] /\ pc'[q] = pc[q]
    BY <2>1, <2>4 DEF TypeOK, Session
  <2>7. loc[r].lead \in Lead
    BY <2>4 DEF Placed, Working
  <2>8. \A q \in Req \ {r} : pc[q] = "write" => loc[q].id # i
    BY <2>1 DEF Placed
  <2>9. /\ log'[i].state = "flushed" /\ log'[i].lead = loc[r].lead
        /\ log'[i].outcome = loc[r].outcome
        /\ \A j \in LogId \ {i} : log'[j] = log[j]
    BY <2>1 DEF TypeOK
  <2>10. Placed'
    BY <2>4, <2>6, <2>7, <2>8, <2>9 DEF Placed, Working
  <2> QED BY <2>5, <2>10
<1>3. ASSUME NEW r \in Req, CommitLog(r) PROVE TypeOK' /\ Placed'
  <2> DEFINE p == loc[r].lead
             old == loc[r].row
  <2>1. PICK now \in loc[r].began .. clock :
          /\ lead' = [lead EXCEPT ![p] = [lead[p] EXCEPT
               !.touched = now,
               !.rnr = Written(@, old.rnr, Counted(r)),
               !.stage = IF Converts(r) THEN "converted" ELSE @,
               !.stamped = @ \/ Converts(r)]]
          /\ marks' = [marks EXCEPT ![p] =
               IF loc[r].outcome = "rnr" /\ Counted(r) >= 3 THEN @ + 1 ELSE @]
          /\ changes' = [changes EXCEPT ![p] =
               IF Converts(r) THEN Append(@, [from |-> old.stage, to |-> "converted"])
               ELSE @]
          /\ Touched(r, now)
    BY <1>3 DEF CommitLog
  <2>2. pc[r] = "write" /\ p \in Lead /\ loc[r].id \in LogId
    BY <1>3 DEF CommitLog, Placed, Working
  <2>3. old \in LeadRow /\ old.rnr \in Nat /\ old.stage \in Stages /\ Counted(r) \in Nat
    BY DEF TypeOK, Session, LeadRow, Counted
  <2>4. now \in Seconds
    BY <2>1, TypedTouched
  <2>5. lead' \in [Lead -> LeadRow]
    <3> DEFINE row == [lead[p] EXCEPT
               !.touched = now,
               !.rnr = Written(@, old.rnr, Counted(r)),
               !.stage = IF Converts(r) THEN "converted" ELSE @,
               !.stamped = @ \/ Converts(r)]
    <3>1. lead[p] \in LeadRow
      BY <2>2 DEF TypeOK
    <3>2. Written(lead[p].rnr, old.rnr, Counted(r)) \in Nat
      BY <2>3, <3>1 DEF LeadRow, Written
    <3>3. Converts(r) \in BOOLEAN
      BY DEF Converts
    <3> HIDE DEF old, p
    <3>4. row \in LeadRow
      BY <2>4, <3>1, <3>2, <3>3 DEF LeadRow, Stages
    <3>5. lead' = [lead EXCEPT ![p] = row]
      BY <2>1
    <3> HIDE DEF row
    <3> QED BY <3>4, <3>5 DEF TypeOK
  <2>6. marks' \in [Lead -> Nat]
    <3> DEFINE marked == IF loc[r].outcome = "rnr" /\ Counted(r) >= 3 THEN marks[p] + 1
                                                              ELSE marks[p]
    <3>1. marked \in Nat
      BY <2>2 DEF TypeOK
    <3>2. marks' = [marks EXCEPT ![p] = marked]
      BY <2>1
    <3> HIDE DEF marked
    <3> QED BY <3>1, <3>2 DEF TypeOK
  <2>7. changes' \in [Lead -> Seq([from : Stages, to : Stages])]
    <3>1. [from |-> old.stage, to |-> "converted"] \in [from : Stages, to : Stages]
      BY <2>3 DEF Stages
    <3>2. changes[p] \in Seq([from : Stages, to : Stages])
      BY <2>2 DEF TypeOK
    <3>3. Append(changes[p], [from |-> old.stage, to |-> "converted"])
            \in Seq([from : Stages, to : Stages])
      BY <3>1, <3>2
    <3> HIDE DEF old, p
    <3> QED BY <2>1, <3>3 DEF TypeOK
  <2>8. log' = [log EXCEPT ![loc[r].id].state = "logged"]
    BY <1>3 DEF CommitLog
  <2>9. log' \in [LogId -> LogRow]
    <3>1. log[loc[r].id] \in LogRow
      BY <2>2, <2>8 DEF TypeOK, Placed
    <3>2. [log[loc[r].id] EXCEPT !.state = "logged"] \in LogRow
      BY <3>1 DEF LogRow
    <3> QED BY <2>2, <2>8, <3>2 DEF TypeOK
  <2>10. Finish(r) /\ UNCHANGED <<clock, overlapped>>
    BY <1>3 DEF CommitLog
  <2>11. TypeOK'
    BY <2>1, <2>5, <2>6, <2>7, <2>9, <2>10, TypedFinish, TypedTouched DEF TypeOK
  <2>12. Placed'
    BY <2>2, <2>8, <2>10, PlacedFinish DEF TypeOK
  <2> QED BY <2>11, <2>12
<1>4. ASSUME NEW r \in Req, Victim(r) PROVE TypeOK' /\ Placed'
  <2>1. /\ pc[r] = "write" /\ Finish(r)
        /\ log' = [log EXCEPT ![loc[r].id].state = "void"]
        /\ UNCHANGED <<lead, changes, marks, clock, overlapped, turns, odd>>
    BY <1>4 DEF Victim, history
  <2>2. log' \in [LogId -> LogRow]
    <3>1. log[loc[r].id] \in LogRow
      BY <2>1 DEF TypeOK, Placed
    <3>2. [log[loc[r].id] EXCEPT !.state = "void"] \in LogRow
      BY <3>1 DEF LogRow
    <3> QED BY <2>1, <3>2 DEF TypeOK
  <2>3. TypeOK'
    BY <2>1, <2>2, TypedFinish DEF TypeOK
  <2>4. Placed'
    BY <2>1, PlacedFinish DEF TypeOK
  <2> QED BY <2>3, <2>4
<1>5. ASSUME NEW r \in Req, CommitSkip(r) PROVE TypeOK' /\ Placed'
  <2>1. PICK now \in loc[r].began .. clock :
          /\ lead' = [lead EXCEPT ![loc[r].lead].touched = now]
          /\ Touched(r, now)
    BY <1>5 DEF CommitSkip
  <2>2. now \in Seconds
    BY <2>1, TypedTouched
  <2>3. lead' \in [Lead -> LeadRow]
    BY <2>1, <2>2 DEF TypeOK, LeadRow
  <2>4. Finish(r) /\ UNCHANGED <<log, changes, marks, clock, overlapped>>
    BY <1>5 DEF CommitSkip
  <2>5. TypeOK'
    BY <2>1, <2>3, <2>4, TypedFinish, TypedTouched DEF TypeOK
  <2>6. Placed'
    BY <2>4, PlacedFinish
  <2> QED BY <2>5, <2>6
<1>6. ASSUME NEW r \in Req, CommitStage(r) PROVE TypeOK' /\ Placed'
  <2> DEFINE p == loc[r].lead
             old == loc[r].row
  <2>1. PICK now \in loc[r].began .. clock :
          /\ lead' = [lead EXCEPT ![p] = [lead[p] EXCEPT
               !.touched = now,
               !.stage = Written(@, old.stage, loc[r].stage),
               !.stamped = @ \/ loc[r].stage = "converted"]]
          /\ changes' = [changes EXCEPT ![p] =
               Append(@, [from |-> old.stage, to |-> loc[r].stage])]
          /\ Touched(r, now)
    BY <1>6 DEF CommitStage
  <2>2. old.stage \in Stages /\ loc[r].stage \in Stages
    BY DEF TypeOK, Session, LeadRow
  <2>3. now \in Seconds
    BY <2>1, TypedTouched
  <2>0. p \in Lead
    BY <1>6 DEF CommitStage, Placed, Working
  <2>4. lead' \in [Lead -> LeadRow]
    <3> DEFINE row == [lead[p] EXCEPT
               !.touched = now,
               !.stage = Written(@, old.stage, loc[r].stage),
               !.stamped = @ \/ loc[r].stage = "converted"]
    <3>1. lead[p] \in LeadRow
      BY <2>0 DEF TypeOK
    <3>2. Written(lead[p].stage, old.stage, loc[r].stage) \in Stages
      BY <2>2, <3>1 DEF LeadRow, Written
    <3>3. row \in LeadRow
      BY <2>3, <3>1, <3>2 DEF LeadRow
    <3>4. lead' = [lead EXCEPT ![p] = row]
      BY <2>1
    <3> HIDE DEF row, p
    <3> QED BY <3>3, <3>4 DEF TypeOK
  <2>5. changes' \in [Lead -> Seq([from : Stages, to : Stages])]
    <3>1. [from |-> old.stage, to |-> loc[r].stage] \in [from : Stages, to : Stages]
      BY <2>2
    <3>2. changes[p] \in Seq([from : Stages, to : Stages])
      BY <2>0 DEF TypeOK
    <3>3. Append(changes[p], [from |-> old.stage, to |-> loc[r].stage])
            \in Seq([from : Stages, to : Stages])
      BY <3>1, <3>2
    <3> HIDE DEF old, p
    <3> QED BY <2>1, <3>3 DEF TypeOK
  <2>6. Finish(r) /\ UNCHANGED <<log, marks, clock, overlapped>>
    BY <1>6 DEF CommitStage
  <2>7. TypeOK'
    BY <2>1, <2>4, <2>5, <2>6, TypedFinish, TypedTouched DEF TypeOK
  <2>8. Placed'
    BY <2>6, PlacedFinish
  <2> QED BY <2>7, <2>8
<1>7. ASSUME NEW r \in Req, CheckLock(r) PROVE TypeOK' /\ Placed'
  <2>1. pc[r] = "check" /\ UNCHANGED <<lead, log, changes, marks, clock, overlapped, turns, odd>>
    BY <1>7 DEF CheckLock, rows, history
  <2>2. CASE Finish(r)
    BY <2>1, <2>2, TypedFinish, PlacedFinish DEF TypeOK
  <2>3. CASE Goto(r, "assign") /\ UNCHANGED loc
    <3>1. pc' \in [Req -> Working \cup {"idle", "done"}]
      BY <2>3 DEF Goto, TypeOK, Working
    <3>2. TypeOK'
      BY <2>1, <2>3, <3>1 DEF TypeOK
    <3>3. Placed'
      BY <2>1, <2>3 DEF Goto, TypeOK, Placed, Working
    <3> QED BY <3>2, <3>3
  <2> QED BY <1>7, <2>2, <2>3 DEF CheckLock
<1>8. ASSUME NEW r \in Req, CommitOwner(r) PROVE TypeOK' /\ Placed'
  <2>1. /\ lead' = [lead EXCEPT ![loc[r].lead].owner =
                      Written(@, loc[r].row.owner, loc[r].owner)]
        /\ Finish(r)
        /\ UNCHANGED <<log, changes, marks, clock, overlapped, turns, odd>>
    BY <1>8 DEF CommitOwner, history
  <2>0. loc[r].lead \in Lead
    BY <1>8 DEF CommitOwner, Placed, Working
  <2>2. lead' \in [Lead -> LeadRow]
    <3>1. lead[loc[r].lead] \in LeadRow /\ loc[r] \in Session
      BY <2>0 DEF TypeOK
    <3>2. [lead[loc[r].lead] EXCEPT !.owner = Written(@, loc[r].row.owner, loc[r].owner)]
            \in LeadRow
      BY <3>1 DEF Session, LeadRow, Written
    <3> QED BY <2>1, <3>2 DEF TypeOK
  <2>3. TypeOK'
    BY <2>1, <2>2, TypedFinish DEF TypeOK
  <2> QED BY <2>1, <2>3, PlacedFinish
<1>9. CASE Tick
  <2>1. clock' \in Seconds
    BY <1>9, QueueAssumption DEF Tick, TypeOK, Seconds
  <2> QED BY <1>9, <2>1 DEF Tick, rows, history, TypeOK, Placed
<1>10. CASE UNCHANGED vars
  BY <1>10 DEF vars, rows, history, TypeOK, Placed
<1> QED
  BY <1>1, <1>2, <1>3, <1>4, <1>5, <1>6, <1>7, <1>8, <1>9, <1>10
  DEF Next, Step, Quiet

\* Every table and every session keeps its form, whatever the requests do.
THEOREM TypeCorrect == Spec => [](TypeOK /\ Placed)
<1> QED BY TypedInit, TypedNext, PTL DEF Spec

-----------------------------------------------------------------------------
(***************************************************************************)
(* What the commits write.                                                 *)
(***************************************************************************)
LEMMA CommitLogWrites ==
  ASSUME TypeOK, Placed, NEW r \in Req, CommitLog(r), NEW p, p = loc[r].lead
  PROVE  /\ p \in Lead /\ pc[r] = "write" /\ Finish(r)
         /\ overlapped' = overlapped /\ clock' = clock
         /\ lead'[p].rnr = Written(lead[p].rnr, loc[r].row.rnr, Counted(r))
         /\ lead'[p].stage = IF Converts(r) THEN "converted" ELSE lead[p].stage
         /\ lead'[p].stamped = (lead[p].stamped \/ Converts(r))
         /\ marks'[p] = IF loc[r].outcome = "rnr" /\ Counted(r) >= 3
                        THEN marks[p] + 1 ELSE marks[p]
         /\ changes'[p] = IF Converts(r)
              THEN Append(changes[p], [from |-> loc[r].row.stage, to |-> "converted"])
              ELSE changes[p]
         /\ \A q \in Lead \ {p} : lead'[q] = lead[q] /\ marks'[q] = marks[q]
                                                     /\ changes'[q] = changes[q]
<1> DEFINE new(now) == [lead[p] EXCEPT
                          !.touched = now,
                          !.rnr = Written(@, loc[r].row.rnr, Counted(r)),
                          !.stage = IF Converts(r) THEN "converted" ELSE @,
                          !.stamped = @ \/ Converts(r)]
           marked == IF loc[r].outcome = "rnr" /\ Counted(r) >= 3 THEN marks[p] + 1
                                                                  ELSE marks[p]
           moved == IF Converts(r)
                    THEN Append(changes[p], [from |-> loc[r].row.stage, to |-> "converted"])
                    ELSE changes[p]
<1>1. p \in Lead /\ pc[r] = "write" /\ Finish(r) /\ overlapped' = overlapped /\ clock' = clock
  BY DEF CommitLog, Placed, Working
<1>2. PICK now : /\ lead' = [lead EXCEPT ![p] = new(now)]
                 /\ marks' = [marks EXCEPT ![p] = marked]
                 /\ changes' = [changes EXCEPT ![p] = moved]
  BY DEF CommitLog
<1>3. /\ new(now).rnr = Written(lead[p].rnr, loc[r].row.rnr, Counted(r))
      /\ new(now).stage = IF Converts(r) THEN "converted" ELSE lead[p].stage
      /\ new(now).stamped = (lead[p].stamped \/ Converts(r))
  <2>1. lead[p] \in LeadRow
    BY <1>1 DEF TypeOK
  <2> QED BY <2>1 DEF LeadRow
<1> HIDE DEF new, marked, moved
<1>4. lead'[p] = new(now) /\ marks'[p] = marked /\ changes'[p] = moved
  BY <1>1, <1>2 DEF TypeOK
<1>5. \A q \in Lead \ {p} : lead'[q] = lead[q] /\ marks'[q] = marks[q]
                                               /\ changes'[q] = changes[q]
  BY <1>2 DEF TypeOK
<1> QED BY <1>1, <1>3, <1>4, <1>5 DEF marked, moved

\* What the commit of a stage change writes: the stage, its stamp and one row
\* of history.
LEMMA CommitStageWrites ==
  ASSUME TypeOK, Placed, NEW r \in Req, CommitStage(r), NEW p, p = loc[r].lead
  PROVE  /\ p \in Lead /\ pc[r] = "stage" /\ Finish(r) /\ overlapped' = overlapped
         /\ clock' = clock /\ log' = log /\ marks' = marks
         /\ lead'[p].rnr = lead[p].rnr
         /\ lead'[p].stage = Written(lead[p].stage, loc[r].row.stage, loc[r].stage)
         /\ lead'[p].stamped = (lead[p].stamped \/ loc[r].stage = "converted")
         /\ changes'[p] = Append(changes[p],
                                 [from |-> loc[r].row.stage, to |-> loc[r].stage])
         /\ \A q \in Lead \ {p} : lead'[q] = lead[q] /\ changes'[q] = changes[q]
<1> DEFINE new(now) == [lead[p] EXCEPT
                          !.touched = now,
                          !.stage = Written(@, loc[r].row.stage, loc[r].stage),
                          !.stamped = @ \/ loc[r].stage = "converted"]
           moved == Append(changes[p], [from |-> loc[r].row.stage, to |-> loc[r].stage])
<1>1. /\ p \in Lead /\ pc[r] = "stage" /\ Finish(r) /\ overlapped' = overlapped
      /\ clock' = clock /\ log' = log /\ marks' = marks
  BY DEF CommitStage, Placed, Working
<1>2. PICK now : /\ lead' = [lead EXCEPT ![p] = new(now)]
                 /\ changes' = [changes EXCEPT ![p] = moved]
  BY DEF CommitStage
<1>3. /\ new(now).rnr = lead[p].rnr
      /\ new(now).stage = Written(lead[p].stage, loc[r].row.stage, loc[r].stage)
      /\ new(now).stamped = (lead[p].stamped \/ loc[r].stage = "converted")
  <2>1. lead[p] \in LeadRow
    BY <1>1 DEF TypeOK
  <2> QED BY <2>1 DEF LeadRow
<1> HIDE DEF new, moved
<1>4. lead'[p] = new(now) /\ changes'[p] = moved
  BY <1>1, <1>2 DEF TypeOK
<1>5. \A q \in Lead \ {p} : lead'[q] = lead[q] /\ changes'[q] = changes[q]
  BY <1>2 DEF TypeOK
<1> QED BY <1>1, <1>3, <1>4, <1>5 DEF moved

\* The commit of a skip leaves counter, stage and stamp of its lead alone.
LEMMA CommitSkipWrites ==
  ASSUME TypeOK, Placed, NEW r \in Req, CommitSkip(r), NEW p, p = loc[r].lead
  PROVE  /\ p \in Lead /\ pc[r] = "skip" /\ Finish(r) /\ overlapped' = overlapped
         /\ UNCHANGED <<clock, log, marks, changes>>
         /\ lead'[p].rnr = lead[p].rnr /\ lead'[p].stage = lead[p].stage
         /\ lead'[p].stamped = lead[p].stamped
         /\ \A q \in Lead \ {p} : lead'[q] = lead[q]
<1>1. /\ p \in Lead /\ pc[r] = "skip" /\ Finish(r) /\ overlapped' = overlapped
      /\ UNCHANGED <<clock, log, marks, changes>>
  BY DEF CommitSkip, Placed, Working
<1>2. PICK now : lead' = [lead EXCEPT ![p].touched = now]
  BY DEF CommitSkip
<1> QED BY <1>1, <1>2 DEF TypeOK, LeadRow

\* The commit of a reassignment leaves counter, stage and stamp of its lead
\* alone.
LEMMA CommitOwnerWrites ==
  ASSUME TypeOK, Placed, NEW r \in Req, CommitOwner(r), NEW p, p = loc[r].lead
  PROVE  /\ p \in Lead /\ pc[r] = "assign" /\ Finish(r) /\ overlapped' = overlapped
         /\ UNCHANGED <<clock, log, marks, changes>>
         /\ lead'[p].rnr = lead[p].rnr /\ lead'[p].stage = lead[p].stage
         /\ lead'[p].stamped = lead[p].stamped
         /\ lead'[p].owner = Written(lead[p].owner, loc[r].row.owner, loc[r].owner)
         /\ \A q \in Lead \ {p} : lead'[q] = lead[q]
<1>1. /\ p \in Lead /\ pc[r] = "assign" /\ Finish(r) /\ overlapped' = overlapped
      /\ UNCHANGED <<clock, log, marks, changes>>
  BY DEF CommitOwner, Placed, Working, history
<1>2. lead' = [lead EXCEPT ![p].owner = Written(@, loc[r].row.owner, loc[r].owner)]
  BY DEF CommitOwner
<1> QED BY <1>1, <1>2 DEF TypeOK, LeadRow

-----------------------------------------------------------------------------
(***************************************************************************)
(* The RNR counter under overlap.                                          *)
(***************************************************************************)
LEMMA RnrLogsFinite ==
  ASSUME NEW p
  PROVE  /\ RnrLogs(p) \subseteq LogId /\ IsFiniteSet(RnrLogs(p))
         /\ Cardinality(RnrLogs(p)) \in Nat
<1>1. RnrLogs(p) \subseteq LogId
  BY DEF RnrLogs, LogsOf, Logged
<1>2. IsFiniteSet(RnrLogs(p))
  BY <1>1, QueueAssumption, FS_Subset
<1> QED BY <1>1, <1>2, FS_CardinalityType

\* A step that publishes no log row.
LEMMA RnrLogsKept ==
  ASSUME NEW p, \A i \in LogId : \/ log'[i] = log[i]
                                 \/ log[i].state # "logged" /\ log'[i].state # "logged"
  PROVE  RnrLogs(p)' = RnrLogs(p)
BY DEF RnrLogs, LogsOf, Logged

\* The commit of a call publishes its row.
LEMMA RnrLogsCommit ==
  ASSUME TypeOK, Placed, NEW r \in Req, CommitLog(r), NEW p
  PROVE  Cardinality(RnrLogs(p)') =
           IF p = loc[r].lead /\ loc[r].outcome = "rnr"
           THEN Cardinality(RnrLogs(p)) + 1 ELSE Cardinality(RnrLogs(p))
<1> DEFINE i == loc[r].id
<1>1. /\ i \in LogId /\ log[i].state = "flushed" /\ log[i].lead = loc[r].lead
      /\ log[i].outcome = loc[r].outcome
  BY DEF CommitLog, Placed
<1>2. log' = [log EXCEPT ![i].state = "logged"]
  BY DEF CommitLog
<1>3. /\ \A j \in LogId \ {i} : log'[j] = log[j]
      /\ log'[i].state = "logged" /\ log'[i].lead = loc[r].lead
      /\ log'[i].outcome = loc[r].outcome
  BY <1>1, <1>2 DEF TypeOK, LogRow
<1> HIDE DEF i
<1>4. i \notin RnrLogs(p)
  BY <1>1 DEF RnrLogs, LogsOf, Logged
<1>5. CASE p = loc[r].lead /\ loc[r].outcome = "rnr"
  <2>1. RnrLogs(p)' = RnrLogs(p) \cup {i}
    BY <1>1, <1>3, <1>5 DEF RnrLogs, LogsOf, Logged
  <2> QED BY <1>4, <1>5, <2>1, RnrLogsFinite, FS_AddElement
<1>6. CASE ~(p = loc[r].lead /\ loc[r].outcome = "rnr")
  <2>1. RnrLogs(p)' = RnrLogs(p)
    BY <1>1, <1>3, <1>6 DEF RnrLogs, LogsOf, Logged
  <2> QED BY <1>6, <2>1
<1> QED BY <1>5, <1>6

\* No session holds a counter above the logged calls either.
SessionsUnder ==
    \A r \in Req : pc[r] \in Working =>
        loc[r].row.rnr <= Cardinality(RnrLogs(loc[r].lead))

\* A step that counts nothing, and loads nothing new.
LEMMA UnderKept ==
  ASSUME RnrNeverOver, SessionsUnder,
         \A p \in Lead : lead'[p].rnr = lead[p].rnr,
         \A p : RnrLogs(p)' = RnrLogs(p),
         \A q \in Req : pc'[q] \in Working =>
             pc[q] \in Working /\ loc'[q].row = loc[q].row /\ loc'[q].lead = loc[q].lead
  PROVE  RnrNeverOver' /\ SessionsUnder'
<1>1. \A p \in Lead : lead'[p].rnr <= Cardinality(RnrLogs(p)')
  BY DEF RnrNeverOver
<1>2. \A q \in Req : pc'[q] \in Working =>
         loc'[q].row.rnr <= Cardinality(RnrLogs(loc'[q].lead))
  BY DEF SessionsUnder
<1> QED BY <1>1, <1>2 DEF RnrNeverOver, SessionsUnder

\* Columns that a step of a request leaves alone: the steps by which it begins, dies,
\* skips, checks, or reassigns publish no call and move no counter.
LEMMA NoCall ==
  ASSUME TypeOK, Placed, NEW r \in Req,
         \/ FlushLog(r) \/ Victim(r) \/ CommitSkip(r) \/ CommitStage(r)
         \/ CheckLock(r) \/ CommitOwner(r)
  PROVE  /\ \A p \in Lead : lead'[p].rnr = lead[p].rnr
         /\ \A p : RnrLogs(p)' = RnrLogs(p)
         /\ \A q \in Req : pc'[q] \in Working =>
              pc[q] \in Working /\ loc'[q].row = loc[q].row /\ loc'[q].lead = loc[q].lead
<1>1. CASE FlushLog(r)
  <2>1. PICK i \in LogId :
          /\ log[i].state = "free"
          /\ log' = [log EXCEPT ![i] =
               [state |-> "flushed", lead |-> loc[r].lead, caller |-> loc[r].caller,
                outcome |-> loc[r].outcome, callback |-> loc[r].callback,
                at |-> clock]]
          /\ loc' = [loc EXCEPT ![r] = [loc[r] EXCEPT !.id = i, !.began = clock]]
    BY <1>1 DEF FlushLog
  <2>2. /\ log'[i].state = "flushed"
        /\ \A j \in LogId \ {i} : log'[j] = log[j]
    BY <2>1 DEF TypeOK
  <2>3. \A p : RnrLogs(p)' = RnrLogs(p)
    BY <2>1, <2>2, RnrLogsKept
  <2>4. lead' = lead /\ pc[r] \in Working /\ \A q \in Req \ {r} : pc'[q] = pc[q]
    BY <1>1 DEF FlushLog, Goto, Working, TypeOK
  <2>5. \A q \in Req : loc'[q].row = loc[q].row /\ loc'[q].lead = loc[q].lead
    BY <2>1 DEF TypeOK, Session
  <2> QED BY <2>3, <2>4, <2>5
<1>2. CASE Victim(r)
  <2>1. pc[r] = "write" /\ Finish(r) /\ lead' = lead
        /\ log' = [log EXCEPT ![loc[r].id].state = "void"]
    BY <1>2 DEF Victim
  <2>2. /\ loc[r].id \in LogId /\ log[loc[r].id].state = "flushed"
    BY <2>1 DEF Placed
  <2>3. /\ log'[loc[r].id].state = "void"
        /\ \A j \in LogId \ {loc[r].id} : log'[j] = log[j]
    BY <2>1, <2>2 DEF TypeOK, LogRow
  <2>4. \A p : RnrLogs(p)' = RnrLogs(p)
    BY <2>2, <2>3, RnrLogsKept
  <2> QED BY <2>1, <2>4, TypedFinish DEF Working
<1>3. CASE CommitSkip(r)
  <2>1. Finish(r) /\ log' = log /\ pc[r] = "skip" /\ \A p \in Lead : lead'[p].rnr = lead[p].rnr
    BY <1>3, CommitSkipWrites
  <2> QED BY <2>1, TypedFinish, RnrLogsKept DEF Working
<1>4. CASE CommitStage(r)
  <2>1. Finish(r) /\ log' = log /\ pc[r] = "stage" /\ \A p \in Lead : lead'[p].rnr = lead[p].rnr
    BY <1>4, CommitStageWrites
  <2> QED BY <2>1, TypedFinish, RnrLogsKept DEF Working
<1>5. CASE CheckLock(r)
  <2>1. pc[r] = "check" /\ lead' = lead /\ log' = log
    BY <1>5 DEF CheckLock, rows
  <2>2. CASE Finish(r)
    BY <2>1, <2>2, TypedFinish, RnrLogsKept DEF Working
  <2>3. CASE Goto(r, "assign") /\ UNCHANGED loc
    <3>1. \A q \in Req : pc'[q] \in Working => pc[q] \in Working
      BY <2>1, <2>3 DEF Goto, TypeOK, Working
    <3> QED BY <2>1, <2>3, <3>1, RnrLogsKept
  <2> QED BY <1>5, <2>2, <2>3 DEF CheckLock
<1>6. CASE CommitOwner(r)
  <2>1. Finish(r) /\ log' = log /\ pc[r] = "assign" /\ \A p \in Lead : lead'[p].rnr = lead[p].rnr
    BY <1>6, CommitOwnerWrites
  <2> QED BY <2>1, TypedFinish, RnrLogsKept DEF Working
<1> QED BY <1>1, <1>2, <1>3, <1>4, <1>5, <1>6

\* What a request loads when it begins, and that nothing else moves.
LEMMA BeginLoads ==
  ASSUME TypeOK, NEW r \in Req, Start(r)
  PROVE  /\ lead' = lead /\ log' = log /\ marks' = marks /\ changes' = changes
         /\ clock' = clock
         /\ pc[r] = "idle" /\ pc'[r] \in Opening
         /\ loc'[r].lead \in Lead /\ loc'[r].row = lead[loc'[r].lead]
         /\ \A q \in Req \ {r} : pc'[q] = pc[q] /\ loc'[q] = loc[q]
         /\ overlapped' = IF \E q \in Active : loc[q].lead = loc'[r].lead
                          THEN overlapped \cup {loc'[r].lead} ELSE overlapped
<1>1. PICK next \in Opening, p \in Lead, payload \in Session : Begin(r, next, p, payload)
  BY StartBegins
<1> DEFINE l == [payload EXCEPT !.lead = p, !.row = lead[p], !.began = clock]
<1>2. l.lead = p /\ l.row = lead[p]
  BY DEF Session
<1>3. loc' = [loc EXCEPT ![r] = l] /\ pc[r] = "idle" /\ pc' = [pc EXCEPT ![r] = next]
  BY <1>1 DEF Begin
<1> HIDE DEF l
<1>4. loc'[r] = l /\ pc'[r] = next
      /\ \A q \in Req \ {r} : pc'[q] = pc[q] /\ loc'[q] = loc[q]
  BY <1>3 DEF TypeOK
<1> QED BY <1>1, <1>2, <1>3, <1>4 DEF Begin, rows

\* Every step keeps the counters, loaded ones included, at or below the logged
\* RNR calls.
LEMMA UnderNext ==
  TypeOK /\ Placed /\ RnrNeverOver /\ SessionsUnder /\ [Next]_vars
    => RnrNeverOver' /\ SessionsUnder'
<1> SUFFICES ASSUME TypeOK, Placed, RnrNeverOver, SessionsUnder, [Next]_vars
             PROVE  RnrNeverOver' /\ SessionsUnder'
  OBVIOUS
<1>1. ASSUME NEW r \in Req, Start(r) PROVE RnrNeverOver' /\ SessionsUnder'
  <2>1. lead' = lead /\ \A p : RnrLogs(p)' = RnrLogs(p)
    BY <1>1, BeginLoads, RnrLogsKept
  <2>2. \A q \in Req \ {r} : pc'[q] = pc[q] /\ loc'[q] = loc[q]
    BY <1>1, BeginLoads
  <2>3. loc'[r].row.rnr <= Cardinality(RnrLogs(loc'[r].lead))
    BY <1>1, BeginLoads DEF RnrNeverOver
  <2>4. \A q \in Req : pc'[q] \in Working =>
           loc'[q].row.rnr <= Cardinality(RnrLogs(loc'[q].lead))
    BY <2>2, <2>3 DEF SessionsUnder
  <2> QED BY <2>1, <2>4 DEF RnrNeverOver, SessionsUnder
<1>2. ASSUME NEW r \in Req, CommitLog(r) PROVE RnrNeverOver' /\ SessionsUnder'
  <2>0. PICK p : p = loc[r].lead
    OBVIOUS
  <2> DEFINE old == loc[r].row
  <2>1. pc[r] = "write" /\ p \in Lead /\ Finish(r)
    BY <1>2, <2>0 DEF CommitLog, Placed, Working
  <2>2. old.rnr <= Cardinality(RnrLogs(p)) /\ old.rnr \in Nat
    BY <2>0, <2>1 DEF SessionsUnder, Working, TypeOK, Session, LeadRow
  <2>4. /\ lead'[p].rnr = Written(lead[p].rnr, old.rnr, Counted(r))
        /\ \A q \in Lead \ {p} : lead'[q] = lead[q]
    BY <1>2, <2>0, CommitLogWrites
  <2>6. \A q : /\ Cardinality(RnrLogs(q)) \in Nat
               /\ Cardinality(RnrLogs(q)') =
                    IF q = p /\ loc[r].outcome = "rnr"
                    THEN Cardinality(RnrLogs(q)) + 1 ELSE Cardinality(RnrLogs(q))
    BY <1>2, <2>0, RnrLogsCommit, RnrLogsFinite
  <2>7. lead[p].rnr \in Nat /\ \A q \in Lead : lead[q].rnr <= Cardinality(RnrLogs(q))
    BY <2>1 DEF RnrNeverOver, TypeOK, LeadRow
  <2>8. \A q \in Lead : lead[q].rnr \in Nat
    BY DEF TypeOK, LeadRow
  <2>9. lead'[p].rnr <= Cardinality(RnrLogs(p)')
    <3>1. lead'[p].rnr = lead[p].rnr \/ lead'[p].rnr = Counted(r)
      BY <2>4 DEF Written
    <3>2. lead[p].rnr <= Cardinality(RnrLogs(p))
      BY <2>1, <2>7
    <3>3. CASE loc[r].outcome = "rnr"
      BY <2>2, <2>6, <2>7, <3>1, <3>2, <3>3 DEF Counted
    <3>4. CASE loc[r].outcome # "rnr"
      BY <2>2, <2>6, <2>7, <3>1, <3>2, <3>4 DEF Counted
    <3> QED BY <3>3, <3>4
  <2>10. \A q \in Lead : lead'[q].rnr <= Cardinality(RnrLogs(q)')
    <3> SUFFICES ASSUME NEW q \in Lead PROVE lead'[q].rnr <= Cardinality(RnrLogs(q)')
      OBVIOUS
    <3>1. CASE q = p
      BY <2>9, <3>1
    <3>2. CASE q # p
      BY <2>4, <2>6, <2>7, <3>2
    <3> QED BY <3>1, <3>2
  <2>11. \A q \in Req : \A k : pc'[q] \in Working /\ k = loc'[q].lead =>
           loc'[q].row.rnr <= Cardinality(RnrLogs(k)')
    <3> SUFFICES ASSUME NEW q \in Req, NEW k, pc'[q] \in Working, k = loc'[q].lead
                 PROVE  loc'[q].row.rnr <= Cardinality(RnrLogs(k)')
      OBVIOUS
    <3>1. q # r /\ loc'[q] = loc[q] /\ pc'[q] = pc[q]
      BY <2>1, TypedFinish DEF Working
    <3>2. loc[q].row.rnr <= Cardinality(RnrLogs(k)) /\ loc[q].row.rnr \in Nat
      BY <3>1 DEF SessionsUnder, TypeOK, Session, LeadRow
    <3> QED BY <2>6, <3>1, <3>2
  <2> QED BY <2>10, <2>11 DEF RnrNeverOver, SessionsUnder
<1>3. ASSUME NEW r \in Req,
             \/ FlushLog(r) \/ Victim(r) \/ CommitSkip(r) \/ CommitStage(r)
             \/ CheckLock(r) \/ CommitOwner(r)
      PROVE  RnrNeverOver' /\ SessionsUnder'
  BY <1>3, NoCall, UnderKept
<1>4. CASE Tick \/ UNCHANGED vars
  <2>1. lead' = lead /\ log' = log /\ pc' = pc /\ loc' = loc
    BY <1>4 DEF Tick, vars, rows
  <2> QED BY <2>1, RnrLogsKept, UnderKept
<1> QED BY <1>1, <1>2, <1>3, <1>4 DEF Next, Step, Quiet

\* The counter of a lead is never above its logged RNR calls, whatever overlaps.
THEOREM RnrNeverOverHolds == Spec => []RnrNeverOver
<1>1. Init => RnrNeverOver /\ SessionsUnder
  <2> SUFFICES ASSUME Init PROVE RnrNeverOver /\ SessionsUnder
    OBVIOUS
  <2>1. \A p \in Lead : lead[p].rnr = 0 /\ Cardinality(RnrLogs(p)) >= 0
    BY RnrLogsFinite DEF Init, Fresh
  <2> QED BY <2>1 DEF Init, RnrNeverOver, SessionsUnder, Working
<1> QED BY <1>1, TypeCorrect, UnderNext, PTL DEF Spec

-----------------------------------------------------------------------------
\* A converted lead is stamped, whatever overlaps: both columns are written by one
\* statement, and the stamp is never taken back.
THEOREM ConvertedStampedHolds == Spec => []ConvertedStamped
<1>1. Init => ConvertedStamped
  BY DEF Init, ConvertedStamped, Fresh
<1>2. TypeOK /\ Placed /\ ConvertedStamped /\ [Next]_vars => ConvertedStamped'
  <2> SUFFICES ASSUME TypeOK, Placed, ConvertedStamped, [Next]_vars
               PROVE  ConvertedStamped'
    OBVIOUS
  <2>1. ASSUME NEW r \in Req, Start(r) PROVE ConvertedStamped'
    BY <2>1, BeginLoads DEF ConvertedStamped
  <2>2. ASSUME NEW r \in Req, CommitLog(r) PROVE ConvertedStamped'
    <3>1. PICK p : p = loc[r].lead
      OBVIOUS
    <3>2. p \in Lead
      BY <2>2, <3>1, CommitLogWrites
    <3>3. lead[p].stage = "converted" => lead[p].stamped
      BY <3>2 DEF ConvertedStamped
    <3>4. lead'[p].stage = "converted" => lead'[p].stamped
      <4>1. /\ lead'[p].stage = IF Converts(r) THEN "converted" ELSE lead[p].stage
            /\ lead'[p].stamped = (lead[p].stamped \/ Converts(r))
        BY <2>2, <3>1, CommitLogWrites
      <4> QED BY <3>3, <4>1, Zenon
    <3>5. \A q \in Lead \ {p} : lead'[q] = lead[q]
      BY <2>2, <3>1, CommitLogWrites
    <3> QED BY <3>4, <3>5 DEF ConvertedStamped
  <2>3. ASSUME NEW r \in Req, CommitStage(r) PROVE ConvertedStamped'
    <3>1. PICK p : p = loc[r].lead
      OBVIOUS
    <3>2. p \in Lead
      BY <2>3, <3>1, CommitStageWrites
    <3>3. lead[p].stage = "converted" => lead[p].stamped
      BY <3>2 DEF ConvertedStamped
    <3>4. /\ lead'[p].stage = Written(lead[p].stage, loc[r].row.stage, loc[r].stage)
          /\ lead'[p].stamped = (lead[p].stamped \/ loc[r].stage = "converted")
      BY <2>3, <3>1, CommitStageWrites
    <3>6. lead'[p].stage = "converted" => lead'[p].stamped
      BY <3>3, <3>4, Zenon DEF Written
    <3>5. \A q \in Lead \ {p} : lead'[q] = lead[q]
      BY <2>3, <3>1, CommitStageWrites
    <3> QED BY <3>6, <3>5 DEF ConvertedStamped
  <2>4. ASSUME NEW r \in Req, CommitSkip(r) PROVE ConvertedStamped'
    BY <2>4, CommitSkipWrites DEF ConvertedStamped
  <2>5. ASSUME NEW r \in Req, CommitOwner(r) PROVE ConvertedStamped'
    BY <2>5, CommitOwnerWrites DEF ConvertedStamped
  <2>6. ASSUME NEW r \in Req, FlushLog(r) \/ Victim(r) \/ CheckLock(r)
        PROVE  ConvertedStamped'
    BY <2>6 DEF FlushLog, Victim, CheckLock, rows, ConvertedStamped
  <2>7. CASE Tick \/ UNCHANGED vars
    BY <2>7 DEF Tick, vars, rows, ConvertedStamped
  <2> QED BY <2>1, <2>2, <2>3, <2>4, <2>5, <2>6, <2>7 DEF Next, Step, Quiet
<1> QED BY <1>1, <1>2, TypeCorrect, PTL DEF Spec

-----------------------------------------------------------------------------
(***************************************************************************)
(* Leads whose requests never overlapped.                                  *)
(***************************************************************************)
\* Such a lead has one request at a time, and what that one loaded still stands.
Serial ==
    /\ \A q, r \in Req : /\ pc[q] \in Working /\ pc[r] \in Working
                         /\ loc[q].lead = loc[r].lead /\ loc[r].lead \notin overlapped
                         => q = r
    /\ \A r \in Req : pc[r] \in Working /\ loc[r].lead \notin overlapped =>
         loc[r].row = lead[loc[r].lead]

\* A step that ends a request and writes no lead but its own.
LEMMA SerialFinish ==
  ASSUME TypeOK, Serial, NEW r \in Req, pc[r] \in Working, Finish(r),
         overlapped' = overlapped, \A p \in Lead \ {loc[r].lead} : lead'[p] = lead[p],
         Placed
  PROVE  Serial'
<1>1. \A q \in Req : pc'[q] \in Working =>
         q # r /\ pc[q] \in Working /\ loc'[q] = loc[q] /\ loc[q].lead \in Lead
  BY TypedFinish DEF Working, Placed
<1>2. \A q \in Req \ {r} : pc[q] \in Working /\ loc[q].lead \notin overlapped =>
         loc[q].lead # loc[r].lead
  BY DEF Serial
<1>3. \A q \in Req : pc'[q] \in Working /\ loc'[q].lead \notin overlapped =>
         loc'[q].row = lead'[loc'[q].lead]
  <2> SUFFICES ASSUME NEW q \in Req, pc'[q] \in Working, loc'[q].lead \notin overlapped
               PROVE  loc'[q].row = lead'[loc'[q].lead]
    OBVIOUS
  <2>1. loc[q].row = lead[loc[q].lead]
    BY <1>1 DEF Serial
  <2>2. lead'[loc[q].lead] = lead[loc[q].lead]
    BY <1>1, <1>2
  <2> QED BY <1>1, <2>1, <2>2
<1>4. \A p, q \in Req : /\ pc'[p] \in Working /\ pc'[q] \in Working
                        /\ loc'[p].lead = loc'[q].lead /\ loc'[q].lead \notin overlapped
                        => p = q
  BY <1>1 DEF Serial
<1> QED BY <1>3, <1>4 DEF Serial

\* A step that keeps the leads, and every request where it was.
LEMMA SerialKept ==
  ASSUME Serial, lead' = lead, overlapped' = overlapped,
         \A q \in Req : pc'[q] \in Working =>
             pc[q] \in Working /\ loc'[q].row = loc[q].row /\ loc'[q].lead = loc[q].lead
  PROVE  Serial'
BY DEF Serial

\* Every step keeps the requests on a lead without overlap in sequence.
LEMMA SerialNext == TypeOK /\ Placed /\ Serial /\ [Next]_vars => Serial'
<1> SUFFICES ASSUME TypeOK, Placed, Serial, [Next]_vars PROVE Serial'
  OBVIOUS
<1>1. ASSUME NEW r \in Req, Start(r) PROVE Serial'
  <2>1. PICK p : p = loc'[r].lead
    OBVIOUS
  <2>2. /\ lead' = lead /\ loc'[r].row = lead[p] /\ pc[r] = "idle"
        /\ \A q \in Req \ {r} : pc'[q] = pc[q] /\ loc'[q] = loc[q]
        /\ overlapped' = IF \E q \in Active : loc[q].lead = p
                         THEN overlapped \cup {p} ELSE overlapped
    BY <1>1, <2>1, BeginLoads
  <2>3. \A q \in Req \ {r} : pc[q] \in Working /\ loc[q].lead = p => p \in overlapped'
    BY <2>2 DEF Active
  <2>4. overlapped \subseteq overlapped'
    BY <2>2
  <2>5. \A s, q \in Req : /\ pc'[s] \in Working /\ pc'[q] \in Working
                          /\ loc'[s].lead = loc'[q].lead /\ loc'[q].lead \notin overlapped'
                          => s = q
    <3> SUFFICES ASSUME NEW s \in Req, NEW q \in Req, pc'[s] \in Working,
                        pc'[q] \in Working, loc'[s].lead = loc'[q].lead,
                        loc'[q].lead \notin overlapped', s # q
                 PROVE  FALSE
      OBVIOUS
    <3>1. CASE s = r
      BY <2>1, <2>2, <2>3, <3>1
    <3>2. CASE q = r
      BY <2>1, <2>2, <2>3, <3>2
    <3>3. CASE s # r /\ q # r
      BY <2>2, <2>4, <3>3 DEF Serial
    <3> QED BY <3>1, <3>2, <3>3
  <2>6. \A q \in Req : pc'[q] \in Working /\ loc'[q].lead \notin overlapped' =>
           loc'[q].row = lead'[loc'[q].lead]
    <3> SUFFICES ASSUME NEW q \in Req, pc'[q] \in Working,
                        loc'[q].lead \notin overlapped'
                 PROVE  loc'[q].row = lead'[loc'[q].lead]
      OBVIOUS
    <3>1. CASE q = r
      BY <2>1, <2>2, <3>1
    <3>2. CASE q # r
      BY <2>2, <2>4, <3>2 DEF Serial
    <3> QED BY <3>1, <3>2
  <2> QED BY <2>5, <2>6 DEF Serial
<1>2. ASSUME NEW r \in Req,
             CommitLog(r) \/ CommitSkip(r) \/ CommitStage(r) \/ CommitOwner(r)
      PROVE  Serial'
  <2>1. /\ pc[r] \in Working /\ Finish(r) /\ overlapped' = overlapped
        /\ \A p \in Lead \ {loc[r].lead} : lead'[p] = lead[p]
    <3>1. CASE CommitLog(r)
      BY <3>1, CommitLogWrites DEF Working
    <3>2. CASE CommitSkip(r)
      BY <3>2, CommitSkipWrites DEF Working
    <3>3. CASE CommitStage(r)
      BY <3>3, CommitStageWrites DEF Working
    <3>4. CASE CommitOwner(r)
      BY <3>4, CommitOwnerWrites DEF Working
    <3> QED BY <1>2, <3>1, <3>2, <3>3, <3>4
  <2> QED BY <2>1, SerialFinish
<1>3. ASSUME NEW r \in Req, FlushLog(r) \/ Victim(r) \/ CheckLock(r) PROVE Serial'
  <2>1. lead' = lead /\ overlapped' = overlapped
    BY <1>3 DEF FlushLog, Victim, CheckLock, rows, history
  <2> QED BY <1>3, <2>1, NoCall, SerialKept
<1>4. CASE Tick \/ UNCHANGED vars
  BY <1>4, SerialKept DEF Tick, vars, rows, history
<1> QED BY <1>1, <1>2, <1>3, <1>4 DEF Next, Step, Quiet

\* On a lead whose requests never overlapped, each worked on the row as it
\* stands.
LEMMA SerialAlways == Spec => []Serial
<1>1. Init => Serial
  BY DEF Init, Serial, Working
<1> QED BY <1>1, TypeCorrect, SerialNext, PTL DEF Spec

-----------------------------------------------------------------------------
\* A request past the check may assign: nobody else moved its lead since.
Checked ==
    \A r \in Req : pc[r] = "assign" /\ ~loc[r].force /\ loc[r].lead \notin overlapped =>
        \/ loc[r].owner = loc[r].row.owner
        \/ loc[r].row.touched = None
        \/ clock - loc[r].row.touched >= LockTime

\* Every step keeps what the lock's check found out true until the commit.
LEMMA CheckedNext == TypeOK /\ Placed /\ Checked /\ [Next]_vars => Checked'
<1> SUFFICES ASSUME TypeOK, Placed, Checked, [Next]_vars PROVE Checked'
  OBVIOUS
<1>1. ASSUME NEW r \in Req, Start(r) PROVE Checked'
  <2>1. /\ pc'[r] # "assign" /\ clock' = clock /\ overlapped \subseteq overlapped'
        /\ \A q \in Req \ {r} : pc'[q] = pc[q] /\ loc'[q] = loc[q]
    BY <1>1, BeginLoads DEF Opening
  <2> QED BY <2>1 DEF Checked
<1>2. ASSUME NEW r \in Req, Finish(r), clock' = clock, overlapped' = overlapped
      PROVE  Checked'
  BY <1>2, TypedFinish DEF Checked
<1>3. ASSUME NEW r \in Req,
             \/ CommitLog(r) \/ CommitSkip(r) \/ CommitStage(r) \/ CommitOwner(r)
             \/ Victim(r)
      PROVE  Checked'
  <2>1. Finish(r) /\ clock' = clock /\ overlapped' = overlapped
    BY <1>3 DEF CommitLog, CommitSkip, CommitStage, CommitOwner, Victim, history
  <2> QED BY <1>2, <2>1
<1>4. ASSUME NEW r \in Req, FlushLog(r) PROVE Checked'
  <2>1. PICK i : loc' = [loc EXCEPT ![r] = [loc[r] EXCEPT !.id = i, !.began = clock]]
    BY <1>4 DEF FlushLog
  <2>2. /\ pc' = [pc EXCEPT ![r] = "write"] /\ clock' = clock /\ overlapped' = overlapped
    BY <1>4 DEF FlushLog, Goto, history
  <2>3. pc'[r] = "write" /\ \A q \in Req \ {r} : pc'[q] = pc[q] /\ loc'[q] = loc[q]
    BY <2>1, <2>2 DEF TypeOK
  <2> QED BY <2>2, <2>3 DEF Checked
<1>5. ASSUME NEW r \in Req, CheckLock(r) PROVE Checked'
  <2>1. clock' = clock /\ overlapped' = overlapped
    BY <1>5 DEF CheckLock, history
  <2>2. CASE MidCall(r) /\ Finish(r)
    BY <1>2, <2>1, <2>2
  <2>3. CASE ~MidCall(r) /\ Goto(r, "assign") /\ UNCHANGED loc
    <3>1. \A q \in Req \ {r} : pc'[q] = pc[q]
      BY <2>3 DEF Goto, TypeOK
    <3>2. ~loc[r].force => \/ loc[r].owner = loc[r].row.owner
                           \/ loc[r].row.touched = None
                           \/ clock - loc[r].row.touched >= LockTime
      <4>1. loc[r].row.touched # None => clock - loc[r].row.touched \in Int
        BY QueueAssumption DEF TypeOK, Session, LeadRow, Seconds
      <4> QED BY <2>3, <4>1, QueueAssumption DEF MidCall
    <3> QED BY <2>1, <2>3, <3>1, <3>2 DEF Checked
  <2> QED BY <1>5, <2>2, <2>3 DEF CheckLock
<1>6. CASE Tick
  <2>1. \A r \in Req : loc[r].row.touched \in Nat \cup {None} /\ clock \in Nat
    BY QueueAssumption DEF TypeOK, Session, LeadRow, Seconds
  <2>2. clock' = clock + 1 /\ pc' = pc /\ loc' = loc /\ overlapped' = overlapped
    BY <1>6 DEF Tick, history
  <2> QED BY <2>1, <2>2, QueueAssumption DEF Checked
<1>7. CASE UNCHANGED vars
  BY <1>7 DEF vars, history, Checked
<1> QED BY <1>1, <1>3, <1>4, <1>5, <1>6, <1>7 DEF Next, Step, Quiet

\* The mid-call lock holds for every lead that one request at a time works on.
THEOREM MidCallLockHolds == Spec => MidCallLock
<1> DEFINE Guarded ==
      \A r \in Req :
          LET p == loc[r].lead IN
          (pc[r] = "assign" /\ pc'[r] = "done" /\ ~loc[r].force /\ p \notin overlapped') =>
              \/ lead'[p].owner = lead[p].owner
              \/ lead[p].touched = None
              \/ clock - lead[p].touched >= LockTime
<1>1. Init => Checked
  BY DEF Init, Checked
<1>2. TypeOK /\ Placed /\ Serial /\ Checked /\ [Next]_vars => [Guarded]_vars
  <2> SUFFICES ASSUME TypeOK, Placed, Serial, Checked, Next, NEW r \in Req,
                      pc[r] = "assign", pc'[r] = "done", ~loc[r].force,
                      loc[r].lead \notin overlapped'
               PROVE  \/ lead'[loc[r].lead].owner = lead[loc[r].lead].owner
                      \/ lead[loc[r].lead].touched = None
                      \/ clock - lead[loc[r].lead].touched >= LockTime
    OBVIOUS
  <2>1. \A q \in Req \ {r} : ~Start(q) /\ ~Step(q)
    <3> SUFFICES ASSUME NEW q \in Req \ {r}, Start(q) \/ Step(q) PROVE pc'[r] = pc[r]
      OBVIOUS
    <3>1. CASE Start(q)
      BY <3>1, BeginLoads
    <3>2. CASE Finish(q)
      BY <3>2, TypedFinish
    <3>3. CASE FlushLog(q) \/ CheckLock(q)
      BY <3>2, <3>3 DEF FlushLog, CheckLock, Goto, TypeOK
    <3>4. CASE \/ CommitLog(q) \/ CommitSkip(q) \/ CommitStage(q) \/ CommitOwner(q)
               \/ Victim(q)
      BY <3>2, <3>4 DEF CommitLog, CommitSkip, CommitStage, CommitOwner, Victim
    <3> QED BY <3>1, <3>3, <3>4 DEF Step
  <2>2. ~Tick /\ ~Quiet
    BY DEF Tick, Quiet, vars
  <2>3. CommitOwner(r)
    BY <2>1, <2>2, BeginLoads DEF Next, Step, FlushLog, CommitLog, Victim, CommitSkip,
       CommitStage, CheckLock
  <2>4. PICK p : p = loc[r].lead
    OBVIOUS
  <2>5. /\ lead'[p].owner = Written(lead[p].owner, loc[r].row.owner, loc[r].owner)
        /\ overlapped' = overlapped
    BY <2>3, <2>4, CommitOwnerWrites
  <2>6. loc[r].row = lead[p]
    BY <2>4, <2>5 DEF Serial, Working
  <2> QED BY <2>4, <2>5, <2>6 DEF Checked, Written
<1> QED BY <1>1, <1>2, TypeCorrect, SerialAlways, CheckedNext, PTL DEF Spec, MidCallLock

-----------------------------------------------------------------------------
\* Every RNR call of such a lead is counted, and marked from the third on: a session
\* that loaded the present row computes the next count.
THEOREM RnrNoticedHolds == Spec => []RnrNoticed
<1>1. Init => RnrNoticed
  <2> SUFFICES ASSUME Init, NEW p \in Lead
               PROVE  RnrLogs(p) = {} /\ lead[p].rnr = 0 /\ marks[p] = 0
    BY FS_EmptySet DEF RnrNoticed
  <2> QED BY DEF Init, Fresh, RnrLogs, LogsOf, Logged, NoLog
<1>2. TypeOK /\ Placed /\ Serial /\ RnrNoticed /\ [Next]_vars => RnrNoticed'
  <2> SUFFICES ASSUME TypeOK, Placed, Serial, RnrNoticed, [Next]_vars PROVE RnrNoticed'
    OBVIOUS
  <2>1. ASSUME NEW p \in Lead \ overlapped', overlapped \subseteq overlapped',
               lead'[p].rnr = lead[p].rnr, marks'[p] = marks[p],
               RnrLogs(p)' = RnrLogs(p)
        PROVE  LET n == Cardinality(RnrLogs(p)')
               IN lead'[p].rnr = n /\ marks'[p] = IF n >= 3 THEN n - 2 ELSE 0
    BY <2>1 DEF RnrNoticed
  <2>2. ASSUME overlapped \subseteq overlapped', marks' = marks,
               \A p \in Lead : lead'[p].rnr = lead[p].rnr,
               \A p : RnrLogs(p)' = RnrLogs(p)
        PROVE  RnrNoticed'
    BY <2>1, <2>2 DEF RnrNoticed
  <2>3. ASSUME NEW r \in Req, Start(r) PROVE RnrNoticed'
    BY <2>2, <2>3, BeginLoads, RnrLogsKept
  <2>4. ASSUME NEW r \in Req, CommitLog(r) PROVE RnrNoticed'
    <3>1. PICK p : p = loc[r].lead
      OBVIOUS
    <3>2. /\ p \in Lead /\ pc[r] = "write" /\ overlapped' = overlapped
          /\ lead'[p].rnr = Written(lead[p].rnr, loc[r].row.rnr, Counted(r))
          /\ marks'[p] = IF loc[r].outcome = "rnr" /\ Counted(r) >= 3
                         THEN marks[p] + 1 ELSE marks[p]
          /\ \A q \in Lead \ {p} : lead'[q] = lead[q] /\ marks'[q] = marks[q]
      <4>1. /\ p \in Lead /\ pc[r] = "write" /\ overlapped' = overlapped
            /\ lead'[p].rnr = Written(lead[p].rnr, loc[r].row.rnr, Counted(r))
        BY <2>4, <3>1, CommitLogWrites
      <4>2. marks'[p] = IF loc[r].outcome = "rnr" /\ Counted(r) >= 3
                        THEN marks[p] + 1 ELSE marks[p]
        BY <2>4, <3>1, CommitLogWrites
      <4>3. \A q \in Lead \ {p} : lead'[q] = lead[q] /\ marks'[q] = marks[q]
        BY <2>4, <3>1, CommitLogWrites
      <4> QED BY <4>1, <4>2, <4>3
    <3>3. \A q : Cardinality(RnrLogs(q)') =
                   IF q = p /\ loc[r].outcome = "rnr"
                   THEN Cardinality(RnrLogs(q)) + 1 ELSE Cardinality(RnrLogs(q))
      BY <2>4, <3>1, RnrLogsCommit
    <3>4. ASSUME p \notin overlapped
          PROVE  LET n == Cardinality(RnrLogs(p)')
                 IN lead'[p].rnr = n /\ marks'[p] = IF n >= 3 THEN n - 2 ELSE 0
      <4> DEFINE n == Cardinality(RnrLogs(p))
      <4>1. loc[r].row.rnr = lead[p].rnr
        BY <3>1, <3>2, <3>4 DEF Serial, Working
      <4>2. n \in Nat /\ lead[p].rnr = n /\ marks[p] = IF n >= 3 THEN n - 2 ELSE 0
        BY <3>2, <3>4, RnrLogsFinite DEF RnrNoticed
      <4>3. lead'[p].rnr = Counted(r)
        BY <3>2, <4>1 DEF Written
      <4>4. Cardinality(RnrLogs(p)') = IF loc[r].outcome = "rnr" THEN n + 1 ELSE n
        BY <3>3
      <4>5. Counted(r) = IF loc[r].outcome = "rnr" THEN n + 1 ELSE n
        BY <4>1, <4>2 DEF Counted
      <4> HIDE DEF n
      <4>6. CASE loc[r].outcome = "rnr"
        BY <3>2, <4>2, <4>3, <4>4, <4>5, <4>6
      <4>7. CASE loc[r].outcome # "rnr"
        BY <3>2, <4>2, <4>3, <4>4, <4>5, <4>7
      <4> QED BY <4>6, <4>7
    <3>5. ASSUME NEW q \in Lead \ overlapped, q # p
          PROVE  LET n == Cardinality(RnrLogs(q)')
                 IN lead'[q].rnr = n /\ marks'[q] = IF n >= 3 THEN n - 2 ELSE 0
      BY <3>2, <3>3, <3>5 DEF RnrNoticed
    <3> QED BY <3>2, <3>4, <3>5 DEF RnrNoticed
  <2>5. ASSUME NEW r \in Req,
               \/ FlushLog(r) \/ Victim(r) \/ CommitSkip(r) \/ CommitStage(r)
               \/ CheckLock(r) \/ CommitOwner(r)
        PROVE  RnrNoticed'
    <3>1. marks' = marks /\ overlapped' = overlapped
      BY <2>5 DEF FlushLog, Victim, CommitSkip, CommitStage, CheckLock, CommitOwner,
         rows, history
    <3> QED BY <2>2, <2>5, <3>1, NoCall
  <2>6. CASE Tick \/ UNCHANGED vars
    <3>1. lead' = lead /\ log' = log /\ marks' = marks /\ overlapped' = overlapped
      BY <2>6 DEF Tick, vars, rows, history
    <3> QED BY <2>2, <3>1, RnrLogsKept
  <2> QED BY <2>3, <2>4, <2>5, <2>6 DEF Next, Step, Quiet
<1> QED BY <1>1, <1>2, TypeCorrect, SerialAlways, PTL DEF Spec

-----------------------------------------------------------------------------
\* The history of one lead.
Chained(p) ==
    /\ lead[p].stage = StageAfter(p, Len(changes[p]))
    /\ \A i \in 1 .. Len(changes[p]) : changes[p][i].from = StageAfter(p, i - 1)

\* A step that leaves stage and history of a lead alone keeps its chain.
LEMMA ChainKept ==
  ASSUME NEW p \in Lead, Chained(p), lead'[p].stage = lead[p].stage, changes'[p] = changes[p]
  PROVE  Chained(p)'
BY DEF Chained, StageAfter

\* A stage change that records the current stage as the old one lengthens the
\* chain.
LEMMA ChainGrows ==
  ASSUME TypeOK, NEW p \in Lead, Chained(p), NEW s \in Stages, lead'[p].stage = s,
         changes'[p] = Append(changes[p], [from |-> lead[p].stage, to |-> s])
  PROVE  Chained(p)'
<1> DEFINE old == changes[p]
           new == changes'[p]
           n == Len(old)
<1>1. old \in Seq([from : Stages, to : Stages]) /\ lead[p].stage \in Stages
  BY DEF TypeOK, LeadRow
<1>2. n \in Nat /\ Len(new) = n + 1 /\ (\A i \in 1..n : new[i] = old[i])
      /\ new[n + 1] = [from |-> lead[p].stage, to |-> s]
  BY <1>1
<1>3. /\ lead[p].stage = IF n = 0 THEN "cold" ELSE old[n].to
      /\ \A i \in 1..n : old[i].from = IF i - 1 = 0 THEN "cold" ELSE old[i - 1].to
  BY DEF Chained, StageAfter
<1> HIDE DEF old, new, n
<1>4. s = IF n + 1 = 0 THEN "cold" ELSE new[n + 1].to
  BY <1>2
<1>5. ASSUME NEW i \in 1 .. n + 1
      PROVE  new[i].from = IF i - 1 = 0 THEN "cold" ELSE new[i - 1].to
  <2>1. CASE i = n + 1
    BY <1>2, <1>3, <2>1
  <2>2. CASE i \in 1..n
    BY <1>2, <1>3, <2>2
  <2> QED BY <1>2, <2>1, <2>2
<1>6. lead'[p].stage = IF Len(new) = 0 THEN "cold" ELSE new[Len(new)].to
  BY <1>2, <1>4
<1>7. \A i \in 1 .. Len(new) : new[i].from = IF i - 1 = 0 THEN "cold" ELSE new[i - 1].to
  BY <1>2, <1>5
<1> QED BY <1>6, <1>7 DEF new, Chained, StageAfter

\* The stage history of such a lead is a chain that ends in its stage: each change
\* records as "from" the stage that the table holds when it is written.
THEOREM HistoryAgreesHolds == Spec => []HistoryAgrees
<1>1. Init => HistoryAgrees
  BY DEF Init, HistoryAgrees, StageAfter, Fresh
<1>2. TypeOK /\ Placed /\ Serial /\ HistoryAgrees /\ [Next]_vars => HistoryAgrees'
  <2> SUFFICES ASSUME TypeOK, Placed, Serial, HistoryAgrees, [Next]_vars,
                      NEW p \in Lead \ overlapped'
               PROVE  Chained(p)'
    BY DEF HistoryAgrees, Chained
  <2>1. ASSUME p \notin overlapped PROVE Chained(p)
    BY <2>1 DEF HistoryAgrees, Chained
  <2>2. ASSUME NEW r \in Req, Start(r) PROVE Chained(p)'
    BY <2>1, <2>2, BeginLoads, ChainKept
  <2>3. ASSUME NEW r \in Req, CommitLog(r) PROVE Chained(p)'
    <3>1. PICK l : l = loc[r].lead
      OBVIOUS
    <3>2. /\ l \in Lead /\ pc[r] = "write" /\ overlapped' = overlapped
          /\ lead'[l].stage = IF Converts(r) THEN "converted" ELSE lead[l].stage
          /\ changes'[l] = IF Converts(r)
               THEN Append(changes[l], [from |-> loc[r].row.stage, to |-> "converted"])
               ELSE changes[l]
          /\ \A q \in Lead \ {l} : lead'[q] = lead[q] /\ changes'[q] = changes[q]
      BY <2>3, <3>1, CommitLogWrites
    <3>3. CASE l = p /\ Converts(r)
      <4>1. loc[r].row.stage = lead[p].stage
        BY <3>1, <3>2, <3>3 DEF Serial, Working
      <4> QED BY <2>1, <3>2, <3>3, <4>1, ChainGrows DEF Stages
    <3>4. CASE ~(l = p /\ Converts(r))
      BY <2>1, <3>2, <3>4, ChainKept
    <3> QED BY <3>3, <3>4
  <2>4. ASSUME NEW r \in Req, CommitStage(r) PROVE Chained(p)'
    <3>1. PICK l : l = loc[r].lead
      OBVIOUS
    <3>2. /\ l \in Lead /\ pc[r] = "stage" /\ overlapped' = overlapped
          /\ lead'[l].stage = Written(lead[l].stage, loc[r].row.stage, loc[r].stage)
          /\ changes'[l] = Append(changes[l],
                                  [from |-> loc[r].row.stage, to |-> loc[r].stage])
          /\ \A q \in Lead \ {l} : lead'[q] = lead[q] /\ changes'[q] = changes[q]
      BY <2>4, <3>1, CommitStageWrites
    <3>3. CASE l = p
      <4>1. loc[r].row.stage = lead[p].stage
        BY <3>1, <3>2, <3>3 DEF Serial, Working
      <4>2. lead'[p].stage = loc[r].stage /\ loc[r].stage \in Stages
        BY <3>2, <3>3, <4>1 DEF Written, TypeOK, Session
      <4> QED BY <2>1, <3>2, <3>3, <4>1, <4>2, ChainGrows
    <3>4. CASE l # p
      BY <2>1, <3>2, <3>4, ChainKept
    <3> QED BY <3>3, <3>4
  <2>5. ASSUME NEW r \in Req, CommitSkip(r) PROVE Chained(p)'
    <3>1. lead'[p].stage = lead[p].stage /\ changes' = changes /\ overlapped' = overlapped
      BY <2>5, CommitSkipWrites
    <3> QED BY <2>1, <3>1, ChainKept
  <2>6. ASSUME NEW r \in Req, CommitOwner(r) PROVE Chained(p)'
    <3>1. lead'[p].stage = lead[p].stage /\ changes' = changes /\ overlapped' = overlapped
      BY <2>6, CommitOwnerWrites
    <3> QED BY <2>1, <3>1, ChainKept
  <2>7. ASSUME NEW r \in Req, FlushLog(r) \/ Victim(r) \/ CheckLock(r) PROVE Chained(p)'
    BY <2>1, <2>7, ChainKept DEF FlushLog, Victim, CheckLock, rows, history
  <2>8. CASE Tick \/ UNCHANGED vars
    BY <2>1, <2>8, ChainKept DEF Tick, vars, rows, history
  <2> QED BY <2>2, <2>3, <2>4, <2>5, <2>6, <2>7, <2>8 DEF Next, Step, Quiet
<1> QED BY <1>1, <1>2, TypeCorrect, SerialAlways, PTL DEF Spec

-----------------------------------------------------------------------------
(***************************************************************************)
(* What is still owed.                                                     *)
(***************************************************************************)
\* A caller's call, and a call back with its time.
Dated(call) == /\ call.caller \in Caller
               /\ call.outcome = "call_back" => call.callback # None

\* Every call that is being recorded, and every row of call_logs.
AllDated == /\ \A r \in Req : pc[r] = "record" => Dated(loc[r])
            /\ \A i \in LogId : log[i].state # "free" => Dated(log[i])

\* A request that starts to record a call carries a caller and the time of a call back.
LEMMA StartDated ==
  ASSUME TypeOK, NEW r \in Req, Start(r), pc'[r] = "record"
  PROVE  Dated(loc'[r])
<1>1. Record(r)
  BY DEF Start, Record, Skip, ChangeStage, Reassign, Begin, TypeOK
<1>2. PICK c \in Caller, p \in Lead, o \in Outcomes, t \in Times \cup {None} :
        /\ o = "call_back" => t # None
        /\ Begin(r, "record", p, [Nothing EXCEPT !.caller = c, !.outcome = o,
                                    !.callback = t, !.offered = InTurn(c, p)])
  BY <1>1 DEF Record
<1> DEFINE l == [[Nothing EXCEPT !.caller = c, !.outcome = o, !.callback = t,
                                 !.offered = InTurn(c, p)]
                   EXCEPT !.lead = p, !.row = lead[p], !.began = clock]
<1>3. l.caller = c /\ l.outcome = o /\ l.callback = t
  BY DEF Nothing
<1>4. loc' = [loc EXCEPT ![r] = l]
  BY <1>2 DEF Begin
<1> HIDE DEF l
<1>5. loc'[r] = l
  BY <1>4 DEF TypeOK
<1> QED BY <1>2, <1>3, <1>5 DEF Dated

\* The row that is flushed is the payload, and no step changes a row's payload.
LEMMA DatedNext == TypeOK /\ Placed /\ AllDated /\ [Next]_vars => AllDated'
<1> SUFFICES ASSUME TypeOK, Placed, AllDated, [Next]_vars PROVE AllDated'
  OBVIOUS
<1>1. ASSUME NEW r \in Req, Start(r) PROVE AllDated'
  <2>1. log' = log /\ \A q \in Req \ {r} : pc'[q] = pc[q] /\ loc'[q] = loc[q]
    BY <1>1, BeginLoads
  <2>2. pc'[r] = "record" => Dated(loc'[r])
    BY <1>1, StartDated
  <2> QED BY <2>1, <2>2 DEF AllDated, Dated
<1>2. ASSUME NEW r \in Req, FlushLog(r) PROVE AllDated'
  <2>1. PICK i \in LogId :
          log' = [log EXCEPT ![i] =
            [state |-> "flushed", lead |-> loc[r].lead, caller |-> loc[r].caller,
             outcome |-> loc[r].outcome, callback |-> loc[r].callback, at |-> clock]]
    BY <1>2 DEF FlushLog
  <2>2. pc[r] = "record" /\ pc'[r] = "write"
        /\ \A q \in Req \ {r} : pc'[q] = pc[q] /\ loc'[q] = loc[q]
    BY <1>2 DEF FlushLog, Goto, TypeOK
  <2>3. /\ \A j \in LogId \ {i} : log'[j] = log[j]
        /\ log'[i].caller = loc[r].caller /\ log'[i].outcome = loc[r].outcome
        /\ log'[i].callback = loc[r].callback
    BY <2>1 DEF TypeOK
  <2>4. Dated(loc[r])
    BY <2>2 DEF AllDated
  <2> QED BY <2>2, <2>3, <2>4 DEF AllDated, Dated
<1>3. ASSUME NEW r \in Req, CommitLog(r) \/ Victim(r) PROVE AllDated'
  <2>1. /\ pc[r] = "write" /\ Finish(r)
        /\ \/ log' = [log EXCEPT ![loc[r].id].state = "logged"]
           \/ log' = [log EXCEPT ![loc[r].id].state = "void"]
    BY <1>3 DEF CommitLog, Victim
  <2>2. loc[r].id \in LogId /\ log[loc[r].id].state = "flushed"
    BY <2>1 DEF Placed
  <2>0. PICK i \in LogId, s \in {"logged", "void"} :
          i = loc[r].id /\ log' = [log EXCEPT ![i] = [log[i] EXCEPT !.state = s]]
    BY <2>1, <2>2
  <2>3. \A j \in LogId : /\ log'[j].caller = log[j].caller
                         /\ log'[j].outcome = log[j].outcome
                         /\ log'[j].callback = log[j].callback
                         /\ log[j].state = "free" => log'[j].state = "free"
    BY <2>0, <2>2 DEF TypeOK, LogRow
  <2>4. \A q \in Req : pc'[q] = "record" => pc[q] = "record" /\ loc'[q] = loc[q]
    BY <2>1, TypedFinish
  <2> QED BY <2>3, <2>4 DEF AllDated, Dated
<1>4. ASSUME NEW r \in Req,
             CommitSkip(r) \/ CommitStage(r) \/ CheckLock(r) \/ CommitOwner(r)
      PROVE  AllDated'
  <2>1. log' = log
    BY <1>4 DEF CommitSkip, CommitStage, CheckLock, CommitOwner, rows
  <2>2. \A q \in Req : pc'[q] = "record" => pc[q] = "record" /\ loc'[q] = loc[q]
    <3>1. CASE Finish(r)
      BY <3>1, TypedFinish
    <3>2. CASE Goto(r, "assign") /\ UNCHANGED loc
      BY <3>2 DEF Goto, TypeOK
    <3> QED BY <1>4, <3>1, <3>2 DEF CommitSkip, CommitStage, CheckLock, CommitOwner
  <2> QED BY <2>1, <2>2 DEF AllDated, Dated
<1>5. CASE Tick \/ UNCHANGED vars
  BY <1>5 DEF Tick, vars, rows, AllDated, Dated
<1> QED BY <1>1, <1>2, <1>3, <1>4, <1>5 DEF Next, Step, Quiet

\* The queue and the panels owe the same calls, and the card counts its panel.
THEOREM ViewsAgreeHolds == Spec => []ViewsAgree
<1>1. Init => AllDated
  BY DEF Init, AllDated, NoLog
<1>2. TypeOK /\ AllDated => ViewsAgree
  <2> SUFFICES ASSUME TypeOK, AllDated PROVE ViewsAgree
    OBVIOUS
  <2>0. \A i \in Logged : i \in LogId /\ Dated(log[i]) /\ log[i].at \in Nat
    BY DEF AllDated, Logged, TypeOK, LogRow, Seconds
  <2>1. ASSUME NEW p \in Lead,
               \A i, j \in LogsOf(p) : log[i].at = log[j].at => i = j
        PROVE  {i \in Open(p) : log[i].outcome # "follow_up"} =
               {i \in LogsOf(p) : \E c \in Caller, o \in {"call_back", "demo_scheduled"} :
                                      i \in Panel(c, o)}
    <3> DEFINE Owed == {i \in LogsOf(p) : /\ log[i].outcome \in {"call_back", "demo_scheduled"}
                                          /\ log[i].callback # None
                                          /\ ~Superseded(i)}
    <3>1. {i \in LogsOf(p) : \E c \in Caller, o \in {"call_back", "demo_scheduled"} :
                                 i \in Panel(c, o)} = Owed
      BY <2>0 DEF Panel, LogsOf, Dated
    <3>2. ASSUME NEW i \in LogsOf(p), log[i].outcome \in {"call_back", "demo_scheduled"}
          PROVE  Superseded(i) <=> \E j \in LogsOf(p) :
                    log[j].at > log[i].at /\ log[j].outcome \in Resolving(log[i].outcome)
      <4>1. Resolving(log[i].outcome) = Superseding(log[i].outcome)
        BY <3>2 DEF Resolving, Superseding
      <4>2. log[i].lead = p
        BY DEF LogsOf
      <4>3. \A j \in LogsOf(p) : Later(j, i) <=> log[j].at > log[i].at
        <5>1. \A j \in LogsOf(p) : j \in Nat /\ log[j].at \in Nat
          BY <2>0, QueueAssumption DEF LogsOf
        <5> QED BY <2>1, <5>1 DEF Later
      <4> QED BY <4>1, <4>2, <4>3 DEF Superseded
    <3>3. ASSUME NEW i \in LogsOf(p)
          PROVE  Resolving(log[i].outcome) # {} /\ log[i].outcome # "follow_up"
                   <=> log[i].outcome \in {"call_back", "demo_scheduled"}
      BY DEF Resolving
    <3>4. {i \in Open(p) : log[i].outcome # "follow_up"} = Owed
      BY <3>2, <3>3 DEF Open, Promises
    <3> HIDE DEF Owed
    <3> QED BY <3>1, <3>4
  <2>2. ASSUME NEW c \in Caller
        PROVE  OpenCount(c, "call_back") =
                  Cardinality({log[i].lead : i \in Panel(c, "call_back")})
    <3>1. {j \in Logged : /\ log[j].caller = c
                          /\ log[j].outcome = "call_back"
                          /\ ~Superseded(j)} = Panel(c, "call_back")
      BY <2>0 DEF Panel, Dated
    <3> QED BY <3>1 DEF OpenCount
  <2> QED BY <2>1, <2>2 DEF ViewsAgree
<1> QED BY <1>1, <1>2, DatedNext, TypeCorrect, PTL DEF Spec

-----------------------------------------------------------------------------
(***************************************************************************)
(* The rotation.                                                           *)
(***************************************************************************)
Owes(p) == Promises(p) # {}

\* q was touched before p, or never.
Behind(q, p) == lead[q].touched = None \/ lead[q].touched < lead[p].touched

\* The lead that a session was offered: one caller's alone, and none of the leads
\* it was chosen from had fewer turns.
Offered(p) ==
    \E c \in Caller :
        /\ \A d \in Caller \ {c} : p \notin Eligible(d)
        /\ ~Owes(p) => \A q \in Eligible(c) : ~Owes(q) => turns[p] <= turns[q]

\* Of two leads of a caller that owe no call, one is a turn ahead at most, and the
\* one that is ahead was touched later.
Close(p, q) == \/ turns[p] <= turns[q]
               \/ turns[p] = turns[q] + 1 /\ lead[p].touched # None /\ Behind(q, p)

Rotation ==
    /\ \A q, r \in Active : q = r
    /\ \A r \in Active : pc[r] \in {"record", "write", "skip"} /\ Offered(loc[r].lead)
    /\ \A p \in Lead : lead[p].touched = None => turns[p] = 0
    /\ \A p, q \in Lead : lead[p].touched # None /\ lead[p].touched = lead[q].touched
                            => p = q
    /\ \A c \in Caller : \A p, q \in Eligible(c) : ~Owes(p) /\ ~Owes(q) => Close(p, q)

\* A lead that owes no call is not due.
LEMMA NotDue == ASSUME NEW p, ~Owes(p) PROVE Due(p) = None
BY DEF Owes, Due, Open

\* The head of the queue has the fewest turns.
LEMMA HeadBehind ==
  ASSUME TypeOK, Rotation, NEW c \in Caller, NEW p \in Heads(c), NEW q \in Eligible(c),
         ~Owes(p), ~Owes(q)
  PROVE  turns[p] <= turns[q]
<1>1. p \in Eligible(c) /\ p \in Lead /\ q \in Lead /\ ~Before(q, p)
  BY DEF Heads, Eligible
<1>2. Due(p) = None /\ Due(q) = None
  BY NotDue
<1>3. CASE turns[p] = turns[q] + 1 /\ lead[p].touched # None /\ Behind(q, p)
  BY <1>1, <1>2, <1>3 DEF Before, Behind
<1> QED BY <1>1, <1>3 DEF Rotation, Close

\* What FairRotation says, from the invariant.
LEMMA RotationFair == TypeOK /\ (~odd => Rotation) => FairRotation
<1> SUFFICES ASSUME TypeOK, ~odd, Rotation, NEW c \in Caller, NEW p \in Heads(c),
                    NEW q \in Eligible(c), Promises(p) \cup Promises(q) = {}
             PROVE  turns[p] <= turns[q]
  BY DEF FairRotation
<1>1. ~Owes(p) /\ ~Owes(q)
  BY DEF Owes
<1> QED BY <1>1, HeadBehind

\* A request that keeps the run in order was offered its lead with nobody else
\* under way.
LEMMA StartInTurn ==
  ASSUME TypeOK, NEW r \in Req, Start(r), ~odd'
  PROVE  /\ ~odd /\ Active = {} /\ turns' = turns
         /\ pc'[r] \in {"record", "skip"}
         /\ \E c \in Caller : InTurn(c, loc'[r].lead)
<1>0. Nothing.offered = FALSE
  BY DEF Nothing
<1>1. CASE Record(r) \/ Skip(r)
  <2>1. PICK c \in Caller, p \in Lead, next \in {"record", "skip"}, payload \in Session :
          Begin(r, next, p, payload) /\ payload.offered = InTurn(c, p)
    <3>1. CASE Record(r)
      <4>1. PICK c \in Caller, p \in Lead, o \in Outcomes, t \in Times \cup {None} :
              Begin(r, "record", p, [Nothing EXCEPT !.caller = c, !.outcome = o,
                                       !.callback = t, !.offered = InTurn(c, p)])
        BY <3>1 DEF Record
      <4>2. InTurn(c, p) \in BOOLEAN
        BY DEF InTurn
      <4> DEFINE call == [Nothing EXCEPT !.caller = c, !.outcome = o, !.callback = t,
                                         !.offered = InTurn(c, p)]
      <4>3. call \in Session /\ call.offered = InTurn(c, p)
        BY <4>2, NothingTyped, QueueAssumption DEF Session
      <4> HIDE DEF call
      <4> QED BY <4>1, <4>3 DEF call
    <3>2. CASE Skip(r)
      <4>1. PICK c \in Caller, p \in Lead :
              Begin(r, "skip", p, [Nothing EXCEPT !.offered = InTurn(c, p)])
        BY <3>2 DEF Skip
      <4>2. InTurn(c, p) \in BOOLEAN
        BY DEF InTurn
      <4>3. [Nothing EXCEPT !.offered = InTurn(c, p)] \in Session
            /\ [Nothing EXCEPT !.offered = InTurn(c, p)].offered = InTurn(c, p)
        BY <4>2, NothingTyped DEF Session
      <4> QED BY <4>1, <4>3
    <3> QED BY <1>1, <3>1, <3>2
  <2> DEFINE l == [payload EXCEPT !.lead = p, !.row = lead[p], !.began = clock]
  <2>2. payload.offered = InTurn(c, p) /\ l.lead = p
    BY <2>1 DEF Session
  <2>3. /\ odd' = (odd \/ ~payload.offered) /\ pc' = [pc EXCEPT ![r] = next]
        /\ loc' = [loc EXCEPT ![r] = l]
        /\ turns' = IF odd' THEN [q \in Lead |-> 0] ELSE turns
    BY <2>1 DEF Begin
  <2> HIDE DEF l
  <2>4. InTurn(c, p) /\ ~odd /\ turns' = turns
    BY <2>2, <2>3
  <2>5. loc'[r].lead = p /\ pc'[r] \in {"record", "skip"}
    BY <2>2, <2>3 DEF TypeOK
  <2> QED BY <2>4, <2>5 DEF InTurn
<1>2. CASE ChangeStage(r)
  <2>1. PICK p \in Lead, s \in NewStages : Begin(r, "stage", p, [Nothing EXCEPT !.stage = s])
    BY <1>2 DEF ChangeStage
  <2>2. ~[Nothing EXCEPT !.stage = s].offered
    BY <1>0 DEF Nothing
  <2> QED BY <2>1, <2>2 DEF Begin
<1>3. CASE Reassign(r)
  <2>1. PICK p \in Lead, c \in Caller \cup {None}, f \in BOOLEAN :
          Begin(r, "check", p, [Nothing EXCEPT !.owner = c, !.force = f])
    BY <1>3 DEF Reassign
  <2>2. ~[Nothing EXCEPT !.owner = c, !.force = f].offered
    BY <1>0 DEF Nothing
  <2> QED BY <2>1, <2>2 DEF Begin
<1> QED BY <1>1, <1>2, <1>3 DEF Start

\* The turn of the lead that was offered.
LEMMA TouchRotates ==
  ASSUME TypeOK, Rotation, ~odd', NEW r \in Active, NEW p \in Lead, p = loc[r].lead,
         NEW now \in Nat, Touched(r, now), Finish(r),
         lead'[p].touched = now, lead'[p].owner = lead[p].owner,
         lead'[p].stage \notin ExcludedStages => lead[p].stage \notin ExcludedStages,
         \A q \in Lead \ {p} : lead'[q] = lead[q],
         \A q \in Lead : Owes(q) => Owes(q)'
  PROVE  Rotation'
<1>1. Active' = {}
  <2>1. Active \subseteq {r}
    BY DEF Rotation
  <2>2. r \in Req /\ pc'[r] = "done" /\ \A q \in Req \ {r} : pc'[q] = pc[q]
    BY TypedFinish DEF Active
  <2> QED BY <2>1, <2>2 DEF Active, Working
<1>2. /\ \A q \in Lead : turns[q] \in Nat /\ lead[q].touched \in Nat \cup {None}
      /\ None \notin Nat
  BY QueueAssumption DEF TypeOK, LeadRow, Seconds
<1>3. /\ \A q \in Lead : lead[q].touched = None \/ lead[q].touched < now
      /\ \A q \in Lead : turns'[q] = IF q = p THEN turns[q] + 1 ELSE turns[q]
  <2>1. ~\E q \in Lead : lead[q].touched # None /\ lead[q].touched >= now
    BY DEF Touched
  <2>2. turns' = [q \in Lead |-> IF q = p THEN turns[q] + 1 ELSE turns[q]]
    BY DEF Touched
  <2>3. \A q \in Lead : lead[q].touched = None \/ lead[q].touched < now
    BY <1>2, <2>1
  <2> QED BY <2>2, <2>3
<1>4. \A q \in Lead : lead'[q].touched = IF q = p THEN now ELSE lead[q].touched
  OBVIOUS
<1>5. \A q \in Lead : lead'[q].touched = None => turns'[q] = 0
  BY <1>2, <1>3, <1>4 DEF Rotation
<1>6. \A q, s \in Lead : lead'[q].touched # None /\ lead'[q].touched = lead'[s].touched
                           => q = s
  BY <1>2, <1>3, <1>4 DEF Rotation
<1>7. \A c \in Caller : Eligible(c)' \subseteq Eligible(c)
  BY DEF Eligible
<1>8. ASSUME NEW c \in Caller, NEW a \in Eligible(c)', NEW b \in Eligible(c)',
             ~Owes(a)', ~Owes(b)'
      PROVE  Close(a, b)'
  <2>1. /\ a \in Lead /\ b \in Lead /\ ~Owes(a) /\ ~Owes(b)
        /\ a \in Eligible(c) /\ b \in Eligible(c)
    BY <1>7, <1>8 DEF Eligible
  <2>2. Close(a, b)
    BY <2>1 DEF Rotation
  <2>3. CASE a = p /\ b # p
    <3>1. turns[p] <= turns[b]
      <4>1. PICK e \in Caller :
              /\ \A d \in Caller \ {e} : p \notin Eligible(d)
              /\ ~Owes(p) => \A q \in Eligible(e) : ~Owes(q) => turns[p] <= turns[q]
        BY DEF Rotation, Offered
      <4>2. c = e
        BY <2>1, <2>3, <4>1
      <4> QED BY <2>1, <2>3, <4>1, <4>2
    <3> QED BY <1>2, <1>3, <1>4, <2>1, <2>3, <3>1 DEF Close, Behind
  <2>4. CASE b = p
    BY <1>2, <1>3, <2>1, <2>2, <2>4 DEF Close
  <2>5. CASE a # p /\ b # p
    BY <1>3, <1>4, <2>1, <2>2, <2>5 DEF Close, Behind
  <2> QED BY <2>3, <2>4, <2>5
<1> QED BY <1>1, <1>5, <1>6, <1>8 DEF Rotation

\* The logged calls are only added to.
LEMMA OwesStays ==
  ASSUME NEW q, \A i \in LogId : log[i].state = "logged" => log'[i] = log[i], Owes(q)
  PROVE  Owes(q)'
BY DEF Owes, Promises, LogsOf, Logged

\* A step that publishes no call and touches no lead.
LEMMA RotationKept ==
  ASSUME TypeOK, Rotation, lead' = lead, turns' = turns,
         \A i \in LogId : \/ log'[i] = log[i]
                          \/ log[i].state # "logged" /\ log'[i].state # "logged",
         \A q \in Req : pc'[q] \in Working =>
             /\ pc[q] \in Working /\ loc'[q].lead = loc[q].lead
             /\ pc'[q] \in {"record", "write", "skip"} \/ pc'[q] = pc[q]
  PROVE  Rotation'
<1>1. \A q : Owes(q)' = Owes(q)
  BY DEF Owes, Promises, LogsOf, Logged
<1>2. \A c : Eligible(c)' = Eligible(c)
  BY DEF Eligible
<1>3. \A q \in Active' : q \in Active /\ loc'[q].lead = loc[q].lead
                         /\ pc'[q] \in {"record", "write", "skip"}
  BY DEF Active, Rotation
<1>4. \A p : Offered(p) => Offered(p)'
  BY <1>1, <1>2 DEF Offered
<1>5. \A q \in Active' : Offered(loc[q].lead)
  BY <1>3 DEF Rotation
<1>6. \A q, r \in Active' : q = r
  BY <1>3 DEF Rotation
<1>7. /\ \A p \in Lead : lead'[p].touched = None => turns'[p] = 0
      /\ \A p, q \in Lead : lead'[p].touched # None /\ lead'[p].touched = lead'[q].touched
                              => p = q
  BY DEF Rotation
<1>8. \A p, q : Close(p, q) => Close(p, q)'
  BY DEF Close, Behind
<1>9. \A c \in Caller : \A p, q \in Eligible(c)' : ~Owes(p)' /\ ~Owes(q)' => Close(p, q)'
  BY <1>1, <1>2, <1>8 DEF Rotation
<1>10. \A q \in Active' : pc'[q] \in {"record", "write", "skip"} /\ Offered(loc[q].lead)'
  BY <1>3, <1>4, <1>5 DEF Offered
<1> QED BY <1>6, <1>7, <1>9, <1>10 DEF Rotation

\* Every step that keeps the run in order keeps the rotation.
LEMMA RotationNext ==
  TypeOK /\ Placed /\ (~odd => Rotation) /\ [Next]_vars => (~odd => Rotation)'
<1> SUFFICES ASSUME TypeOK, Placed, ~odd => Rotation, [Next]_vars, ~odd' PROVE Rotation'
  OBVIOUS
<1>1. ASSUME NEW r \in Req, Start(r) PROVE Rotation'
  <2>1. /\ Active = {} /\ Rotation /\ turns' = turns /\ lead' = lead /\ log' = log
        /\ pc'[r] \in {"record", "skip"} /\ \A q \in Req \ {r} : pc'[q] = pc[q]
    BY <1>1, StartInTurn, BeginLoads
  <2>2. PICK c \in Caller : InTurn(c, loc'[r].lead)
    BY <1>1, StartInTurn
  <2>3. PICK p : p = loc'[r].lead
    OBVIOUS
  <2>4. Offered(p)
    <3>1. p \in Heads(c) /\ \A d \in Caller \ {c} : p \notin Eligible(d)
      BY <2>2, <2>3 DEF InTurn
    <3>2. ~Owes(p) => \A q \in Eligible(c) : ~Owes(q) => turns[p] <= turns[q]
      BY <2>1, <3>1, HeadBehind
    <3> QED BY <3>1, <3>2 DEF Offered
  <2>5. /\ \A q : Owes(q)' = Owes(q)
        /\ \A d : Eligible(d)' = Eligible(d)
    BY <2>1 DEF Owes, Promises, LogsOf, Logged, Eligible
  <2>6. \A q \in Active' : q = r
    BY <2>1 DEF Active
  <2>7. \A q \in Active' : pc'[q] \in {"record", "write", "skip"} /\ Offered(loc[q].lead)'
    BY <2>1, <2>3, <2>4, <2>5, <2>6 DEF Offered
  <2>8. /\ \A q \in Lead : lead'[q].touched = None => turns'[q] = 0
        /\ \A q, s \in Lead : lead'[q].touched # None /\ lead'[q].touched = lead'[s].touched
                                => q = s
    BY <2>1 DEF Rotation
  <2>9. \A q, s : Close(q, s)' = Close(q, s)
    BY <2>1 DEF Close, Behind
  <2>10. \A d \in Caller : \A q, s \in Eligible(d)' : ~Owes(q)' /\ ~Owes(s)' => Close(q, s)'
    BY <2>1, <2>5, <2>9 DEF Rotation
  <2> QED BY <2>6, <2>7, <2>8, <2>10 DEF Rotation
<1>2. ASSUME NEW r \in Req, FlushLog(r) PROVE Rotation'
  <2>1. lead' = lead /\ turns' = turns /\ odd' = odd /\ pc[r] \in Working
    BY <1>2 DEF FlushLog, history, Working
  <2>2. PICK i \in LogId :
          /\ log[i].state = "free"
          /\ log' = [log EXCEPT ![i] =
               [state |-> "flushed", lead |-> loc[r].lead, caller |-> loc[r].caller,
                outcome |-> loc[r].outcome, callback |-> loc[r].callback,
                at |-> clock]]
          /\ loc' = [loc EXCEPT ![r] = [loc[r] EXCEPT !.id = i, !.began = clock]]
    BY <1>2 DEF FlushLog
  <2>3. log'[i].state = "flushed" /\ \A j \in LogId \ {i} : log'[j] = log[j]
    BY <2>2 DEF TypeOK
  <2>4. pc'[r] = "write" /\ \A q \in Req \ {r} : pc'[q] = pc[q]
    BY <1>2 DEF FlushLog, Goto, TypeOK
  <2>5. \A q \in Req : loc'[q].lead = loc[q].lead
    BY <2>2 DEF TypeOK, Session
  <2> QED BY <2>1, <2>2, <2>3, <2>4, <2>5, RotationKept
<1>3. ASSUME NEW r \in Req, Victim(r) PROVE Rotation'
  <2>1. /\ lead' = lead /\ turns' = turns /\ odd' = odd /\ Finish(r)
        /\ pc[r] = "write" /\ log' = [log EXCEPT ![loc[r].id].state = "void"]
    BY <1>3 DEF Victim, history
  <2>2. loc[r].id \in LogId /\ log[loc[r].id].state = "flushed"
    BY <2>1 DEF Placed
  <2>3. /\ log'[loc[r].id].state = "void"
        /\ \A j \in LogId \ {loc[r].id} : log'[j] = log[j]
    BY <2>1, <2>2 DEF TypeOK, LogRow
  <2>4. \A q \in Req : pc'[q] \in Working => pc'[q] = pc[q] /\ loc'[q] = loc[q]
    BY <2>1, TypedFinish DEF Working
  <2> QED BY <2>1, <2>2, <2>3, <2>4, RotationKept
<1>4. ASSUME NEW r \in Req, CommitLog(r) \/ CommitSkip(r) PROVE Rotation'
  <2>1. PICK p \in Lead : p = loc[r].lead
    BY <1>4 DEF CommitLog, CommitSkip, Placed, Working
  <2>2. lead[p] \in LeadRow
    BY DEF TypeOK
  <2>3. PICK now \in loc[r].began .. clock :
          \E row : /\ Touched(r, now) /\ Finish(r) /\ lead' = [lead EXCEPT ![p] = row]
                   /\ row.touched = now /\ row.owner = lead[p].owner
                   /\ row.stage \in {lead[p].stage, "converted"}
    <3>1. CASE CommitSkip(r)
      <4> DEFINE new(now) == [lead[p] EXCEPT !.touched = now]
      <4>1. PICK now \in loc[r].began .. clock :
              Touched(r, now) /\ lead' = [lead EXCEPT ![p] = new(now)]
        BY <2>1, <3>1 DEF CommitSkip
      <4>2. /\ new(now).touched = now /\ new(now).owner = lead[p].owner
            /\ new(now).stage = lead[p].stage
        BY <2>2 DEF LeadRow
      <4> HIDE DEF new
      <4> QED BY <3>1, <4>1, <4>2 DEF CommitSkip
    <3>2. CASE CommitLog(r)
      <4> DEFINE new(now) == [lead[p] EXCEPT
                                !.touched = now,
                                !.rnr = Written(@, loc[r].row.rnr, Counted(r)),
                                !.stage = IF Converts(r) THEN "converted" ELSE @,
                                !.stamped = @ \/ Converts(r)]
      <4>1. PICK now \in loc[r].began .. clock :
              Touched(r, now) /\ lead' = [lead EXCEPT ![p] = new(now)]
        BY <2>1, <3>2 DEF CommitLog
      <4>2. /\ new(now).touched = now /\ new(now).owner = lead[p].owner
            /\ new(now).stage \in {lead[p].stage, "converted"}
        BY <2>2 DEF LeadRow
      <4> HIDE DEF new
      <4> QED BY <3>2, <4>1, <4>2 DEF CommitLog
    <3> QED BY <1>4, <3>1, <3>2
  <2>4. now \in Nat
    BY <2>3, TypedTouched DEF Seconds
  <2>5. /\ lead'[p].touched = now /\ lead'[p].owner = lead[p].owner
        /\ lead'[p].stage \in {lead[p].stage, "converted"}
        /\ \A q \in Lead \ {p} : lead'[q] = lead[q]
    BY <2>3 DEF TypeOK
  <2>6. lead'[p].stage \notin ExcludedStages => lead[p].stage \notin ExcludedStages
    BY <2>5 DEF ExcludedStages
  <2>7. \A i \in LogId : log[i].state = "logged" => log'[i] = log[i]
    BY <1>4 DEF CommitLog, CommitSkip, Placed, TypeOK
  <2>8. ~odd /\ r \in Active
    BY <1>4, <2>3 DEF Touched, CommitLog, CommitSkip, Active, Working
  <2> QED BY <2>1, <2>3, <2>4, <2>5, <2>6, <2>7, <2>8, OwesStays, TouchRotates
<1>5. ASSUME NEW r \in Req, CommitStage(r) \/ CheckLock(r) \/ CommitOwner(r) PROVE Rotation'
  <2>1. pc[r] \in {"stage", "check", "assign"} /\ r \in Active
    BY <1>5 DEF CommitStage, CheckLock, CommitOwner, Active, Working
  <2>2. ~odd
    BY <1>5 DEF CommitStage, CheckLock, CommitOwner, Touched, history
  <2> QED BY <2>1, <2>2 DEF Rotation
<1>6. CASE Tick \/ UNCHANGED vars
  <2>1. /\ lead' = lead /\ turns' = turns /\ odd' = odd /\ log' = log /\ pc' = pc
        /\ loc' = loc
    BY <1>6 DEF Tick, vars, rows, history
  <2> QED BY <2>1, RotationKept
<1> QED BY <1>1, <1>2, <1>3, <1>4, <1>5, <1>6 DEF Next, Step, Quiet

\* A caller who works through Next alone gets round the leads: of those that owe no
\* call the head of the queue has had the fewest turns.
THEOREM FairRotationHolds == Spec => []FairRotation
<1>1. Init => (~odd => Rotation)
  <2> SUFFICES ASSUME Init PROVE Rotation
    OBVIOUS
  <2>1. Active = {}
    BY DEF Init, Active, Working
  <2>2. \A p \in Lead : turns[p] = 0 /\ lead[p].touched = None
    BY DEF Init, Fresh
  <2>3. \A c \in Caller : Eligible(c) \subseteq Lead
    BY DEF Eligible
  <2>4. \A p, q \in Lead : Close(p, q)
    BY <2>2 DEF Close
  <2> QED BY <2>1, <2>2, <2>3, <2>4 DEF Rotation
<1>2. TypeOK /\ (~odd => Rotation) => FairRotation
  BY RotationFair
<1> QED BY <1>1, <1>2, RotationNext, TypeCorrect, PTL DEF Spec
=============================================================================
