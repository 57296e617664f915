----------------------------- MODULE WorkerProofs -----------------------------
(***************************************************************************)
(* The worker's jobs beside the requests, for every set of leads: the      *)
(* hourly recalculation of the heat, the daily snapshot of the funnel and  *)
(* the daily synchronisation with HH-BE.                                   *)
(***************************************************************************)
EXTENDS BackOfficeProofs

\* Every request is somewhere, so that its kind tells where.
AllLabels == OutreachLabels \cup IntakeLabels \cup HeatLabels \cup FunnelLabels
                 \cup CampaignLabels \cup ActivationLabels
Somewhere == \A r \in Req : pc[r] \in AllLabels \cup Over

\* No step sends a request anywhere else.
LEMMA SomewhereKept ==
  ASSUME Desk, Somewhere, [Next]_vars
  PROVE  Somewhere'
<1>1. ASSUME NEW r \in Req, NEW labels, labels \subseteq AllLabels, Acts(r, labels)
      PROVE  Somewhere'
  BY <1>1 DEF Acts, Somewhere
<1> USE DEF AllLabels, Desk
<1>2. ASSUME NEW r \in Req, OutreachNext(r) PROVE Somewhere'
  BY <1>1, <1>2, OutreachActs
<1>3. ASSUME NEW r \in Req, IntakeNext(r) PROVE Somewhere'
  BY <1>1, <1>3, IntakeActs
<1>4. ASSUME NEW r \in Req, HeatNext(r) PROVE Somewhere'
  BY <1>1, <1>4, HeatActs
<1>5. ASSUME NEW r \in Req, FunnelNext(r) PROVE Somewhere'
  BY <1>1, <1>5, FunnelActs
<1>6. ASSUME NEW r \in Req, CampaignsNext(r) PROVE Somewhere'
  BY <1>1, <1>6, CampaignsActs
<1>7. ASSUME NEW r \in Req, ActivationNext(r) PROVE Somewhere'
  BY <1>1, <1>7, ActivationActs
<1>8. ASSUME NEW r \in Req, Abort(r) PROVE Somewhere'
  BY <1>8 DEF Abort, Placed, Over, Somewhere
<1>9. CASE UNCHANGED desk
  BY <1>9 DEF desk, Somewhere
<1> HIDE DEF AllLabels, Desk
<1>10. ASSUME NEW r \in Req, Step(r) PROVE Somewhere'
  <2>1. \/ OutreachNext(r) \/ IntakeNext(r) \/ HeatNext(r) \/ FunnelNext(r)
        \/ CampaignsNext(r) \/ ActivationNext(r) \/ Abort(r)
    BY <1>10, Zenon DEF Step
  <2> QED BY <1>2, <1>3, <1>4, <1>5, <1>6, <1>7, <1>8, <2>1
<1>11. CASE Grow
  <2>1. UNCHANGED desk
    BY <1>11, Zenon DEF Grow
  <2> QED BY <1>9, <2>1
<1>12. CASE UNCHANGED vars
  BY <1>9, <1>12 DEF vars
<1> QED BY <1>10, <1>11, <1>12 DEF Next, Quiet

\* The kinds of the heat and of the synchronisation.
LEMMA KindsTell ==
  ASSUME Desk, Somewhere, NEW r \in Active
  PROVE  /\ loc[r].op \in Heaters => pc[r] \in HeatLabels \ {"recalc"}
         /\ loc[r].op = "recalc" => pc[r] = "recalc"
         /\ loc[r].op = "sync" => pc[r] \in {"poll", "store", "alert"}
         /\ loc[r].op = "told" => pc[r] = "job_event"
<1>1. pc[r] \in AllLabels /\ r \in Req
  BY DEF Somewhere, Active
<1>2. CASE pc[r] \in OutreachLabels
  BY <1>1, <1>2 DEF OutreachLabels, Desk, OutreachKinds, OutreachKind, Heaters
<1>3. CASE pc[r] \in IntakeLabels
  BY <1>1, <1>3 DEF IntakeLabels, Desk, IntakeKinds, IntakeKind, Heaters
<1>4. CASE pc[r] \in HeatLabels
  BY <1>1, <1>4 DEF HeatLabels, Desk, HeatKinds, HeatKind, Heaters
<1>5. CASE pc[r] \in FunnelLabels \cup CampaignLabels
  BY <1>1, <1>5 DEF FunnelLabels, CampaignLabels, Desk, FunnelKinds, FunnelKind,
     CampaignKinds, CampaignKind, Heaters, FunnelLabels
<1>6. CASE pc[r] \in ActivationLabels
  BY <1>1, <1>6 DEF ActivationLabels, Desk, ActivationKinds, ActivationKind, Heaters
<1> QED BY <1>1, <1>2, <1>3, <1>4, <1>5, <1>6 DEF AllLabels

-----------------------------------------------------------------------------
(***************************************************************************)
(* The heat.  While nobody heats a lead, its score and level are those of  *)
(* its events, or the recalculation under way holds all there is.          *)
(***************************************************************************)
HeatRow(row) ==
    /\ DOMAIN row = {"score", "level", "stage", "booked"} /\ row.score \in Nat
HeatSession(at, l) ==
    /\ at = "event" => l.lead \in Warm \cup Gone /\ l.kind \in DOMAIN Points
    /\ at \in {"reply", "sort"} => l.lead \in Warm \cup Gone /\ l.kind \in Classes
    /\ at \in {"event", "reply", "sort"} => {"op", "lead", "kind"} \subseteq DOMAIN l
    /\ at = "sort" => l.id \in Reply
    /\ at \in {"heat", "demo", "unsubscribe"} => l.lead \in Warm /\ HeatRow(l.row)
    /\ at \in {"heat", "reply_event"} => l.lead \in Warm /\ l.kind \in DOMAIN Points
    /\ at = "recalc" => \A p \in Warm : l.points[p] \in Nat
HeatTables ==
    /\ DOMAIN heat = Warm /\ \A p \in Warm : HeatRow(heat[p])
    /\ DOMAIN points = Warm \cup Gone /\ \A p \in Warm \cup Gone : points[p] \in Nat
    /\ DOMAIN reply = Reply /\ \A i \in Reply : reply[i].lead \in Warm \cup Gone \cup {None}
HeatTyped == HeatTables /\ \A r \in Req : HeatSession(pc[r], loc[r])

\* at is where a request is, l what its session holds, when nobody else heats.
HeatAt(at, l, table, sums) ==
    /\ at \in {"heat", "demo", "unsubscribe"} => l.row = table[l.lead]
    /\ at = "heat" => sums[l.lead] = IF l.op = "event" THEN table[l.lead].score + Points[l.kind]
                                     ELSE table[l.lead].score
    /\ at = "reply_event" => table[l.lead].score = sums[l.lead] + Points[l.kind]
    /\ at = "recalc" => l.heat = table /\ l.points = sums
Even(p, table, sums) == table[p].score = sums[p]
Alone == \A a, b \in Heaters \cup {"recalc"} : ~Met(a, b) /\ a \notin died
HeatSerial ==
    Alone =>
        /\ \A p \in Warm : heat[p].level = Bucket(heat[p].score)
        /\ \A r \in Req : HeatAt(pc[r], loc[r], heat, points)
        /\ \A p \in Warm :
              \/ \E r \in Req : pc[r] \in {"heat", "reply_event"} /\ loc[r].lead = p
              \/ Even(p, heat, points)

\* What the history of the recalculation says.
HeatCalm ==
    /\ calm \in {"no", "pending", "yes"}
    /\ (\E r \in Req : pc[r] \in HeatLabels \ {"recalc"}) => calm = "no"
    /\ \A q, r \in Req : pc[q] = "recalc" /\ pc[r] = "recalc" => q = r
    /\ calm = "pending" =>
          \A r \in Req : pc[r] = "recalc" => loc[r].heat = heat /\ loc[r].points = points
    /\ calm = "yes" => /\ \A r \in Req : pc[r] # "recalc"
                       /\ \A p \in Warm : heat[p].score = points[p]
                                          /\ heat[p].level = Bucket(points[p])

HeatInv == HeatTyped /\ HeatSerial /\ HeatCalm

\* Points are numbers, and those of the classes of replies too.
LEMMA PointsNat ==
    /\ \A k \in DOMAIN Points : Points[k] \in Nat
    /\ Classes \subseteq DOMAIN Points /\ Points["negative"] = 0
    /\ DOMAIN Points = {"open", "click", "visit", "positive", "negative", "demo",
                        "unsubscribed", "sent"}
BY DEF Points, Classes

\* A request that heats and met nobody else who does is the only one.
LEMMA HeatsAlone ==
  ASSUME Desk, NEW r \in Req, Acts(r, HeatLabels), Alone',
         pc[r] \in HeatLabels \/ pc'[r] \in HeatLabels, HeatKinds'
  PROVE  /\ \A q \in Req \ {r} : pc[q] \notin HeatLabels /\ pc'[q] \notin HeatLabels
         /\ Alone
<1> DEFINE kinds == Heaters \cup {"recalc"}
<1>1. Alone
  BY DEF Alone, Met, Acts
<1>2. ASSUME NEW q \in Req, pc[q] \in HeatLabels PROVE q \in Active /\ loc[q].op \in kinds
  BY <1>2 DEF Desk, HeatKinds, HeatKind, HeatLabels, Active, Over, Heaters
<1>3. pc'[r] \in HeatLabels => loc'[r].op \in kinds
  BY DEF HeatKinds, HeatKind, HeatLabels, Heaters
<1>4. ASSUME NEW q \in Req \ {r}, pc[q] \in HeatLabels PROVE FALSE
  <2>1. CASE pc[r] \in HeatLabels
    BY <1>1, <1>2, <1>4, <2>1 DEF Desk, Noticed, Alone
  <2>2. CASE pc[r] \notin HeatLabels
    <3>1. pc[r] = "idle" /\ pc'[r] \in HeatLabels
      BY <2>2 DEF Acts
    <3>2. {loc'[r].op, loc[q].op} \in met'
      BY <1>2, <1>4, <2>2, <3>1, LabelsApart DEF Acts
    <3> QED BY <1>2, <1>3, <1>4, <3>1, <3>2 DEF Alone, Met
  <2> QED BY <2>1, <2>2
<1> QED BY <1>1, <1>4 DEF Acts

\* So what holds of it is all there is to show.
LEMMA HeatAloneKept ==
  ASSUME Desk, HeatSerial, NEW r \in Req, Acts(r, HeatLabels), HeatKinds',
         pc[r] \in HeatLabels \/ pc'[r] \in HeatLabels,
         /\ Alone
         /\ \A p \in Warm : heat[p].level = Bucket(heat[p].score)
         /\ HeatAt(pc[r], loc[r], heat, points)
         /\ \A p \in Warm : \/ pc[r] \in {"heat", "reply_event"} /\ loc[r].lead = p
                            \/ Even(p, heat, points)
         => /\ \A p \in Warm : heat'[p].level = Bucket(heat'[p].score)
            /\ HeatAt(pc'[r], loc'[r], heat', points')
            /\ \A p \in Warm : \/ pc'[r] \in {"heat", "reply_event"} /\ loc'[r].lead = p
                               \/ Even(p, heat', points')
  PROVE  HeatSerial'
<1> SUFFICES ASSUME Alone'
             PROVE  /\ \A p \in Warm : heat'[p].level = Bucket(heat'[p].score)
                    /\ \A q \in Req : HeatAt(pc'[q], loc'[q], heat', points')
                    /\ \A p \in Warm :
                          \/ \E q \in Req : pc'[q] \in {"heat", "reply_event"} /\ loc'[q].lead = p
                          \/ Even(p, heat', points')
  BY DEF HeatSerial, Even
<1>1. Alone /\ \A q \in Req \ {r} : pc[q] \notin HeatLabels /\ pc'[q] \notin HeatLabels
  BY HeatsAlone
<1>2. {"heat", "demo", "unsubscribe", "reply_event", "recalc"} \subseteq HeatLabels
  BY DEF HeatLabels
<1>3. \A p \in Warm : \/ pc[r] \in {"heat", "reply_event"} /\ loc[r].lead = p
                      \/ Even(p, heat, points)
  BY <1>1, <1>2 DEF HeatSerial
<1>4. \A q \in Req \ {r} : HeatAt(pc'[q], loc'[q], heat', points')
  BY <1>1, <1>2 DEF HeatAt
<1> QED BY <1>1, <1>3, <1>4 DEF HeatSerial

\* The types of the other sessions stay, and a step that heats leaves the day unsettled.
LEMMA HeatTypedKept ==
  ASSUME HeatTyped, NEW r \in Req, Acts(r, HeatLabels), HeatTables',
         HeatSession(pc'[r], loc'[r])
  PROVE  HeatTyped'
BY DEF HeatTyped, HeatSession, Acts

\* A step that ends the calm of the board, or takes place in it, keeps what
\* calm means.
LEMMA HeatStirs ==
  ASSUME HeatCalm, NEW r \in Req, Acts(r, HeatLabels), pc'[r] # "recalc",
         \/ calm' = "no"
         \/ calm' = calm /\ pc[r] \in HeatLabels \ {"recalc"}
  PROVE  HeatCalm'
<1>1. calm' = "no"
  BY DEF HeatCalm
<1> QED BY <1>1 DEF HeatCalm, Acts

\* A lead's heat is written column by column, and as a whole by who loaded it last.
LEMMA HeatSaved ==
  ASSUME HeatTyped, NEW r \in Req, pc[r] \in {"heat", "demo", "unsubscribe"},
         NEW new, HeatRow(new), SaveHeat(r, new)
  PROVE  /\ DOMAIN heat' = Warm /\ \A p \in Warm : HeatRow(heat'[p])
         /\ \A p \in Warm \ {loc[r].lead} : heat'[p] = heat[p]
         /\ \A f \in {"score", "level", "stage"} :
               heat'[loc[r].lead][f] = Written(heat[loc[r].lead][f], loc[r].row[f], new[f])
<1> DEFINE p == loc[r].lead
           old == loc[r].row
<1>1. p \in Warm /\ HeatRow(old) /\ HeatRow(heat[p])
  BY DEF HeatTyped, HeatSession, HeatTables
<1>2. /\ DOMAIN heat' = Warm /\ \A q \in Warm \ {p} : heat'[q] = heat[q]
      /\ heat'[p] = WrittenRow(heat[p], old, new)
  BY <1>1 DEF SaveHeat, HeatTyped, HeatTables
<1> HIDE DEF p, old
<1>3. /\ DOMAIN heat'[p] = {"score", "level", "stage", "booked"}
      /\ \A f \in {"score", "level", "stage", "booked"} :
            heat'[p][f] = Written(heat[p][f], old[f], new[f])
  BY <1>1, <1>2 DEF WrittenRow, HeatRow
<1>4. HeatRow(heat'[p])
  BY <1>1, <1>3 DEF HeatRow, Written
<1>5. \A q \in Warm : HeatRow(heat'[q])
  BY <1>2, <1>4 DEF HeatTyped, HeatTables
<1> QED BY <1>2, <1>3, <1>5 DEF p, old

\* What a session holds beside the row that it loads.
LEMMA WithRow ==
  ASSUME NEW l, {"op", "lead", "kind"} \subseteq DOMAIN l, NEW row
  PROVE  LET new == With(l, [row |-> row])
         IN  new.row = row /\ new.op = l.op /\ new.lead = l.lead /\ new.kind = l.kind
<1> DEFINE set == [row |-> row]
           new == With(l, set)
<1>1. DOMAIN set = {"row"} /\ set.row = row
  OBVIOUS
<1> HIDE DEF set
<1>2. new = [f \in DOMAIN l \cup {"row"} |-> IF f \in {"row"} THEN set[f] ELSE l[f]]
  BY <1>1 DEF With
<1> HIDE DEF new
<1>3. new.row = row /\ new.op = l.op /\ new.lead = l.lead /\ new.kind = l.kind
  BY <1>1, <1>2
<1> QED BY <1>3 DEF new, set

\* A request that heats begins.
LEMMA HeatBegins ==
  ASSUME Desk, HeatInv, NEW r \in Req, Acts(r, HeatLabels), HeatKinds',
         LogEvent(r) \/ RecordReply(r) \/ Reclassify(r)
  PROVE  HeatInv'
<1>1. /\ pc'[r] \in {"event", "reply", "sort"} /\ calm' = "no"
      /\ UNCHANGED <<heat, points, reply>> /\ HeatSession(pc'[r], loc'[r]) /\ pc[r] = "idle"
  <2>1. CASE LogEvent(r)
    <3>1. PICK p \in Warm \cup Gone, kind \in EventKinds :
            HeatRequest(r, "event", [op |-> "event", lead |-> p, kind |-> kind])
      BY <2>1 DEF LogEvent
    <3>2. /\ pc[r] = "idle" /\ pc'[r] = "event" /\ loc'[r] = [op |-> "event", lead |-> p, kind |-> kind]
          /\ loc'[r].lead = p /\ loc'[r].kind = kind
      BY <3>1 DEF HeatRequest, Launch, Desk, Placed
    <3>3. calm' = "no" /\ UNCHANGED <<heat, points, reply>>
      BY <3>1 DEF HeatRequest
    <3> QED BY <3>2, <3>3, HeatAssumption DEF HeatSession
  <2>2. CASE RecordReply(r)
    <3>1. PICK p \in Warm \cup Gone, class \in Classes :
            HeatRequest(r, "reply", [op |-> "reply", lead |-> p, kind |-> class])
      BY <2>2 DEF RecordReply
    <3>2. /\ pc[r] = "idle" /\ pc'[r] = "reply" /\ loc'[r] = [op |-> "reply", lead |-> p, kind |-> class]
          /\ loc'[r].lead = p /\ loc'[r].kind = class
      BY <3>1 DEF HeatRequest, Launch, Desk, Placed
    <3>3. calm' = "no" /\ UNCHANGED <<heat, points, reply>>
      BY <3>1 DEF HeatRequest
    <3> QED BY <3>2, <3>3 DEF HeatSession
  <2>3. CASE Reclassify(r)
    <3>1. PICK i \in Reply, class \in Classes :
            /\ reply[i].lead # None
            /\ HeatRequest(r, "sort",
                           [op |-> "sort", lead |-> reply[i].lead, kind |-> class, id |-> i])
      BY <2>3 DEF Reclassify
    <3>2. /\ pc[r] = "idle" /\ pc'[r] = "sort" /\ DOMAIN loc'[r] = {"op", "lead", "kind", "id"}
          /\ loc'[r].lead = reply[i].lead
          /\ loc'[r].kind = class /\ loc'[r].id = i
      BY <3>1 DEF HeatRequest, Launch, Desk, Placed
    <3>3. calm' = "no" /\ UNCHANGED <<heat, points, reply>>
      BY <3>1 DEF HeatRequest
    <3>4. reply[i].lead \in Warm \cup Gone
      BY <3>1 DEF HeatInv, HeatTyped, HeatTables
    <3> QED BY <3>2, <3>3, <3>4 DEF HeatSession
  <2> QED BY <2>1, <2>2, <2>3
<1>2. HeatTyped'
  BY <1>1, HeatTypedKept DEF HeatInv, HeatTyped, HeatTables, HeatRow
<1>3. HeatCalm'
  BY <1>1, HeatStirs DEF HeatInv
<1>4. HeatSerial'
  BY <1>1, HeatAloneKept DEF HeatInv, HeatAt, HeatLabels, Even
<1> QED BY <1>2, <1>3, <1>4 DEF HeatInv

\* The event's commit.
LEMMA HeatLogged ==
  ASSUME Desk, HeatInv, NEW r \in Req, Acts(r, HeatLabels), HeatKinds', CommitEvent(r)
  PROVE  HeatInv'
<1> DEFINE p == loc[r].lead
           kind == loc[r].kind
           effect == Effect(p, kind)
<1>1. /\ pc[r] = "event" /\ points' = [points EXCEPT ![p] = @ + Points[kind]]
      /\ UNCHANGED <<heat, reply, calm>>
      /\ \/ effect = "none" /\ pc'[r] \in Over
         \/ effect # "none" /\ pc'[r] = effect /\ loc'[r] = With(loc[r], [row |-> heat[p]])
  BY DEF CommitEvent, Finish, Goto, Desk, Placed, Over
<1>2. p \in Warm \cup Gone /\ kind \in DOMAIN Points /\ loc[r].op = "event"
  BY <1>1 DEF HeatInv, HeatTyped, HeatSession, Desk, HeatKinds, HeatKind
<1>3. /\ effect \in {"none", "heat", "demo", "unsubscribe"}
      /\ effect # "none" => p \in Warm
      /\ effect \notin {"none", "heat"} => Points[kind] = 0
      /\ effect = "none" => p \notin Warm \/ Points[kind] = 0
  BY <1>2, PointsNat, HeatAssumption DEF Effect
<1>4. \A q \in Warm \cup Gone : points'[q] = IF q = p THEN points[q] + Points[kind] ELSE points[q]
  BY <1>1, <1>2 DEF HeatInv, HeatTyped, HeatTables
<1>5. effect # "none" => /\ loc'[r].row = heat[p] /\ loc'[r].op = "event"
                         /\ loc'[r].lead = p /\ loc'[r].kind = kind
  <2>1. {"op", "lead", "kind"} \subseteq DOMAIN loc[r]
    BY <1>1 DEF HeatInv, HeatTyped, HeatSession
  <2> QED BY <1>1, <1>2, <2>1, WithRow
<1> HIDE DEF effect, p, kind
<1>6. HeatTables'
  <2>1. DOMAIN points' = Warm \cup Gone
    BY <1>1 DEF HeatInv, HeatTyped, HeatTables
  <2>2. \A q \in Warm \cup Gone : points'[q] \in Nat
    BY <1>2, <1>4, PointsNat DEF HeatInv, HeatTyped, HeatTables
  <2> QED BY <1>1, <2>1, <2>2 DEF HeatInv, HeatTyped, HeatTables, HeatRow
<1>7. HeatSession(pc'[r], loc'[r])
  BY <1>1, <1>2, <1>3, <1>5 DEF HeatSession, HeatInv, HeatTyped, HeatTables, Over
<1>8. HeatTyped'
  BY <1>6, <1>7, HeatTypedKept DEF HeatInv
<1>9. HeatCalm'
  BY <1>1, <1>3, HeatStirs DEF HeatInv, HeatLabels, Over
<1>10. HeatSerial'
  <2>1. ASSUME \A q \in Warm : Even(q, heat, points)
        PROVE  /\ HeatAt(pc'[r], loc'[r], heat', points')
               /\ \A q \in Warm : \/ pc'[r] \in {"heat", "reply_event"} /\ loc'[r].lead = q
                                  \/ Even(q, heat', points')
    <3>1. \A q \in Warm : heat'[q].score = points[q] /\ points[q] \in Nat
      BY <1>1, <2>1 DEF Even, HeatInv, HeatTyped, HeatTables
    <3>2. CASE effect = "none"
      BY <1>1, <1>3, <1>4, <3>1, <3>2 DEF HeatAt, Even, Over
    <3>3. CASE effect # "none"
      BY <1>1, <1>3, <1>4, <1>5, <3>1, <3>3 DEF HeatAt, Even
    <3> QED BY <3>2, <3>3
  <2> QED BY <1>1, <2>1, HeatAloneKept DEF HeatInv, HeatLabels
<1> QED BY <1>8, <1>9, <1>10 DEF HeatInv

\* The lead's commit behind an event or a reply.
LEMMA HeatApplied ==
  ASSUME Desk, HeatInv, NEW r \in Req, Acts(r, HeatLabels), HeatKinds',
         ApplyHeat(r) \/ ApplyEvent(r)
  PROVE  HeatInv'
<1> DEFINE p == loc[r].lead
           kind == loc[r].kind
           old == loc[r].row
<1>1. /\ pc[r] \in {"heat", "demo", "unsubscribe"} /\ UNCHANGED <<points, reply, calm>>
      /\ p \in Warm /\ HeatRow(old) /\ HeatRow(heat[p])
  BY DEF ApplyHeat, ApplyEvent, HeatInv, HeatTyped, HeatSession, HeatTables
<1>2. PICK new :
        /\ HeatRow(new) /\ SaveHeat(r, new)
        /\ IF pc[r] = "heat"
           THEN new.score = old.score + Points[kind] /\ new.level = Bucket(new.score)
           ELSE new.score = old.score /\ new.level = old.level
        /\ \/ pc'[r] \in Over /\ (pc[r] = "heat" => loc[r].op = "event")
           \/ pc[r] = "heat" /\ loc[r].op # "event" /\ pc'[r] = "reply_event" /\ loc'[r] = loc[r]
  <2>1. CASE ApplyHeat(r)
    <3> DEFINE score == old.score + Points[kind]
               row == [old EXCEPT !.score = score, !.level = Bucket(score)]
    <3>1. /\ pc[r] = "heat" /\ SaveHeat(r, row)
          /\ IF loc[r].op = "event" THEN pc'[r] \in Over
             ELSE pc'[r] = "reply_event" /\ loc'[r] = loc[r]
      BY <2>1 DEF ApplyHeat, Finish, Goto, Desk, Placed, Over
    <3>2. score \in Nat
      BY <1>1, <3>1, PointsNat DEF HeatInv, HeatTyped, HeatSession, HeatRow
    <3> HIDE DEF score
    <3>3. HeatRow(row) /\ row.score = score /\ row.level = Bucket(score)
      BY <1>1, <3>2 DEF HeatRow
    <3> HIDE DEF row
    <3>4. row.score = old.score + Points[kind] /\ row.level = Bucket(row.score)
      BY <3>3 DEF score
    <3> QED BY <3>1, <3>3, <3>4
  <2>2. CASE ApplyEvent(r)
    <3> DEFINE booked == [old EXCEPT !.booked = TRUE]
               left == [old EXCEPT !.stage = "unsubscribed"]
    <3>1. /\ \/ pc[r] = "demo" /\ SaveHeat(r, booked)
             \/ pc[r] = "unsubscribe" /\ SaveHeat(r, left)
          /\ pc'[r] \in Over
      BY <2>2 DEF ApplyEvent, Finish, Goto, Desk, Placed, Over
    <3>2. /\ HeatRow(booked) /\ booked.score = old.score /\ booked.level = old.level
          /\ HeatRow(left) /\ left.score = old.score /\ left.level = old.level
      BY <1>1 DEF HeatRow
    <3> HIDE DEF booked, left
    <3> QED BY <3>1, <3>2
  <2> QED BY <2>1, <2>2
<1>3. /\ DOMAIN heat' = Warm /\ \A q \in Warm : HeatRow(heat'[q])
      /\ \A q \in Warm \ {p} : heat'[q] = heat[q]
      /\ heat'[p].score = Written(heat[p].score, old.score, new.score)
      /\ heat'[p].level = Written(heat[p].level, old.level, new.level)
  BY <1>1, <1>2, HeatSaved DEF HeatInv
<1>4. HeatTables'
  BY <1>1, <1>3 DEF HeatInv, HeatTyped, HeatTables, HeatRow
<1>5. HeatSession(pc'[r], loc'[r])
  <2>1. pc[r] = "heat" => p \in Warm /\ kind \in DOMAIN Points
    BY DEF HeatInv, HeatTyped, HeatSession
  <2> QED BY <1>2, <2>1 DEF HeatSession, Over
<1>6. HeatTyped'
  BY <1>4, <1>5, HeatTypedKept DEF HeatInv
<1>7. HeatCalm'
  BY <1>1, <1>2, HeatStirs DEF HeatInv, HeatLabels, Over
<1>8. HeatSerial'
  <2> SUFFICES ASSUME \A q \in Warm : heat[q].level = Bucket(heat[q].score),
                      HeatAt(pc[r], loc[r], heat, points),
                      \A q \in Warm : \/ pc[r] \in {"heat", "reply_event"} /\ loc[r].lead = q
                                      \/ Even(q, heat, points)
               PROVE  /\ \A q \in Warm : heat'[q].level = Bucket(heat'[q].score)
                      /\ HeatAt(pc'[r], loc'[r], heat', points')
                      /\ \A q \in Warm : \/ pc'[r] \in {"heat", "reply_event"} /\ loc'[r].lead = q
                                         \/ Even(q, heat', points')
    BY <1>1, HeatAloneKept DEF HeatInv, HeatLabels
  <2>1. old = heat[p]
    BY <1>1 DEF HeatAt
  <2>2. heat'[p].score = new.score /\ heat'[p].level = new.level
    BY <1>3, <2>1 DEF Written
  <2>3. \A q \in Warm \ {p} : Even(q, heat', points')
    BY <1>1, <1>3 DEF Even
  <2>4. CASE pc[r] = "heat"
    <3>1. new.score = heat[p].score + Points[kind] /\ new.level = Bucket(new.score)
      BY <1>2, <2>1, <2>4
    <3>2. loc[r].op = "event" => pc'[r] \in Over /\ points[p] = new.score
      BY <1>2, <2>4, <3>1 DEF HeatAt
    <3>3. loc[r].op # "event" =>
             /\ pc'[r] = "reply_event" /\ loc'[r].lead = p /\ loc'[r].kind = kind
             /\ new.score = points[p] + Points[kind]
      BY <1>2, <2>4, <3>1 DEF HeatAt, Over
    <3>4. HeatAt(pc'[r], loc'[r], heat', points')
      BY <1>1, <2>2, <3>2, <3>3 DEF HeatAt, Over
    <3>5. \/ pc'[r] \in {"heat", "reply_event"} /\ loc'[r].lead = p
          \/ Even(p, heat', points')
      BY <1>1, <2>2, <3>2, <3>3 DEF Even
    <3> QED BY <1>3, <2>2, <2>3, <3>1, <3>4, <3>5
  <2>5. CASE pc[r] # "heat"
    <3>1. new.score = heat[p].score /\ new.level = heat[p].level /\ pc'[r] \in Over
      BY <1>2, <2>1, <2>5
    <3>2. Even(p, heat', points')
      BY <1>1, <2>2, <2>5, <3>1 DEF Even
    <3>3. HeatAt(pc'[r], loc'[r], heat', points')
      BY <3>1 DEF HeatAt, Over
    <3> QED BY <1>1, <1>3, <2>2, <2>3, <3>1, <3>2, <3>3
  <2> QED BY <2>4, <2>5
<1> QED BY <1>6, <1>7, <1>8 DEF HeatInv

\* The reply's commit.
LEMMA HeatReplied ==
  ASSUME Desk, HeatInv, NEW r \in Req, Acts(r, HeatLabels), HeatKinds', CommitReply(r)
  PROVE  HeatInv'
<1> DEFINE p == loc[r].lead
           class == loc[r].kind
           unused == {n \in Reply : reply[n].lead = None}
           i == IF loc[r].op = "sort" THEN loc[r].id ELSE Min(unused)
<1>1. /\ pc[r] \in {"reply", "sort"} /\ (pc[r] = "reply" => unused # {})
      /\ reply' = [reply EXCEPT ![i] = [lead |-> p, class |-> class]]
      /\ UNCHANGED <<heat, points, calm>>
      /\ \/ p \in Gone /\ pc'[r] \in Over
         \/ /\ p \in Warm /\ class = "positive" /\ pc'[r] = "heat"
            /\ loc'[r] = With(loc[r], [row |-> heat[p]])
         \/ p \in Warm /\ class = "negative" /\ pc'[r] = "reply_event" /\ loc'[r] = loc[r]
  BY DEF CommitReply, Finish, Goto, Desk, Placed, Over
<1>2. /\ p \in Warm \cup Gone /\ class \in Classes /\ loc[r].op = pc[r]
      /\ {"op", "lead", "kind"} \subseteq DOMAIN loc[r]
  BY <1>1 DEF HeatInv, HeatTyped, HeatSession, Desk, HeatKinds, HeatKind
<1>3. i \in Reply
  <2>1. CASE pc[r] = "sort"
    BY <1>2, <2>1 DEF HeatInv, HeatTyped, HeatSession
  <2>2. CASE pc[r] = "reply"
    <3>1. unused \subseteq Nat /\ unused # {}
      BY <1>1, <2>2, HeatAssumption
    <3>2. Min(unused) \in unused
      BY <3>1, Smallest
    <3> QED BY <1>2, <2>2, <3>2
  <2> QED BY <1>1, <2>1, <2>2
<1> HIDE DEF i, unused
<1>4. pc'[r] = "heat" => /\ loc'[r].row = heat[p] /\ loc'[r].op = pc[r]
                         /\ loc'[r].lead = p /\ loc'[r].kind = class
  BY <1>1, <1>2, WithRow DEF Over
<1> HIDE DEF p, class
<1>5. HeatTables'
  <2>1. DOMAIN reply' = Reply
    BY <1>1, <1>3 DEF HeatInv, HeatTyped, HeatTables
  <2>2. \A n \in Reply : reply'[n].lead \in Warm \cup Gone \cup {None}
    <3>1. \A n \in Reply \ {i} : reply'[n] = reply[n]
      BY <1>1, <1>3 DEF HeatInv, HeatTyped, HeatTables
    <3>2. reply'[i].lead = p
      BY <1>1, <1>3 DEF HeatInv, HeatTyped, HeatTables
    <3> QED BY <1>2, <3>1, <3>2 DEF HeatInv, HeatTyped, HeatTables
  <2> QED BY <1>1, <2>1, <2>2 DEF HeatInv, HeatTyped, HeatTables, HeatRow
<1>6. HeatSession(pc'[r], loc'[r])
  <2>1. CASE pc'[r] = "heat"
    BY <1>1, <1>2, <1>4, <2>1, PointsNat, HeatAssumption DEF HeatSession, HeatInv, HeatTyped,
       HeatTables, Over
  <2>2. CASE pc'[r] = "reply_event"
    BY <1>1, <1>2, <2>2, PointsNat DEF HeatSession, p, class, Over
  <2>3. CASE pc'[r] \in Over
    BY <2>3 DEF HeatSession, Over
  <2> QED BY <1>1, <2>1, <2>2, <2>3
<1>7. HeatTyped'
  BY <1>5, <1>6, HeatTypedKept DEF HeatInv
<1>8. HeatCalm'
  BY <1>1, HeatStirs DEF HeatInv, HeatLabels, Over
<1>9. HeatSerial'
  <2>1. ASSUME \A q \in Warm : Even(q, heat, points)
        PROVE  /\ HeatAt(pc'[r], loc'[r], heat', points')
               /\ \A q \in Warm : Even(q, heat', points')
    <3>1. \A q \in Warm : Even(q, heat', points')
      BY <1>1, <2>1 DEF Even
    <3>2. CASE pc'[r] = "heat"
      BY <1>1, <1>4, <2>1, <3>2 DEF HeatAt, Even, Over
    <3>3. CASE pc'[r] = "reply_event"
      <4>1. loc'[r].lead = p /\ loc'[r].kind = "negative" /\ p \in Warm
        BY <1>1, <3>3 DEF p, class, Over
      <4>2. heat'[p].score = points'[p] /\ points'[p] \in Nat
        BY <1>1, <2>1, <4>1 DEF Even, HeatInv, HeatTyped, HeatTables
      <4> QED BY <3>1, <3>3, <4>1, <4>2, PointsNat DEF HeatAt
    <3>4. CASE pc'[r] \in Over
      BY <3>1, <3>4 DEF HeatAt, Over
    <3> QED BY <1>1, <3>1, <3>2, <3>3, <3>4
  <2> QED BY <1>1, <2>1, HeatAloneKept DEF HeatInv, HeatLabels
<1> QED BY <1>7, <1>8, <1>9 DEF HeatInv

\* The event of a reply.
LEMMA HeatReplyLogged ==
  ASSUME Desk, HeatInv, NEW r \in Req, Acts(r, HeatLabels), HeatKinds', LogReply(r)
  PROVE  HeatInv'
<1> DEFINE p == loc[r].lead
           kind == loc[r].kind
<1>1. /\ pc[r] = "reply_event" /\ points' = [points EXCEPT ![p] = @ + Points[kind]]
      /\ UNCHANGED <<heat, reply, calm>> /\ pc'[r] \in Over
      /\ p \in Warm /\ kind \in DOMAIN Points
  BY DEF LogReply, Finish, Goto, Desk, Placed, Over, HeatInv, HeatTyped, HeatSession
<1>2. /\ DOMAIN points' = Warm \cup Gone
      /\ \A q \in Warm \cup Gone : points'[q] = IF q = p THEN points[q] + Points[kind] ELSE points[q]
  BY <1>1 DEF HeatInv, HeatTyped, HeatTables
<1> HIDE DEF p, kind
<1>3. HeatTables'
  <2>1. \A q \in Warm \cup Gone : points'[q] \in Nat
    BY <1>1, <1>2, PointsNat DEF HeatInv, HeatTyped, HeatTables
  <2> QED BY <1>1, <1>2, <2>1 DEF HeatInv, HeatTyped, HeatTables, HeatRow
<1>4. HeatSession(pc'[r], loc'[r])
  BY <1>1 DEF HeatSession, Over
<1>5. HeatTyped'
  BY <1>3, <1>4, HeatTypedKept DEF HeatInv
<1>6. HeatCalm'
  BY <1>1, HeatStirs DEF HeatInv, HeatLabels, Over
<1>7. HeatSerial'
  <2>1. ASSUME HeatAt(pc[r], loc[r], heat, points),
               \A q \in Warm : \/ pc[r] \in {"heat", "reply_event"} /\ loc[r].lead = q
                               \/ Even(q, heat, points)
        PROVE  /\ HeatAt(pc'[r], loc'[r], heat', points')
               /\ \A q \in Warm : Even(q, heat', points')
    <3>1. heat[p].score = points[p] + Points[kind]
      BY <1>1, <2>1 DEF HeatAt, p, kind
    <3>2. Even(p, heat', points')
      BY <1>1, <1>2, <3>1 DEF Even
    <3>3. \A q \in Warm \ {p} : Even(q, heat', points')
      BY <1>1, <1>2, <2>1 DEF Even, p
    <3>4. HeatAt(pc'[r], loc'[r], heat', points')
      BY <1>1 DEF HeatAt, Over
    <3> QED BY <3>2, <3>3, <3>4
  <2> QED BY <1>1, <2>1, HeatAloneKept DEF HeatInv, HeatLabels
<1> QED BY <1>5, <1>6, <1>7 DEF HeatInv

\* The recalculation loads everything while no other does.
LEMMA RecalcBegins ==
  ASSUME Desk, Somewhere, HeatInv, NEW r \in Req, Acts(r, HeatLabels), HeatKinds', Recalc(r)
  PROVE  HeatInv'
<1>1. /\ pc[r] = "idle" /\ pc'[r] = "recalc" /\ loc'[r].heat = heat /\ loc'[r].points = points
      /\ \A q \in Req : ~Recalculates(q)
      /\ UNCHANGED <<heat, points, reply>>
      /\ calm' = IF \E q \in Req : Heats(q) THEN calm ELSE "pending"
  BY DEF Recalc, Launch, Desk, Placed
<1>2. \A q \in Req : pc[q] # "recalc"
  BY <1>1 DEF Recalculates, Active, Over, Desk, HeatKinds, HeatKind
<1>3. \A q \in Req : pc[q] \in HeatLabels \ {"recalc"} <=> Heats(q)
  <2>1. \A q \in Req : pc[q] \in HeatLabels \ {"recalc"} => Heats(q)
    BY DEF Heats, Heaters, HeatLabels, Active, Over, Desk, HeatKinds, HeatKind
  <2>2. \A q \in Req : Heats(q) => pc[q] \in HeatLabels \ {"recalc"}
    BY KindsTell DEF Heats
  <2> QED BY <2>1, <2>2
<1>4. HeatTables'
  BY <1>1 DEF HeatInv, HeatTyped, HeatTables, HeatRow
<1>5. HeatSession(pc'[r], loc'[r])
  BY <1>1 DEF HeatSession, HeatInv, HeatTyped, HeatTables
<1>6. HeatTyped'
  BY <1>4, <1>5, HeatTypedKept DEF HeatInv
<1>7. HeatCalm'
  <2>1. \A q \in Req : pc'[q] = "recalc" => q = r
    BY <1>2 DEF Acts
  <2>2. CASE \E q \in Req : Heats(q)
    <3>1. calm' = "no"
      BY <1>1, <1>3, <2>2 DEF HeatInv, HeatCalm
    <3> QED BY <2>1, <3>1 DEF HeatCalm
  <2>3. CASE \A q \in Req : ~Heats(q)
    <3>1. \A q \in Req : pc'[q] \notin HeatLabels \ {"recalc"}
      BY <1>1, <1>3, <2>3 DEF Acts
    <3> QED BY <1>1, <2>1, <2>3, <3>1 DEF HeatCalm
  <2> QED BY <2>2, <2>3
<1>8. HeatSerial'
  BY <1>1, HeatAloneKept DEF HeatInv, HeatAt, HeatLabels, Even
<1> QED BY <1>6, <1>7, <1>8 DEF HeatInv

\* The recalculation's commit sets every lead that differed when it loaded.
LEMMA RecalcEnds ==
  ASSUME Desk, HeatInv, NEW r \in Req, Acts(r, HeatLabels), HeatKinds', CommitRecalc(r)
  PROVE  HeatInv'
<1> DEFINE seen == loc[r].heat
           sums == loc[r].points
           fresh(p) == seen[p].score = sums[p] /\ seen[p].level = Bucket(sums[p])
           set(p) == [heat[p] EXCEPT !.score = sums[p], !.level = Bucket(sums[p])]
<1>0. /\ pc[r] = "recalc" /\ Finish(r) /\ UNCHANGED <<points, reply>>
      /\ calm' = IF calm = "pending" THEN "yes" ELSE calm
  BY Zenon DEF CommitRecalc
<1>1. /\ pc[r] = "recalc" /\ pc'[r] \in Over /\ UNCHANGED <<points, reply>>
      /\ calm' = IF calm = "pending" THEN "yes" ELSE calm
  BY <1>0 DEF Finish, Goto, Desk, Placed, Over
<1>2. \A p \in Warm : sums[p] \in Nat /\ HeatRow(heat[p])
  BY <1>0 DEF HeatInv, HeatTyped, HeatSession, HeatTables
<1>3. \A p \in Warm : HeatRow(set(p)) /\ set(p).score = sums[p] /\ set(p).level = Bucket(sums[p])
  BY <1>2 DEF HeatRow
<1>4. /\ DOMAIN heat' = Warm
      /\ \A p \in Warm : heat'[p] = IF fresh(p) THEN heat[p] ELSE set(p)
  <2>1. heat' = [p \in Warm |-> IF fresh(p) THEN heat[p] ELSE set(p)]
    BY Zenon DEF CommitRecalc
  <2> HIDE DEF fresh, set
  <2> QED BY <2>1
<1> HIDE DEF set
<1> HIDE DEF seen, sums
<1>5. seen = heat => \A p \in Warm : heat'[p].score = sums[p] /\ heat'[p].level = Bucket(sums[p])
  BY <1>3, <1>4
<1>6. HeatTables'
  <2>1. \A p \in Warm : HeatRow(heat'[p])
    BY <1>2, <1>3, <1>4
  <2> QED BY <1>1, <1>4, <2>1 DEF HeatInv, HeatTyped, HeatTables
<1>7. HeatSession(pc'[r], loc'[r])
  BY <1>1 DEF HeatSession, Over
<1>8. HeatTyped'
  BY <1>6, <1>7, HeatTypedKept DEF HeatInv
<1>9. HeatCalm'
  <2>1. \A q \in Req : pc'[q] # "recalc"
    BY <1>1 DEF Acts, Over, HeatInv, HeatCalm
  <2>2. CASE calm = "pending"
    <3>1. \A q \in Req : pc'[q] \notin HeatLabels \ {"recalc"}
      BY <1>1, <2>2 DEF Acts, Over, HeatLabels, HeatInv, HeatCalm
    <3>2. seen = heat /\ sums = points
      BY <1>1, <2>2 DEF HeatInv, HeatCalm, seen, sums
    <3>3. \A p \in Warm : heat'[p].score = points'[p] /\ heat'[p].level = Bucket(points'[p])
      BY <1>1, <1>5, <3>2
    <3> QED BY <1>1, <2>1, <2>2, <3>1, <3>3 DEF HeatCalm
  <2>3. CASE calm # "pending"
    <3>1. calm' = "no"
      BY <1>1, <2>3 DEF HeatInv, HeatCalm
    <3> QED BY <2>1, <3>1 DEF HeatCalm
  <2> QED BY <2>2, <2>3
<1>10. HeatSerial'
  <2>1. ASSUME HeatAt(pc[r], loc[r], heat, points)
        PROVE  /\ \A p \in Warm : heat'[p].level = Bucket(heat'[p].score)
               /\ HeatAt(pc'[r], loc'[r], heat', points')
               /\ \A p \in Warm : Even(p, heat', points')
    <3>1. seen = heat /\ sums = points
      BY <1>1, <2>1 DEF HeatAt, seen, sums
    <3>2. \A p \in Warm : heat'[p].score = points'[p] /\ heat'[p].level = Bucket(points'[p])
      BY <1>1, <1>5, <3>1
    <3> QED BY <1>1, <3>2 DEF HeatAt, Even, Over
  <2> QED BY <1>1, <2>1, HeatAloneKept DEF HeatInv, HeatLabels
<1> QED BY <1>8, <1>9, <1>10 DEF HeatInv

\* Every step on the heat.
LEMMA HeatKept ==
  ASSUME Desk, Somewhere, HeatInv, NEW r \in Req, HeatNext(r), Acts(r, HeatLabels), HeatKinds'
  PROVE  HeatInv'
<1>1. CASE LogEvent(r) \/ RecordReply(r) \/ Reclassify(r)
  BY <1>1, HeatBegins
<1>2. CASE CommitEvent(r)
  BY <1>2, HeatLogged
<1>3. CASE ApplyHeat(r) \/ ApplyEvent(r)
  BY <1>3, HeatApplied
<1>4. CASE CommitReply(r)
  BY <1>4, HeatReplied
<1>5. CASE LogReply(r)
  BY <1>5, HeatReplyLogged
<1>6. CASE Recalc(r)
  BY <1>6, RecalcBegins
<1>7. CASE CommitRecalc(r)
  BY <1>7, RecalcEnds
<1> QED BY <1>1, <1>2, <1>3, <1>4, <1>5, <1>6, <1>7 DEF HeatNext

\* Elsewhere a death takes away what was loaded, and is on record.
LEMMA HeatElsewhere ==
  ASSUME Desk, HeatInv, UNCHANGED heatVars, Elsewhere(HeatLabels)
  PROVE  HeatInv'
<1>1. heat' = heat /\ points' = points /\ reply' = reply /\ calm' = calm
  BY DEF heatVars
<1>2. \A q \in Req : pc'[q] \in HeatLabels => pc'[q] = pc[q] /\ loc'[q] = loc[q]
  BY DEF Elsewhere
<1>3. HeatTyped'
  BY <1>1, <1>2 DEF HeatInv, HeatTyped, HeatTables, HeatRow, HeatSession, HeatLabels
<1>4. HeatCalm'
  BY <1>1, <1>2 DEF HeatInv, HeatCalm, HeatLabels
<1>5. HeatSerial'
  <2> SUFFICES ASSUME Alone'
               PROVE  /\ \A p \in Warm : heat[p].level = Bucket(heat[p].score)
                      /\ \A r \in Req : HeatAt(pc'[r], loc'[r], heat, points)
                      /\ \A p \in Warm :
                            \/ \E r \in Req : pc'[r] \in {"heat", "reply_event"} /\ loc'[r].lead = p
                            \/ Even(p, heat, points)
    BY <1>1 DEF HeatSerial
  <2>1. Alone
    BY DEF Alone, Met, Elsewhere
  <2>2. \A q \in Req : pc[q] \in HeatLabels => pc'[q] = pc[q] /\ loc'[q] = loc[q]
    <3>1. \A q \in Req : pc[q] \in HeatLabels => loc[q].op \in Heaters \cup {"recalc"}
      BY DEF Desk, HeatKinds, HeatKind, HeatLabels, Heaters
    <3> QED BY <3>1 DEF Elsewhere, Alone
  <2>3. \A r \in Req : HeatAt(pc'[r], loc'[r], heat, points)
    <3> SUFFICES ASSUME NEW r \in Req PROVE HeatAt(pc'[r], loc'[r], heat, points)
      OBVIOUS
    <3>1. CASE pc'[r] \in HeatLabels
      BY <1>2, <2>1, <3>1 DEF HeatInv, HeatSerial
    <3>2. CASE pc'[r] \notin HeatLabels
      BY <3>2 DEF HeatAt, HeatLabels
    <3> QED BY <3>1, <3>2
  <2>4. ASSUME NEW p \in Warm
        PROVE  \/ \E r \in Req : pc'[r] \in {"heat", "reply_event"} /\ loc'[r].lead = p
               \/ Even(p, heat, points)
    BY <2>1, <2>2 DEF HeatInv, HeatSerial, HeatLabels
  <2> QED BY <2>1, <2>3, <2>4 DEF HeatInv, HeatSerial
<1> QED BY <1>3, <1>4, <1>5 DEF HeatInv

\* Cold leads without events.
LEMMA HeatStarts == Init => HeatInv /\ Somewhere
<1> SUFFICES ASSUME Init PROVE HeatInv /\ Somewhere
  OBVIOUS
<1>1. /\ heat = [p \in Warm |-> Cool] /\ points = [p \in Warm \cup Gone |-> 0]
      /\ reply = [i \in Reply |-> NoReply] /\ calm = "no" /\ \A r \in Req : pc[r] = "idle"
  BY DEF Init, HeatInit, DeskInit
<1>2. HeatRow(Cool) /\ Cool.score = 0 /\ Cool.level = Bucket(0) /\ NoReply.lead = None
  BY DEF HeatRow, Cool, Bucket, NoReply
<1>3. HeatTyped
  BY <1>1, <1>2 DEF HeatTyped, HeatTables, HeatSession
<1>4. HeatSerial
  BY <1>1, <1>2 DEF HeatSerial, HeatAt, Even
<1>5. HeatCalm
  BY <1>1 DEF HeatCalm, HeatLabels
<1> QED BY <1>1, <1>3, <1>4, <1>5 DEF HeatInv, Somewhere, Over

\* Behind a recalculation that met no heating request, and behind requests that run one
\* by one, score and level are those of the events.
THEOREM HeatSettlesHolds == Spec => []HeatSettles
<1> DEFINE Inv == Desk /\ Somewhere /\ HeatInv
<1>1. Init => Inv
  BY DeskStarts, HeatStarts
<1>2. Inv /\ [Next]_vars => Inv'
  <2> SUFFICES ASSUME Inv, [Next]_vars PROVE Inv'
    OBVIOUS
  <2>1. Desk' /\ Somewhere' /\ HeatStep
    BY Steps, SomewhereKept
  <2> QED BY <2>1, HeatKept, HeatElsewhere DEF HeatStep, Desk
<1>3. Inv => HeatSettles
  <2> SUFFICES ASSUME Inv, \A r \in Active : loc[r].op \notin Heaters \cup {"recalc"},
                      calm = "yes" \/ Alone, NEW p \in Warm
               PROVE  heat[p].score = points[p] /\ heat[p].level = Bucket(points[p])
    BY DEF HeatSettles, Alone
  <2>1. CASE calm = "yes"
    BY <2>1 DEF HeatInv, HeatCalm
  <2>2. CASE Alone
    <3>1. \A r \in Req : pc[r] \notin {"heat", "reply_event"}
      BY DEF Active, Over, Desk, HeatKinds, HeatKind, Heaters
    <3> QED BY <2>2, <3>1 DEF HeatInv, HeatSerial, Even
  <2> QED BY <2>1, <2>2
<1> QED BY <1>1, <1>2, <1>3, PTL DEF Spec

-----------------------------------------------------------------------------
(***************************************************************************)
(* The funnel.  A snapshot is alone, and what it has written under a key   *)
(* that it looks up itself is one row, which is right as long as no event  *)
(* changes a stage beside it.                                              *)
(***************************************************************************)
Shared(k) == None \in {k[2], k[3]}     \* a key whose row the code looks for itself

DailyTyped ==
    /\ DOMAIN daily = FunnelKeys
    /\ \A k \in FunnelKeys : daily[k] \in Seq(Nat) /\ (Shared(k) => Len(daily[k]) <= 1)
SnapshotAlone ==
    /\ \A q, r \in Req : pc[q] \in FunnelLabels /\ pc[r] \in FunnelLabels => q = r
    /\ \A r \in Req : pc[r] \in FunnelLabels => \A g \in loc[r].todo : g.count \in Nat

\* Each of these groups has its row.
Filed(groups, rows) ==
    \A g \in groups : g.key \in FunnelKeys /\ Shared(g.key) => rows[g.key] = <<g.count>>
\* What a snapshot has written of the groups by dimension, and of those by stage.
SnapshotAt(at, l, rows, dims, stages) ==
    /\ at = "dimensions" => l.todo \subseteq dims /\ Filed(dims \ l.todo, rows)
    /\ at = "rollup" => /\ l.todo \subseteq stages
                        /\ Filed(dims, rows) /\ Filed(stages \ l.todo, rows)
SnapshotOn ==
    ~Met("event", "snapshot") =>
        \A r \in Req : SnapshotAt(pc[r], loc[r], daily, ByDimension, ByStage)

FunnelInv == DailyTyped /\ SnapshotAlone /\ SnapshotOn

\* GROUP BY makes one group, with its number, of each value of what it groups by.
LEMMA GroupsCount ==
  ASSUME NEW group
  PROVE  /\ \A g \in Grouped(group) :
               /\ g.count \in Nat /\ \E p \in Warm : g.key = group[p]
               /\ g.count = Cardinality({p \in Warm : group[p] = g.key})
         /\ \A g, h \in Grouped(group) : g.key = h.key => g = h
         /\ \A p \in Warm : \E g \in Grouped(group) : g.key = group[p]
<1>1. ASSUME NEW k PROVE Cardinality({p \in Warm : group[p] = k}) \in Nat
  <2>1. {p \in Warm : group[p] = k} \subseteq Warm /\ IsFiniteSet(Warm)
    BY HeatAssumption
  <2>2. IsFiniteSet({p \in Warm : group[p] = k})
    BY <2>1, FS_Subset
  <2> QED BY <2>2, FS_CardinalityType
<1> DEFINE Count(k) == Cardinality({p \in Warm : group[p] = k})
           Keys == {group[p] : p \in Warm}
<1>2. Grouped(group) = {[key |-> k, count |-> Count(k)] : k \in Keys}
  BY DEF Grouped
<1>3. \A k : Count(k) \in Nat
  BY <1>1
<1>4. /\ \A k \in Keys : \E p \in Warm : k = group[p]
      /\ \A p \in Warm : group[p] \in Keys
  OBVIOUS
<1>5. SUFFICES /\ \A g \in Grouped(group) :
                     /\ g.count \in Nat /\ \E p \in Warm : g.key = group[p]
                     /\ g.count = Count(g.key)
               /\ \A g, h \in Grouped(group) : g.key = h.key => g = h
               /\ \A p \in Warm : \E g \in Grouped(group) : g.key = group[p]
  OBVIOUS
<1> HIDE DEF Count, Keys
<1>6. \A g \in Grouped(group) :
         g.key \in Keys /\ g.count = Count(g.key) /\ g = [key |-> g.key, count |-> g.count]
  BY <1>2
<1>7. ASSUME NEW g \in Grouped(group), NEW h \in Grouped(group), g.key = h.key PROVE g = h
  BY <1>6, <1>7
<1>8. ASSUME NEW p \in Warm PROVE \E g \in Grouped(group) : g.key = group[p]
  <2>1. [key |-> group[p], count |-> Count(group[p])] \in Grouped(group)
    BY <1>2, <1>4
  <2> QED BY <2>1
<1> QED BY <1>3, <1>4, <1>6, <1>7, <1>8

\* The groups of the two queries, which share no key.
LEMMA GroupsAre ==
    /\ \A g \in ByDimension \cup ByStage : g.count \in Nat
    /\ \A g, h \in ByDimension : g.key = h.key => g = h
    /\ \A g, h \in ByStage : g.key = h.key => g = h
    /\ \A g \in ByDimension, h \in ByStage : g.key # h.key
    /\ \A p \in Warm :
          /\ \E g \in ByDimension :
                /\ g.key = <<heat[p].stage, Source[p].channel, Source[p].owner>>
                /\ g.count = Cardinality({q \in Warm :
                       <<heat[q].stage, Source[q].channel, Source[q].owner>> = g.key})
          /\ \E g \in ByStage :
                /\ g.key = <<heat[p].stage, None, None>>
                /\ g.count = Cardinality({q \in Warm : <<heat[q].stage, None, None>> = g.key})
<1> DEFINE dim == [p \in Warm |-> <<heat[p].stage, Source[p].channel, Source[p].owner>>]
           all == [p \in Warm |-> <<heat[p].stage, None, None>>]
<1>1. ByDimension = Grouped(dim) /\ ByStage = Grouped(all)
  BY DEF ByDimension, ByStage
<1>2. /\ \A p \in Warm : dim[p] = <<heat[p].stage, Source[p].channel, Source[p].owner>>
      /\ \A p \in Warm : all[p] = <<heat[p].stage, None, None>>
  OBVIOUS
<1>3. \A k : /\ {q \in Warm : dim[q] = k} =
                {q \in Warm : <<heat[q].stage, Source[q].channel, Source[q].owner>> = k}
             /\ {q \in Warm : all[q] = k} = {q \in Warm : <<heat[q].stage, None, None>> = k}
  OBVIOUS
<1> HIDE DEF dim, all
<1>4. ASSUME NEW g \in ByDimension, NEW h \in ByStage PROVE g.key # h.key
  <2>1. PICK p \in Warm : g.key = dim[p]
    BY <1>1, GroupsCount
  <2>2. PICK q \in Warm : h.key = all[q]
    BY <1>1, GroupsCount
  <2>3. dim[p][2] = Source[p].channel /\ all[q][2] = None
    BY <1>2
  <2> QED BY <2>1, <2>2, <2>3, SourceAssumption
<1>5. /\ \A g \in ByDimension \cup ByStage : g.count \in Nat
      /\ \A g, h \in ByDimension : g.key = h.key => g = h
      /\ \A g, h \in ByStage : g.key = h.key => g = h
  BY <1>1, GroupsCount
<1>6. ASSUME NEW p \in Warm
      PROVE  \E g \in ByDimension :
                /\ g.key = <<heat[p].stage, Source[p].channel, Source[p].owner>>
                /\ g.count = Cardinality({q \in Warm :
                       <<heat[q].stage, Source[q].channel, Source[q].owner>> = g.key})
  <2>1. PICK g \in ByDimension : g.key = dim[p]
    BY <1>1, GroupsCount
  <2>2. g.count = Cardinality({q \in Warm : dim[q] = g.key})
    BY <1>1, GroupsCount
  <2> QED BY <1>2, <1>3, <2>1, <2>2
<1>7. ASSUME NEW p \in Warm
      PROVE  \E g \in ByStage :
                /\ g.key = <<heat[p].stage, None, None>>
                /\ g.count = Cardinality({q \in Warm : <<heat[q].stage, None, None>> = g.key})
  <2>1. PICK g \in ByStage : g.key = all[p]
    BY <1>1, GroupsCount
  <2>2. g.count = Cardinality({q \in Warm : all[q] = g.key})
    BY <1>1, GroupsCount
  <2> QED BY <1>2, <1>3, <2>1, <2>2
<1> QED BY <1>4, <1>5, <1>6, <1>7

\* The rows under one key behind an upsert.
LEMMA UpsertedRows ==
  ASSUME DailyTyped, NEW key, NEW count \in Nat, daily' = Upserted(key, count)
  PROVE  /\ DailyTyped'
         /\ \A k \in FunnelKeys \ {key} : daily'[k] = daily[k]
         /\ key \in FunnelKeys /\ Shared(key) => daily'[key] = <<count>>
<1>1. DOMAIN daily' = FunnelKeys /\ \A k \in FunnelKeys \ {key} : daily'[k] = daily[k]
  BY DEF Upserted, DailyTyped
<1>2. /\ \A s \in Seq(Nat) : Append(s, count) \in Seq(Nat)
      /\ Append(<<>>, count) = <<count>> /\ <<count>> \in Seq(Nat)
  OBVIOUS
<1>3. ASSUME key \in FunnelKeys
      PROVE  daily'[key] \in Seq(Nat) /\ (Shared(key) => daily'[key] = <<count>>)
  <2>1. daily'[key] =
           IF ~Shared(key) \/ daily[key] = <<>> THEN Append(daily[key], count) ELSE <<count>>
    BY <1>3 DEF Upserted, DailyTyped, Shared
  <2>2. daily[key] \in Seq(Nat)
    BY <1>3 DEF DailyTyped
  <2> QED BY <1>2, <2>1, <2>2
<1>4. \A s : s = <<count>> => Len(s) <= 1
  OBVIOUS
<1>5. ASSUME NEW k \in FunnelKeys
      PROVE  daily'[k] \in Seq(Nat) /\ (Shared(k) => Len(daily'[k]) <= 1)
  <2>1. CASE k = key
    <3>1. daily'[k] \in Seq(Nat) /\ (Shared(k) => daily'[k] = <<count>>)
      BY <1>3, <2>1
    <3> QED BY <1>4, <3>1
  <2>2. CASE k # key
    BY <1>1, <2>2 DEF DailyTyped
  <2> QED BY <2>1, <2>2
<1> QED BY <1>1, <1>3, <1>5 DEF DailyTyped, Shared

\* Beside a snapshot that met no event the stages of the leads stay, and so do the groups.
LEMMA GroupsStay ==
  ASSUME Desk, HeatTyped, HeatStep, NEW q \in Req, pc[q] \in FunnelLabels,
         ~Met("event", "snapshot")
  PROVE  ByDimension' = ByDimension /\ ByStage' = ByStage
<1>1. SUFFICES \A p \in Warm : heat'[p].stage = heat[p].stage
  <2>1. ASSUME \A p \in Warm : heat'[p].stage = heat[p].stage
        PROVE  ByDimension' = ByDimension /\ ByStage' = ByStage
    <3>1. [p \in Warm |-> <<heat'[p].stage, Source[p].channel, Source[p].owner>>] =
          [p \in Warm |-> <<heat[p].stage, Source[p].channel, Source[p].owner>>]
      BY <2>1
    <3>2. [p \in Warm |-> <<heat'[p].stage, None, None>>] =
          [p \in Warm |-> <<heat[p].stage, None, None>>]
      BY <2>1
    <3>3. \A a, b : a = b => Grouped(a) = Grouped(b)
      OBVIOUS
    <3> QED BY <3>1, <3>2, <3>3, Zenon DEF ByDimension, ByStage
  <2> QED BY <2>1
<1>2. CASE UNCHANGED heatVars
  BY <1>2 DEF heatVars
<1>3. ASSUME NEW r \in Req, HeatNext(r), Acts(r, HeatLabels)
      PROVE  \A p \in Warm : heat'[p].stage = heat[p].stage
  <2>1. pc[r] # "unsubscribe"
    <3> SUFFICES ASSUME pc[r] = "unsubscribe" PROVE FALSE
      OBVIOUS
    <3>1. loc[r].op = "event" /\ loc[q].op = "snapshot" /\ q # r /\ q \in Active /\ r \in Active
      BY DEF Desk, HeatKinds, HeatKind, FunnelKinds, FunnelKind, FunnelLabels, Active, Over
    <3> QED BY <3>1 DEF Desk, Noticed
  <2>2. ASSUME NEW new, HeatRow(new), SaveHeat(r, new), pc[r] \in {"heat", "demo"},
               new.stage = loc[r].row.stage
        PROVE  \A p \in Warm : heat'[p].stage = heat[p].stage
    <3>1. /\ \A p \in Warm \ {loc[r].lead} : heat'[p] = heat[p]
          /\ heat'[loc[r].lead].stage =
                Written(heat[loc[r].lead].stage, loc[r].row.stage, new.stage)
      BY <2>2, HeatSaved
    <3> QED BY <2>2, <3>1 DEF Written
  <2>3. CASE ApplyHeat(r)
    <3> DEFINE score == loc[r].row.score + Points[loc[r].kind]
               new == [loc[r].row EXCEPT !.score = score, !.level = Bucket(score)]
    <3>1. pc[r] = "heat" /\ SaveHeat(r, new)
      BY <2>3 DEF ApplyHeat
    <3>2. HeatRow(loc[r].row) /\ loc[r].kind \in DOMAIN Points
      BY <3>1 DEF HeatTyped, HeatSession
    <3>3. score \in Nat
      BY <3>2, PointsNat DEF HeatRow
    <3> HIDE DEF score
    <3>4. HeatRow(new) /\ new.stage = loc[r].row.stage
      BY <3>2, <3>3 DEF HeatRow
    <3> QED BY <2>2, <3>1, <3>4
  <2>4. CASE ApplyEvent(r)
    <3> DEFINE new == [loc[r].row EXCEPT !.booked = TRUE]
    <3>1. pc[r] = "demo" /\ SaveHeat(r, new)
      BY <2>1, <2>4 DEF ApplyEvent
    <3>2. HeatRow(loc[r].row)
      BY <3>1 DEF HeatTyped, HeatSession
    <3>3. HeatRow(new) /\ new.stage = loc[r].row.stage
      BY <3>2 DEF HeatRow
    <3> QED BY <2>2, <3>1, <3>3
  <2>5. CASE CommitRecalc(r)
    <3> SUFFICES ASSUME NEW p \in Warm PROVE heat'[p].stage = heat[p].stage
      OBVIOUS
    <3> DEFINE s == loc[r].points[p]
    <3>1. \/ heat'[p] = heat[p]
          \/ heat'[p] = [heat[p] EXCEPT !.score = s, !.level = Bucket(s)]
      BY <2>5, Zenon DEF CommitRecalc
    <3>2. DOMAIN heat[p] = {"score", "level", "stage", "booked"}
      BY DEF HeatTyped, HeatTables, HeatRow
    <3> QED BY <3>1, <3>2
  <2>6. CASE \/ LogEvent(r) \/ CommitEvent(r) \/ RecordReply(r) \/ Reclassify(r)
             \/ CommitReply(r) \/ LogReply(r) \/ Recalc(r)
    BY <2>6 DEF LogEvent, CommitEvent, RecordReply, Reclassify, CommitReply, LogReply,
                Recalc, HeatRequest
  <2> QED BY <1>3, <2>3, <2>4, <2>5, <2>6 DEF HeatNext
<1> QED BY <1>2, <1>3 DEF HeatStep

\* A row that stands, or is the group's own, is one that its group has.
LEMMA FiledOn ==
  ASSUME DailyTyped, NEW g, g.count \in Nat, daily' = Upserted(g.key, g.count),
         NEW groups, \A h \in groups : h = g \/ h.key # g.key,
         Filed(groups \ {g}, daily)
  PROVE  Filed(groups, daily')
<1>1. /\ \A k \in FunnelKeys \ {g.key} : daily'[k] = daily[k]
      /\ g.key \in FunnelKeys /\ Shared(g.key) => daily'[g.key] = <<g.count>>
  BY UpsertedRows
<1> QED BY <1>1 DEF Filed

\* Every step of a snapshot.
LEMMA FunnelKept ==
  ASSUME Desk, FunnelInv, NEW r \in Req, FunnelNext(r), Acts(r, FunnelLabels)
  PROVE  FunnelInv'
<1>1. \A q \in Req \ {r} : pc'[q] = pc[q] /\ loc'[q] = loc[q]
  BY DEF Acts
<1>2. ByDimension' = ByDimension /\ ByStage' = ByStage
  <2>1. heat' = heat
    BY DEF FunnelNext, Snapshot, Upsert, RollUp, Rolled, heatVars
  <2> QED BY <2>1 DEF ByDimension, ByStage
<1>3. ~Met("event", "snapshot")' => ~Met("event", "snapshot")
  BY DEF Acts, Met
<1>4. ASSUME \A q \in Req \ {r} : pc[q] \notin FunnelLabels, DailyTyped',
             pc'[r] \in FunnelLabels => \A g \in loc'[r].todo : g.count \in Nat,
             ~Met("event", "snapshot") =>
                SnapshotAt(pc'[r], loc'[r], daily', ByDimension, ByStage)
      PROVE  FunnelInv'
  <2>1. SnapshotAlone'
    BY <1>1, <1>4 DEF SnapshotAlone
  <2>2. \A q \in Req \ {r} : SnapshotAt(pc'[q], loc'[q], daily', ByDimension, ByStage)
    BY <1>1, <1>4 DEF SnapshotAt, FunnelLabels
  <2>3. SnapshotOn'
    BY <1>2, <1>3, <1>4, <2>2 DEF SnapshotOn
  <2> QED BY <1>4, <2>1, <2>3 DEF FunnelInv
<1>5. CASE Snapshot(r)
  <2>1. /\ pc'[r] = "dimensions" /\ loc'[r] = [op |-> "snapshot", todo |-> ByDimension]
        /\ daily' = daily /\ \A q \in Active : loc[q].op # "snapshot"
    BY <1>5 DEF Snapshot, Launch, Desk, Placed
  <2>2. \A q \in Req : pc[q] \notin FunnelLabels
    BY <2>1 DEF Desk, FunnelKinds, FunnelKind, Active, Over, FunnelLabels
  <2>3. SnapshotAt(pc'[r], loc'[r], daily', ByDimension, ByStage)
    BY <2>1 DEF SnapshotAt, Filed
  <2>4. DailyTyped'
    BY <2>1 DEF FunnelInv, DailyTyped
  <2> QED BY <1>4, <2>1, <2>2, <2>3, <2>4, GroupsAre
<1>6. ASSUME pc[r] \in FunnelLabels
      PROVE  /\ \A q \in Req \ {r} : pc[q] \notin FunnelLabels
             /\ \A g \in loc[r].todo : g.count \in Nat
             /\ DOMAIN loc[r] = {"op", "todo"}
             /\ ~Met("event", "snapshot") =>
                   SnapshotAt(pc[r], loc[r], daily, ByDimension, ByStage)
  BY <1>6 DEF FunnelInv, SnapshotAlone, SnapshotOn, Desk, FunnelKinds, FunnelKind
<1>7. CASE Upsert(r)
  <2>1. PICK g \in loc[r].todo :
          /\ daily' = Upserted(g.key, g.count)
          /\ Goto(r, pc[r], [loc[r] EXCEPT !.todo = @ \ {g}])
    BY <1>7 DEF Upsert
  <2>2. pc[r] \in FunnelLabels
    BY <1>7 DEF Upsert, FunnelLabels
  <2>3. pc'[r] = pc[r] /\ loc'[r].todo = loc[r].todo \ {g}
    <3>1. pc'[r] = pc[r] /\ loc'[r] = [loc[r] EXCEPT !.todo = @ \ {g}]
      BY <2>1 DEF Goto, Desk, Placed
    <3> QED BY <1>6, <2>2, <3>1
  <2>4. DailyTyped'
    BY <1>6, <2>1, <2>2, UpsertedRows DEF FunnelInv
  <2>5. ASSUME ~Met("event", "snapshot")
        PROVE  SnapshotAt(pc'[r], loc'[r], daily', ByDimension, ByStage)
    <3>1. SnapshotAt(pc[r], loc[r], daily, ByDimension, ByStage) /\ g.count \in Nat
      BY <1>6, <2>1, <2>2, <2>5
    <3>2. CASE pc[r] = "dimensions"
      <4> DEFINE groups == ByDimension \ (loc[r].todo \ {g})
      <4>1. g \in ByDimension /\ loc'[r].todo \subseteq ByDimension
        BY <2>1, <2>3, <3>1, <3>2 DEF SnapshotAt
      <4>2. \A h \in groups : h = g \/ h.key # g.key
        BY <4>1, GroupsAre
      <4>3. Filed(groups \ {g}, daily)
        BY <3>1, <3>2 DEF SnapshotAt, Filed
      <4> HIDE DEF groups
      <4>4. Filed(groups, daily')
        BY <2>1, <3>1, <4>2, <4>3, FiledOn DEF FunnelInv
      <4> QED BY <2>3, <3>2, <4>1, <4>4 DEF SnapshotAt, groups
    <3>3. CASE pc[r] = "rollup"
      <4> DEFINE groups == ByStage \ (loc[r].todo \ {g})
      <4>1. g \in ByStage /\ loc'[r].todo \subseteq ByStage
        BY <2>1, <2>3, <3>1, <3>3 DEF SnapshotAt
      <4>2. \A h \in groups : h = g \/ h.key # g.key
        BY <4>1, GroupsAre
      <4>3. Filed(groups \ {g}, daily)
        BY <3>1, <3>3 DEF SnapshotAt, Filed
      <4> HIDE DEF groups
      <4>4. Filed(groups, daily')
        BY <2>1, <3>1, <4>2, <4>3, FiledOn DEF FunnelInv
      <4>5. Filed(ByDimension, daily')
        <5>1. \A h \in ByDimension : h.key # g.key
          BY <4>1, GroupsAre
        <5>2. Filed(ByDimension \ {g}, daily)
          BY <3>1, <3>3 DEF SnapshotAt, Filed
        <5> QED BY <2>1, <3>1, <5>1, <5>2, FiledOn DEF FunnelInv
      <4> QED BY <2>3, <3>3, <4>1, <4>4, <4>5 DEF SnapshotAt, groups
    <3> QED BY <2>2, <3>2, <3>3 DEF FunnelLabels
  <2> QED BY <1>4, <1>6, <2>2, <2>3, <2>4, <2>5
<1>8. CASE RollUp(r)
  <2>1. /\ pc[r] = "dimensions" /\ loc[r].todo = {} /\ daily' = daily
        /\ pc'[r] = "rollup" /\ loc'[r] = [loc[r] EXCEPT !.todo = ByStage]
    BY <1>8 DEF RollUp, Goto, Desk, Placed
  <2>2. pc[r] \in FunnelLabels
    BY <2>1 DEF FunnelLabels
  <2>3. loc'[r].todo = ByStage
    BY <1>6, <2>1, <2>2
  <2>4. ASSUME ~Met("event", "snapshot")
        PROVE  SnapshotAt(pc'[r], loc'[r], daily', ByDimension, ByStage)
    BY <1>6, <2>1, <2>2, <2>3, <2>4 DEF SnapshotAt, Filed
  <2>5. DailyTyped'
    BY <2>1 DEF FunnelInv, DailyTyped
  <2> QED BY <1>4, <1>6, <2>2, <2>3, <2>4, <2>5, GroupsAre
<1>9. CASE Rolled(r)
  <2>1. pc[r] \in FunnelLabels /\ daily' = daily /\ pc'[r] = "done"
    BY <1>9 DEF Rolled, Finish, Goto, Desk, Placed, FunnelLabels
  <2>2. DailyTyped' /\ SnapshotAt(pc'[r], loc'[r], daily', ByDimension, ByStage)
    BY <2>1 DEF FunnelInv, DailyTyped, SnapshotAt
  <2> QED BY <1>4, <1>6, <2>1, <2>2 DEF FunnelLabels
<1> QED BY <1>5, <1>7, <1>8, <1>9 DEF FunnelNext

\* A step beside the snapshot, an event among them.
LEMMA FunnelElsewhere ==
  ASSUME Desk, HeatTyped, FunnelInv, HeatStep, UNCHANGED daily, Elsewhere(FunnelLabels)
  PROVE  FunnelInv'
<1>1. \A q \in Req : pc'[q] \in FunnelLabels => pc'[q] = pc[q] /\ loc'[q] = loc[q]
  BY DEF Elsewhere
<1>2. DailyTyped' /\ SnapshotAlone'
  BY <1>1 DEF FunnelInv, DailyTyped, SnapshotAlone
<1>3. ASSUME ~Met("event", "snapshot")', NEW q \in Req
      PROVE  SnapshotAt(pc'[q], loc'[q], daily', ByDimension', ByStage')
  <2>1. ~Met("event", "snapshot")
    BY <1>3 DEF Elsewhere, Met
  <2>2. CASE pc'[q] \in FunnelLabels
    <3>1. pc[q] \in FunnelLabels /\ pc'[q] = pc[q] /\ loc'[q] = loc[q]
      BY <1>1, <2>2
    <3>2. ByDimension' = ByDimension /\ ByStage' = ByStage
      BY <2>1, <3>1, GroupsStay
    <3> QED BY <2>1, <3>1, <3>2 DEF FunnelInv, SnapshotOn
  <2>3. CASE pc'[q] \notin FunnelLabels
    BY <2>3 DEF SnapshotAt, FunnelLabels
  <2> QED BY <2>2, <2>3
<1> QED BY <1>2, <1>3 DEF FunnelInv, SnapshotOn

\* Before the first snapshot of the day.
LEMMA FunnelStarts == Init => FunnelInv
BY DEF Init, DeskInit, FunnelInit, FunnelInv, DailyTyped, SnapshotAlone, SnapshotOn,
       SnapshotAt, FunnelLabels

\* Whatever ran or died before, a snapshot that no event overlapped leaves one row, with
\* their number, of each stage and each channel without owner that have leads, and at most
\* one of the others.
THEOREM RollupsOverwrittenHolds == Spec => RollupsOverwritten
<1> DEFINE Inv == Desk /\ Somewhere /\ HeatInv /\ FunnelInv
           Overwritten ==
               (\E r \in Req : RunEnds(r)) /\ ~Met("event", "snapshot") =>
                  \A k \in FunnelKeys : None \in {k[2], k[3]} =>
                     IF Counted(k) = {} THEN Len(daily[k]) <= 1
                     ELSE daily[k] = <<Cardinality(Counted(k))>>
<1>1. Init => Inv
  BY DeskStarts, HeatStarts, FunnelStarts
<1>2. Inv /\ [Next]_vars => Inv'
  <2> SUFFICES ASSUME Inv, [Next]_vars PROVE Inv'
    OBVIOUS
  <2>1. Desk' /\ Somewhere' /\ HeatStep /\ FunnelStep
    BY Steps, SomewhereKept
  <2>2. HeatInv'
    BY <2>1, HeatKept, HeatElsewhere DEF HeatStep, Desk
  <2>3. FunnelInv'
    BY <2>1, FunnelKept, FunnelElsewhere DEF FunnelStep, HeatInv
  <2> QED BY <2>1, <2>2, <2>3
<1>3. Inv => Overwritten
  <2> SUFFICES ASSUME Inv, NEW r \in Req, RunEnds(r), ~Met("event", "snapshot"),
                      NEW k \in FunnelKeys, Shared(k)
               PROVE  IF Counted(k) = {} THEN Len(daily[k]) <= 1
                      ELSE daily[k] = <<Cardinality(Counted(k))>>
    BY DEF Shared
  <2>1. /\ \A g \in ByDimension : g.key = k => daily[k] = <<g.count>>
        /\ \A g \in ByStage : g.key = k => daily[k] = <<g.count>>
    BY DEF RunEnds, FunnelInv, SnapshotOn, SnapshotAt, Filed
  <2>2. CASE Counted(k) = {}
    BY <2>2 DEF FunnelInv, DailyTyped
  <2>3. ASSUME NEW p \in Counted(k) PROVE daily[k] = <<Cardinality(Counted(k))>>
    <3>1. p \in Warm
      BY DEF Counted
    <3>2. CASE k = <<heat[p].stage, None, None>>
      <4>1. Counted(k) = {q \in Warm : <<heat[q].stage, None, None>> = k}
        BY <3>2, SourceAssumption DEF Counted
      <4>2. PICK g \in ByStage :
               /\ g.key = <<heat[p].stage, None, None>>
               /\ g.count = Cardinality({q \in Warm : <<heat[q].stage, None, None>> = g.key})
        BY <3>1, GroupsAre
      <4> QED BY <2>1, <3>2, <4>1, <4>2
    <3>3. CASE k = <<heat[p].stage, Source[p].channel, Source[p].owner>>
      <4>1. Counted(k) =
               {q \in Warm : <<heat[q].stage, Source[q].channel, Source[q].owner>> = k}
        BY <3>1, <3>3, SourceAssumption DEF Counted
      <4>2. PICK g \in ByDimension :
               /\ g.key = <<heat[p].stage, Source[p].channel, Source[p].owner>>
               /\ g.count = Cardinality({q \in Warm :
                      <<heat[q].stage, Source[q].channel, Source[q].owner>> = g.key})
        BY <3>1, GroupsAre
      <4> QED BY <2>1, <3>3, <4>1, <4>2
    <3> QED BY <3>2, <3>3 DEF Counted
  <2> QED BY <2>2, <2>3
<1>4. Inv /\ [Next]_vars => [Overwritten]_vars
  BY <1>3
<1> QED BY <1>1, <1>2, <1>4, PTL DEF Spec, RollupsOverwritten

-----------------------------------------------------------------------------
(***************************************************************************)
(* The synchronisation.  What it has yet to write of a lead was loaded as  *)
(* the lead stands, unless something touched the lead meanwhile.           *)
(***************************************************************************)
SyncLabels == {"poll", "store", "alert"}
Counts == [Kind -> Nat]
Milestones == [count : Counts, first : SUBSET Kind]

SyncSession(at, l) ==
    /\ at = "job_event" => l.lead \in Promoted /\ l.row \in Milestones /\ l.jobs \in Nat
    /\ at \in SyncLabels => l.rows \in [Promoted -> Milestones] /\ l.todo \subseteq Promoted
    /\ at \in {"store", "alert"} => l.lead \in Promoted \ l.todo
    /\ at = "store" => l.got \in Counts
    /\ at = "alert" => l.news \subseteq Kind
SyncTables ==
    /\ account \in [Promoted -> Counts] /\ milestone \in [Promoted -> Milestones]
    /\ alerts \in [Promoted -> Counts]
SyncTyped == SyncTables /\ \A r \in Req : SyncSession(pc[r], loc[r])

\* The leads that a sync has yet to write, and the applicants it has yet to alert.
Left(at, l) == {p \in Promoted : at \in SyncLabels /\ (p \in l.todo \/ (at = "store" /\ l.lead = p))}
Unsent(at, l) == {p \in Promoted : at = "alert" /\ l.lead = p /\ "applicant" \in l.news}

\* rows is the table of milestones, sent that of alerts, own that of accounts.
SyncAt(at, l, rows, sent, own, stirred) ==
    /\ \A p \in Left(at, l) : \A k \in Kind : sent[p][k] = 1 => k \in l.rows[p].first
    /\ \A p \in Left(at, l) \ stirred : l.rows[p].count = rows[p].count
    /\ at = "store" => (l.lead \notin stirred => l.got = own[l.lead])
    /\ at = "alert" => \A k \in l.news : sent[l.lead][k] = 0 /\ k \in rows[l.lead].first
SentOnce(rows, sent) ==
    \A p \in Promoted : \A k \in Kind :
        sent[p][k] \in {0, 1} /\ (sent[p][k] = 1 => k \in rows[p].first)
Sent(p, rows, sent) == "applicant" \in rows[p].first <=> sent[p]["applicant"] = 1

SyncInv ==
    /\ SyncTyped
    /\ \A q, r \in Req : pc[q] \in SyncLabels /\ pc[r] \in SyncLabels => q = r
    /\ \A r \in Req : SyncAt(pc[r], loc[r], milestone, alerts, account, touched)
    /\ SentOnce(milestone, alerts)
    /\ "sync" \notin died => \A p \in Promoted :
          \/ Sent(p, milestone, alerts)
          \/ \E r \in Req : p \in Unsent(pc[r], loc[r])
    /\ "sync" \notin died => \A p \in Promoted \ touched :
          \/ milestone[p].count = account[p]
          \/ \E r \in Req : p \in Left(pc[r], loc[r])

\* What touches a lead beside a sync, which may be under way, is on record.
LEMMA SyncBeside ==
  ASSUME SyncInv, SyncTables', \A q \in Req : SyncSession(pc'[q], loc'[q]),
         UNCHANGED alerts, touched \subseteq touched', died \subseteq died',
         \A q \in Req : pc'[q] \in SyncLabels => pc'[q] = pc[q] /\ loc'[q] = loc[q],
         \A q \in Req : pc[q] \in SyncLabels =>
             \/ pc'[q] = pc[q] /\ loc'[q] = loc[q]
             \/ "sync" \in died',
         \A p \in Promoted \ touched' :
             milestone'[p].count = milestone[p].count /\ account'[p] = account[p],
         \A p \in Promoted : /\ milestone[p].first \subseteq milestone'[p].first
                             /\ "applicant" \in milestone'[p].first => "applicant" \in milestone[p].first
  PROVE  SyncInv'
<1>1. ASSUME NEW q \in Req
      PROVE  SyncAt(pc'[q], loc'[q], milestone', alerts', account', touched')
  <2>1. CASE pc'[q] \in SyncLabels
    <3>1. /\ SyncAt(pc[q], loc[q], milestone, alerts, account, touched)
          /\ pc'[q] = pc[q] /\ loc'[q] = loc[q] /\ SyncSession(pc[q], loc[q])
      BY <2>1 DEF SyncInv, SyncTyped
    <3>2. Left(pc[q], loc[q]) \subseteq Promoted
      BY DEF Left
    <3> HIDE DEF Left
    <3> QED BY <3>1, <3>2 DEF SyncAt, SyncSession
  <2>2. CASE pc'[q] \notin SyncLabels
    BY <2>2 DEF SyncAt, Left, SyncLabels
  <2> QED BY <2>1, <2>2
<1>2. \A q, r \in Req : pc'[q] \in SyncLabels /\ pc'[r] \in SyncLabels => q = r
  BY DEF SyncInv
<1>3. SentOnce(milestone', alerts')
  BY DEF SyncInv, SentOnce
<1>4. ASSUME "sync" \notin died', NEW p \in Promoted
      PROVE  \/ Sent(p, milestone', alerts')
             \/ \E r \in Req : p \in Unsent(pc'[r], loc'[r])
  <2>1. "sync" \notin died
    BY <1>4
  <2>2. CASE Sent(p, milestone, alerts)
    BY <2>2 DEF Sent
  <2>3. ASSUME NEW r \in Req, p \in Unsent(pc[r], loc[r]) PROVE p \in Unsent(pc'[r], loc'[r])
    BY <1>4, <2>3 DEF Unsent, SyncLabels
  <2> QED BY <2>1, <2>2, <2>3 DEF SyncInv
<1>5. ASSUME "sync" \notin died', NEW p \in Promoted \ touched'
      PROVE  \/ milestone'[p].count = account'[p]
             \/ \E r \in Req : p \in Left(pc'[r], loc'[r])
  <2>1. "sync" \notin died /\ p \in Promoted \ touched
    BY <1>5
  <2>2. CASE milestone[p].count = account[p]
    BY <1>5, <2>2
  <2>3. ASSUME NEW r \in Req, p \in Left(pc[r], loc[r]) PROVE p \in Left(pc'[r], loc'[r])
    BY <1>5, <2>3 DEF Left, SyncLabels
  <2> QED BY <2>1, <2>2, <2>3 DEF SyncInv
<1>6. SyncTyped'
  BY DEF SyncTyped
<1> QED BY <1>1, <1>2, <1>3, <1>4, <1>5, <1>6 DEF SyncInv

\* A step of the sync itself: it is the only one, and what it shows is all there is.
LEMMA SyncMoves ==
  ASSUME SyncInv, NEW r \in Req, Acts(r, ActivationLabels), SyncTables',
         SyncSession(pc'[r], loc'[r]),
         \A q \in Req \ {r} : pc[q] \notin SyncLabels, pc[r] \in SyncLabels \/ pc'[r] \in SyncLabels,
         SyncAt(pc'[r], loc'[r], milestone', alerts', account', touched'),
         SentOnce(milestone', alerts'),
         \A p \in Promoted :
             Sent(p, milestone, alerts) \/ p \in Unsent(pc[r], loc[r]) =>
                 Sent(p, milestone', alerts') \/ p \in Unsent(pc'[r], loc'[r]),
         \A p \in Promoted \ touched' :
             p \in touched \/ milestone[p].count = account[p] \/ p \in Left(pc[r], loc[r]) =>
                 milestone'[p].count = account'[p] \/ p \in Left(pc'[r], loc'[r])
  PROVE  SyncInv'
<1>1. \A q \in Req \ {r} : pc'[q] = pc[q] /\ loc'[q] = loc[q] /\ pc'[q] \notin SyncLabels
  BY DEF Acts
<1>2. \A q \in Req \ {r} : Left(pc[q], loc[q]) = {} /\ Unsent(pc[q], loc[q]) = {}
  BY DEF Left, Unsent, SyncLabels
<1>3. \A q \in Req : SyncSession(pc'[q], loc'[q])
  BY <1>1 DEF SyncInv, SyncTyped
<1>4. ASSUME NEW q \in Req \ {r}
      PROVE  SyncAt(pc'[q], loc'[q], milestone', alerts', account', touched')
  BY <1>1 DEF SyncAt, Left, SyncLabels
<1>5. died' = died
  BY DEF Acts
<1>6. ASSUME "sync" \notin died', NEW p \in Promoted
      PROVE  \/ Sent(p, milestone', alerts')
             \/ \E q \in Req : p \in Unsent(pc'[q], loc'[q])
  <2>1. Sent(p, milestone, alerts) \/ p \in Unsent(pc[r], loc[r])
    BY <1>2, <1>5, <1>6 DEF SyncInv
  <2> QED BY <2>1
<1>7. ASSUME "sync" \notin died', NEW p \in Promoted \ touched'
      PROVE  \/ milestone'[p].count = account'[p]
             \/ \E q \in Req : p \in Left(pc'[q], loc'[q])
  <2>1. p \in touched \/ milestone[p].count = account[p] \/ p \in Left(pc[r], loc[r])
    BY <1>2, <1>5, <1>7 DEF SyncInv
  <2> QED BY <2>1
<1>8. \A q, s \in Req : pc'[q] \in SyncLabels /\ pc'[s] \in SyncLabels => q = s
  BY <1>1
<1>9. SyncTyped'
  BY <1>3 DEF SyncTyped
<1> QED BY <1>4, <1>6, <1>7, <1>8, <1>9 DEF SyncInv

\* What a lead's row holds behind a commit.
LEMMA StoredRow ==
  ASSUME NEW row \in Milestones, NEW seen \in Milestones, NEW new \in Milestones
  PROVE  /\ Stored(row, seen, new) \in Milestones
         /\ Stored(row, seen, new).first = row.first \cup (new.first \ seen.first)
         /\ row.count = seen.count => Stored(row, seen, new).count = new.count
<1> DEFINE c == WrittenRow(row.count, seen.count, new.count)
           f == row.first \cup (new.first \ seen.first)
<1>1. row.count \in Counts /\ seen.count \in Counts /\ new.count \in Counts
      /\ row.first \subseteq Kind /\ new.first \subseteq Kind
  BY DEF Milestones
<1>2. c = [k \in Kind |-> Written(row.count[k], seen.count[k], new.count[k])]
  BY <1>1 DEF WrittenRow, Counts
<1>3. \A k \in Kind : Written(row.count[k], seen.count[k], new.count[k]) \in Nat
  BY <1>1 DEF Counts, Written
<1>4. c \in Counts
  BY <1>2, <1>3 DEF Counts
<1>5. row.count = seen.count => c = new.count
  <2> SUFFICES ASSUME row.count = seen.count PROVE c = new.count
    OBVIOUS
  <2>1. \A k \in Kind : Written(row.count[k], seen.count[k], new.count[k]) = new.count[k]
    BY DEF Written
  <2> QED BY <1>1, <1>2, <2>1 DEF Counts
<1> HIDE DEF c
<1>6. Stored(row, seen, new) = [count |-> c, first |-> f]
  BY DEF Stored, c
<1> QED BY <1>1, <1>4, <1>5, <1>6 DEF Milestones

\* Customers act, and their events tell of jobs.
LEMMA SyncTold ==
  ASSUME Desk, SyncInv, NEW r \in Req, Acts(r, ActivationLabels), JobEvent(r) \/ StoreJobs(r)
  PROVE  SyncInv'
<1>0. died' = died
  BY DEF Acts
<1>1. CASE JobEvent(r)
  <2>0. PICK p \in Promoted : \E n \in 1 .. account[p].job :
          Launch(r, "job_event", [op |-> "told", lead |-> p, row |-> milestone[p], jobs |-> n])
    BY <1>1 DEF JobEvent
  <2>1. PICK n \in 1 .. account[p].job :
          Launch(r, "job_event", [op |-> "told", lead |-> p, row |-> milestone[p], jobs |-> n])
    BY <2>0
  <2>2. /\ pc[r] = "idle" /\ pc'[r] = "job_event" /\ loc'[r].lead = p
        /\ loc'[r].row = milestone[p] /\ loc'[r].jobs = n
    BY <2>1 DEF Launch, Desk, Placed
  <2>3. touched \subseteq touched' /\ UNCHANGED <<account, milestone, alerts>>
    BY <1>1 DEF JobEvent
  <2>4. SyncSession(pc'[r], loc'[r])
    <3>1. milestone[p] \in Milestones /\ account[p] \in Counts
      BY DEF SyncInv, SyncTyped, SyncTables
    <3>2. account[p].job \in Nat
      BY <3>1 DEF Counts, Kind
    <3>3. n \in Nat
      BY <3>2
    <3> QED BY <2>2, <3>1, <3>3 DEF SyncSession, SyncLabels
  <2>5. \A q \in Req \ {r} : pc'[q] = pc[q] /\ loc'[q] = loc[q]
    BY DEF Acts
  <2>6. \A q \in Req : SyncSession(pc'[q], loc'[q])
    BY <2>4, <2>5 DEF SyncInv, SyncTyped
  <2>7. /\ \A q \in Req : pc'[q] \in SyncLabels => pc'[q] = pc[q] /\ loc'[q] = loc[q]
        /\ \A q \in Req : pc[q] \in SyncLabels => pc'[q] = pc[q] /\ loc'[q] = loc[q]
    BY <2>2, <2>5 DEF SyncLabels
  <2>8. SyncTables'
    BY <2>3 DEF SyncInv, SyncTyped, SyncTables
  <2> QED BY <1>0, <2>3, <2>6, <2>7, <2>8, SyncBeside
<1>2. CASE StoreJobs(r)
  <2> DEFINE p == loc[r].lead
             old == loc[r].row
             jobs == loc[r].jobs
             new == [count |-> [old.count EXCEPT !.job = jobs], first |-> old.first \cup {"job"}]
  <2>1. /\ pc[r] = "job_event" /\ pc'[r] \in Over /\ touched' = touched \cup {p}
        /\ milestone' = [milestone EXCEPT ![p] = Stored(@, old, new)]
        /\ UNCHANGED <<account, alerts>>
    BY <1>2 DEF StoreJobs, Finish, Goto, Desk, Placed, Over
  <2>2. p \in Promoted /\ old \in Milestones /\ jobs \in Nat
    BY <2>1 DEF SyncInv, SyncTyped, SyncSession
  <2>3. new \in Milestones /\ new.first = old.first \cup {"job"}
    BY <2>2 DEF Milestones, Counts, Kind
  <2> HIDE DEF new, p, old, jobs
  <2>4. milestone \in [Promoted -> Milestones] /\ milestone[p] \in Milestones
    BY <2>2 DEF SyncInv, SyncTyped, SyncTables
  <2> DEFINE row == Stored(milestone[p], old, new)
  <2>5. /\ row \in Milestones /\ milestone[p].first \subseteq row.first
        /\ row.first \subseteq milestone[p].first \cup {"job"}
    BY <2>2, <2>3, <2>4, StoredRow
  <2>6. milestone' = [milestone EXCEPT ![p] = row]
    BY <2>1
  <2> HIDE DEF row
  <2>7. /\ milestone' \in [Promoted -> Milestones]
        /\ milestone'[p] = row /\ \A q \in Promoted \ {p} : milestone'[q] = milestone[q]
    BY <2>2, <2>4, <2>5, <2>6
  <2>8. SyncTables'
    BY <2>1, <2>7 DEF SyncInv, SyncTyped, SyncTables
  <2>9. \A q \in Req \ {r} : pc'[q] = pc[q] /\ loc'[q] = loc[q]
    BY DEF Acts
  <2>10. SyncSession(pc'[r], loc'[r])
    BY <2>1 DEF SyncSession, SyncLabels, Over
  <2>11. \A q \in Req : SyncSession(pc'[q], loc'[q])
    BY <2>9, <2>10 DEF SyncInv, SyncTyped
  <2>12. /\ \A q \in Req : pc'[q] \in SyncLabels => pc'[q] = pc[q] /\ loc'[q] = loc[q]
         /\ \A q \in Req : pc[q] \in SyncLabels => pc'[q] = pc[q] /\ loc'[q] = loc[q]
    BY <2>1, <2>9 DEF SyncLabels, Over
  <2>13. \A q \in Promoted : /\ milestone[q].first \subseteq milestone'[q].first
                             /\ "applicant" \in milestone'[q].first =>
                                   "applicant" \in milestone[q].first
    BY <2>5, <2>7
  <2>14. \A q \in Promoted \ touched' :
            milestone'[q].count = milestone[q].count /\ account'[q] = account[q]
    BY <2>1, <2>7
  <2> QED BY <1>0, <2>1, <2>8, <2>11, <2>12, <2>13, <2>14, SyncBeside
<1> QED BY <1>1, <1>2

\* An account on HH-BE grows.
LEMMA SyncGrown ==
  ASSUME SyncInv, Grow
  PROVE  SyncInv'
<1>1. PICK p \in Promoted, k \in Kind :
        /\ account' = [account EXCEPT ![p][k] = @ + 1]
        /\ touched' = touched \cup {p}
        /\ UNCHANGED <<desk, milestone, alerts>>
  BY Zenon DEF Grow
<1>2. account \in [Promoted -> Counts] /\ account[p] \in Counts
  BY DEF SyncInv, SyncTyped, SyncTables
<1>3. [account[p] EXCEPT ![k] = @ + 1] \in Counts
  BY <1>2 DEF Counts
<1>4. /\ account' \in [Promoted -> Counts]
      /\ \A q \in Promoted \ {p} : account'[q] = account[q]
  BY <1>1, <1>2, <1>3
<1>5. pc' = pc /\ loc' = loc /\ died' = died /\ milestone' = milestone /\ alerts' = alerts
  BY <1>1 DEF desk
<1>6. SyncTables' /\ \A q \in Req : SyncSession(pc'[q], loc'[q])
  BY <1>4, <1>5 DEF SyncInv, SyncTyped, SyncTables
<1> QED BY <1>1, <1>4, <1>5, <1>6, SyncBeside

\* The other components do not touch leads.
LEMMA SyncElsewhere ==
  ASSUME Desk, SyncInv, UNCHANGED activationVars, Elsewhere(ActivationLabels)
  PROVE  SyncInv'
<1>1. /\ account' = account /\ milestone' = milestone /\ alerts' = alerts /\ touched' = touched
      /\ died \subseteq died'
  BY DEF activationVars, Elsewhere
<1>2. SyncLabels \cup {"job_event"} = ActivationLabels
  BY DEF SyncLabels, ActivationLabels
<1>3. \A q \in Req : pc[q] \in SyncLabels => loc[q].op = "sync"
  BY DEF SyncLabels, Desk, ActivationKinds, ActivationKind
<1>4. /\ \A q \in Req : pc'[q] \in SyncLabels => pc'[q] = pc[q] /\ loc'[q] = loc[q]
      /\ \A q \in Req : pc[q] \in SyncLabels =>
             \/ pc'[q] = pc[q] /\ loc'[q] = loc[q]
             \/ "sync" \in died'
  BY <1>2, <1>3 DEF Elsewhere
<1>5. ASSUME NEW q \in Req PROVE SyncSession(pc'[q], loc'[q])
  <2>1. CASE pc'[q] \in ActivationLabels
    BY <2>1 DEF Elsewhere, SyncInv, SyncTyped
  <2>2. CASE pc'[q] \notin ActivationLabels
    BY <1>2, <2>2 DEF SyncSession, SyncLabels
  <2> QED BY <2>1, <2>2
<1>6. SyncTables'
  BY <1>1 DEF SyncInv, SyncTyped, SyncTables
<1> QED BY <1>1, <1>4, <1>5, <1>6, SyncBeside

\* A sync begins when no other is under way, with everything as it stands.
LEMMA SyncBegins ==
  ASSUME Desk, Somewhere, SyncInv, NEW r \in Req, Acts(r, ActivationLabels), StartSync(r)
  PROVE  SyncInv'
<1>1. /\ pc[r] = "idle" /\ pc'[r] = "poll" /\ loc'[r].rows = milestone /\ loc'[r].todo = Promoted
      /\ \A q \in Req : ~Syncs(q)
      /\ UNCHANGED <<account, milestone, alerts>>
  BY DEF StartSync, Launch, Desk, Placed
<1>2. \A q \in Req : pc[q] \notin SyncLabels
  BY <1>1 DEF Syncs, Active, Over, Desk, ActivationKinds, ActivationKind, SyncLabels
<1>3. SyncTables'
  BY <1>1 DEF SyncInv, SyncTyped, SyncTables
<1>4. SyncSession(pc'[r], loc'[r])
  BY <1>1 DEF SyncSession, SyncInv, SyncTyped, SyncTables
<1>5. Left(pc'[r], loc'[r]) = Promoted
  BY <1>1 DEF Left, SyncLabels
<1>6. SyncAt(pc'[r], loc'[r], milestone', alerts', account', touched')
  BY <1>1, <1>5 DEF SyncAt, SyncInv, SentOnce
<1>7. SentOnce(milestone', alerts')
  BY <1>1 DEF SyncInv
<1>8. \A p \in Promoted :
         Sent(p, milestone, alerts) \/ p \in Unsent(pc[r], loc[r]) =>
             Sent(p, milestone', alerts') \/ p \in Unsent(pc'[r], loc'[r])
  BY <1>1 DEF Unsent, Sent
<1>9. pc'[r] \in SyncLabels
  BY <1>1 DEF SyncLabels
<1> QED BY <1>2, <1>3, <1>4, <1>5, <1>6, <1>7, <1>8, <1>9, SyncMoves

\* What a session holds of what it held and of what is set.
LEMMA WithSet ==
  ASSUME NEW l, NEW set
  PROVE  /\ \A f \in DOMAIN set : With(l, set)[f] = set[f]
         /\ \A f \in DOMAIN l \ DOMAIN set : With(l, set)[f] = l[f]
BY DEF With

\* HH-BE answers, or the lead is passed over.
LEMMA SyncPolls ==
  ASSUME Desk, SyncInv, NEW r \in Req, Acts(r, ActivationLabels), Poll(r)
  PROVE  SyncInv'
<1> DEFINE l == loc[r]
<1>1. pc[r] = "poll" /\ UNCHANGED <<account, milestone, alerts>>
  BY DEF Poll
<1>2. PICK p \in l.todo :
        LET left == [l EXCEPT !.todo = @ \ {p}] IN
        \/ Goto(r, "poll", left) /\ touched' = touched \cup {p}
        \/ Goto(r, "store", With(left, [lead |-> p, got |-> account[p]])) /\ UNCHANGED touched
  BY DEF Poll
<1> DEFINE left == [l EXCEPT !.todo = @ \ {p}]
           set == [lead |-> p, got |-> account[p]]
<1>3. DOMAIN l = {"op", "rows", "todo"}
  BY <1>1 DEF Desk, ActivationKinds, ActivationKind
<1>4. DOMAIN left = {"op", "rows", "todo"} /\ left.rows = l.rows /\ left.todo = l.todo \ {p}
  BY <1>3
<1>5. /\ l.rows \in [Promoted -> Milestones] /\ l.todo \subseteq Promoted /\ p \in Promoted
      /\ account[p] \in Counts
  BY <1>1, <1>2 DEF SyncInv, SyncTyped, SyncSession, SyncLabels, SyncTables
<1>6. DOMAIN set = {"lead", "got"} /\ set.lead = p /\ set.got = account[p]
  OBVIOUS
<1>7. \/ /\ pc'[r] = "poll" /\ loc'[r] = left /\ touched' = touched \cup {p}
      \/ /\ pc'[r] = "store" /\ loc'[r] = With(left, set) /\ touched' = touched
  BY <1>2 DEF Goto, Desk, Placed
<1> HIDE DEF left, set
<1>8. /\ With(left, set).rows = l.rows /\ With(left, set).todo = l.todo \ {p}
      /\ With(left, set).lead = p /\ With(left, set).got = account[p]
  BY <1>4, <1>6, WithSet
<1>9. /\ loc'[r].rows = l.rows /\ loc'[r].todo = l.todo \ {p}
      /\ pc'[r] = "store" => loc'[r].lead = p /\ loc'[r].got = account[p]
  BY <1>4, <1>7, <1>8
<1>10. pc'[r] \in {"poll", "store"}
  BY <1>7
<1>11. Left(pc[r], loc[r]) = l.todo /\ Left(pc'[r], loc'[r]) \subseteq l.todo
  BY <1>1, <1>2, <1>5, <1>9 DEF Left, SyncLabels
<1>12. \A q \in l.todo \ touched' : q \in Left(pc'[r], loc'[r])
  BY <1>5, <1>7, <1>9, <1>10 DEF Left, SyncLabels
<1>13. SyncTables'
  BY <1>1 DEF SyncInv, SyncTyped, SyncTables
<1>14. SyncSession(pc'[r], loc'[r])
  BY <1>5, <1>9, <1>10 DEF SyncSession, SyncLabels
<1>15. SyncAt(pc'[r], loc'[r], milestone', alerts', account', touched')
  <2>1. SyncAt(pc[r], loc[r], milestone, alerts, account, touched)
    BY DEF SyncInv
  <2>2. touched \subseteq touched'
    BY <1>7
  <2> QED BY <1>1, <1>9, <1>10, <1>11, <2>1, <2>2 DEF SyncAt
<1>16. SentOnce(milestone', alerts')
  BY <1>1 DEF SyncInv
<1>17. \A q \in Promoted :
          Sent(q, milestone, alerts) \/ q \in Unsent(pc[r], loc[r]) =>
              Sent(q, milestone', alerts') \/ q \in Unsent(pc'[r], loc'[r])
  BY <1>1 DEF Unsent, Sent
<1>18. \A q \in Promoted \ touched' :
          q \in touched \/ milestone[q].count = account[q] \/ q \in Left(pc[r], loc[r]) =>
              milestone'[q].count = account'[q] \/ q \in Left(pc'[r], loc'[r])
  BY <1>1, <1>7, <1>11, <1>12
<1>19. pc[r] \in SyncLabels /\ \A q \in Req \ {r} : pc[q] \notin SyncLabels
  BY <1>1 DEF SyncLabels, SyncInv
<1> QED BY <1>13, <1>14, <1>15, <1>16, <1>17, <1>18, <1>19, SyncMoves

\* The commit of what a lead lacks and of what differs.
LEMMA SyncStores ==
  ASSUME Desk, SyncInv, NEW r \in Req, Acts(r, ActivationLabels), Store(r)
  PROVE  SyncInv'
<1> DEFINE p == loc[r].lead
           old == loc[r].rows[p]
           got == loc[r].got
           rows == loc[r].rows
           todo == loc[r].todo
           new == [count |-> got, first |-> old.first \cup {k \in Kind : got[k] > 0}]
           news == new.first \ old.first
           set == [lead |-> p, news |-> news]
<1>1. /\ pc[r] = "store" /\ UNCHANGED <<account, alerts, touched>>
      /\ milestone' = [milestone EXCEPT ![p] = Stored(@, old, new)]
      /\ IF news = {} THEN Goto(r, "poll", Onward(r)) ELSE Goto(r, "alert", With(Onward(r), set))
  BY DEF Store
<1>2. /\ rows \in [Promoted -> Milestones] /\ todo \subseteq Promoted
      /\ p \in Promoted \ todo /\ got \in Counts
  BY <1>1 DEF SyncInv, SyncTyped, SyncSession, SyncLabels
<1>3. old \in Milestones
  BY <1>2
<1>4. /\ new \in Milestones /\ new.count = got /\ news \subseteq Kind
      /\ new.first \ old.first = news
  BY <1>2, <1>3 DEF Milestones
<1>5. /\ pc'[r] \in {"poll", "alert"} /\ loc'[r].rows = rows /\ loc'[r].todo = todo
      /\ pc'[r] = "poll" => news = {}
      /\ pc'[r] = "alert" => loc'[r].lead = p /\ loc'[r].news = news
  <2>1. DOMAIN set = {"lead", "news"} /\ set.lead = p /\ set.news = news
    OBVIOUS
  <2>2. /\ DOMAIN Onward(r) = {"op", "rows", "todo"}
        /\ Onward(r).rows = rows /\ Onward(r).todo = todo
    BY DEF Onward
  <2> HIDE DEF set
  <2>3. /\ With(Onward(r), set).rows = rows /\ With(Onward(r), set).todo = todo
        /\ With(Onward(r), set).lead = p /\ With(Onward(r), set).news = news
    BY <2>1, <2>2, WithSet
  <2>4. \/ news = {} /\ pc'[r] = "poll" /\ loc'[r] = Onward(r)
        \/ pc'[r] = "alert" /\ loc'[r] = With(Onward(r), set)
    BY <1>1 DEF Goto, Desk, Placed
  <2> HIDE DEF news
  <2> QED BY <2>2, <2>3, <2>4
<1> HIDE DEF new, news, old, set
<1>6. milestone \in [Promoted -> Milestones] /\ milestone[p] \in Milestones
  BY <1>2 DEF SyncInv, SyncTyped, SyncTables
<1> DEFINE row == Stored(milestone[p], old, new)
<1>7. /\ row \in Milestones /\ row.first = milestone[p].first \cup news
      /\ milestone[p].count = old.count => row.count = got
  BY <1>3, <1>4, <1>6, StoredRow
<1>8. milestone' = [milestone EXCEPT ![p] = row]
  BY <1>1
<1> HIDE DEF row
<1>9. /\ milestone' \in [Promoted -> Milestones]
      /\ milestone'[p] = row /\ \A q \in Promoted \ {p} : milestone'[q] = milestone[q]
  BY <1>2, <1>6, <1>7, <1>8
<1> HIDE DEF p, got, rows, todo
<1>10. Left(pc[r], loc[r]) = todo \cup {p} /\ Left(pc'[r], loc'[r]) = todo
  BY <1>1, <1>2, <1>5 DEF Left, SyncLabels, todo, p
<1>11. /\ \A q \in todo \cup {p} : \A k \in Kind : alerts[q][k] = 1 => k \in rows[q].first
       /\ \A q \in (todo \cup {p}) \ touched : rows[q].count = milestone[q].count
       /\ p \notin touched => got = account[p]
  BY <1>1, <1>10 DEF SyncInv, SyncAt, rows, got, p
<1>12. old = rows[p] /\ \A k \in news : k \notin old.first
  BY <1>4 DEF old, rows, p, news
<1>13. SyncTables'
  BY <1>1, <1>9 DEF SyncInv, SyncTyped, SyncTables
<1>14. SyncSession(pc'[r], loc'[r])
  BY <1>2, <1>4, <1>5 DEF SyncSession, SyncLabels
<1>15. SyncAt(pc'[r], loc'[r], milestone', alerts', account', touched')
  <2>1. \A k \in news : alerts[p][k] = 0 /\ k \in milestone'[p].first
    <3>1. \A k \in news : k \in Kind /\ alerts[p][k] \in {0, 1} /\ alerts[p][k] # 1
      BY <1>2, <1>4, <1>11, <1>12 DEF SyncInv, SentOnce
    <3> QED BY <1>7, <1>9, <3>1
  <2>2. \A q \in todo \ touched : rows[q].count = milestone'[q].count
    BY <1>2, <1>9, <1>11
  <2> QED BY <1>1, <1>5, <1>10, <1>11, <2>1, <2>2 DEF SyncAt
<1>16. SentOnce(milestone', alerts')
  BY <1>1, <1>7, <1>9 DEF SyncInv, SentOnce
<1>17. \A q \in Promoted :
          Sent(q, milestone, alerts) \/ q \in Unsent(pc[r], loc[r]) =>
              Sent(q, milestone', alerts') \/ q \in Unsent(pc'[r], loc'[r])
  <2>1. Unsent(pc[r], loc[r]) = {}
    BY <1>1 DEF Unsent
  <2>2. "applicant" \in news => p \in Unsent(pc'[r], loc'[r])
    BY <1>2, <1>5 DEF Unsent
  <2>3. "applicant" \notin news => (Sent(p, milestone, alerts) => Sent(p, milestone', alerts'))
    BY <1>1, <1>7, <1>9 DEF Sent
  <2>4. \A q \in Promoted \ {p} : Sent(q, milestone, alerts) => Sent(q, milestone', alerts')
    BY <1>1, <1>9 DEF Sent
  <2> QED BY <2>1, <2>2, <2>3, <2>4
<1>18. \A q \in Promoted \ touched' :
          q \in touched \/ milestone[q].count = account[q] \/ q \in Left(pc[r], loc[r]) =>
              milestone'[q].count = account'[q] \/ q \in Left(pc'[r], loc'[r])
  <2>1. p \notin touched => milestone'[p].count = account[p]
    BY <1>7, <1>9, <1>11, <1>12
  <2> QED BY <1>1, <1>9, <1>10, <2>1
<1>19. pc[r] \in SyncLabels /\ \A q \in Req \ {r} : pc[q] \notin SyncLabels
  BY <1>1 DEF SyncLabels, SyncInv
<1> QED BY <1>13, <1>14, <1>15, <1>16, <1>17, <1>18, <1>19, SyncMoves

\* The alerts behind the commit.
LEMMA SyncAlerts ==
  ASSUME Desk, SyncInv, NEW r \in Req, Acts(r, ActivationLabels), Alert(r)
  PROVE  SyncInv'
<1> DEFINE p == loc[r].lead
           news == loc[r].news
           rows == loc[r].rows
           todo == loc[r].todo
           more == [k \in Kind |-> IF k \in news THEN alerts[p][k] + 1 ELSE alerts[p][k]]
<1>1. /\ pc[r] = "alert" /\ UNCHANGED <<account, milestone, touched>>
      /\ alerts' = [alerts EXCEPT ![p] =
                       [k \in Kind |-> IF k \in news THEN @[k] + 1 ELSE @[k]]]
      /\ Goto(r, "poll", Onward(r))
  BY DEF Alert
<1>2. /\ rows \in [Promoted -> Milestones] /\ todo \subseteq Promoted
      /\ p \in Promoted \ todo /\ news \subseteq Kind
  BY <1>1 DEF SyncInv, SyncTyped, SyncSession, SyncLabels
<1>3. alerts \in [Promoted -> Counts] /\ alerts[p] \in Counts
  BY <1>2 DEF SyncInv, SyncTyped, SyncTables
<1>4. alerts' = [alerts EXCEPT ![p] = more]
  BY <1>1, <1>2, <1>3
<1>5. more \in Counts /\ \A k \in Kind : more[k] = IF k \in news THEN alerts[p][k] + 1 ELSE alerts[p][k]
  BY <1>3 DEF Counts
<1> HIDE DEF more
<1>6. /\ alerts' \in [Promoted -> Counts] /\ alerts'[p] = more
      /\ \A q \in Promoted \ {p} : alerts'[q] = alerts[q]
  BY <1>2, <1>3, <1>4, <1>5
<1>7. pc'[r] = "poll" /\ loc'[r].rows = rows /\ loc'[r].todo = todo
  BY <1>1 DEF Goto, Onward, Desk, Placed
<1> HIDE DEF p, news, rows, todo
<1>8. Left(pc[r], loc[r]) = todo /\ Left(pc'[r], loc'[r]) = todo
  BY <1>1, <1>2, <1>7 DEF Left, SyncLabels, todo
<1>9. /\ \A q \in todo : \A k \in Kind : alerts[q][k] = 1 => k \in rows[q].first
      /\ \A q \in todo \ touched : rows[q].count = milestone[q].count
      /\ \A k \in news : alerts[p][k] = 0 /\ k \in milestone[p].first
  BY <1>1, <1>8 DEF SyncInv, SyncAt, rows, news, p
<1>10. SyncTables'
  BY <1>1, <1>6 DEF SyncInv, SyncTyped, SyncTables
<1>11. SyncSession(pc'[r], loc'[r])
  BY <1>2, <1>7 DEF SyncSession, SyncLabels
<1>12. SyncAt(pc'[r], loc'[r], milestone', alerts', account', touched')
  BY <1>1, <1>2, <1>6, <1>7, <1>8, <1>9 DEF SyncAt
<1>13. SentOnce(milestone', alerts')
  <2>1. SentOnce(milestone, alerts)
    BY DEF SyncInv
  <2>2. \A k \in Kind : more[k] \in {0, 1} /\ (more[k] = 1 => k \in milestone[p].first)
    BY <1>2, <1>5, <1>9, <2>1 DEF SentOnce
  <2> QED BY <1>1, <1>6, <2>1, <2>2 DEF SentOnce
<1>14. \A q \in Promoted :
          Sent(q, milestone, alerts) \/ q \in Unsent(pc[r], loc[r]) =>
              Sent(q, milestone', alerts') \/ q \in Unsent(pc'[r], loc'[r])
  <2>1. "applicant" \in Kind
    BY DEF Kind
  <2>2. "applicant" \in news => Sent(p, milestone', alerts')
    BY <1>1, <1>5, <1>6, <1>9, <2>1 DEF Sent
  <2>3. "applicant" \notin news => (Sent(p, milestone, alerts) => Sent(p, milestone', alerts'))
    BY <1>1, <1>5, <1>6, <2>1 DEF Sent
  <2>4. \A q \in Promoted \ {p} : Sent(q, milestone, alerts) => Sent(q, milestone', alerts')
    BY <1>1, <1>6 DEF Sent
  <2>5. \A q \in Unsent(pc[r], loc[r]) : q = p /\ "applicant" \in news
    BY DEF Unsent, p, news
  <2> QED BY <2>2, <2>3, <2>4, <2>5
<1>15. \A q \in Promoted \ touched' :
          q \in touched \/ milestone[q].count = account[q] \/ q \in Left(pc[r], loc[r]) =>
              milestone'[q].count = account'[q] \/ q \in Left(pc'[r], loc'[r])
  BY <1>1, <1>8
<1>16. pc[r] \in SyncLabels /\ \A q \in Req \ {r} : pc[q] \notin SyncLabels
  BY <1>1 DEF SyncLabels, SyncInv
<1> QED BY <1>10, <1>11, <1>12, <1>13, <1>14, <1>15, <1>16, SyncMoves

\* A sync that has no lead left ends.
LEMMA SyncEnds ==
  ASSUME Desk, SyncInv, NEW r \in Req, Acts(r, ActivationLabels), Synced(r)
  PROVE  SyncInv'
<1>1. /\ pc[r] = "poll" /\ loc[r].todo = {} /\ UNCHANGED <<account, milestone, alerts, touched>>
      /\ pc'[r] \in Over
  BY DEF Synced, activationVars, Finish, Goto, Desk, Placed, Over
<1>2. SyncTables'
  BY <1>1 DEF SyncInv, SyncTyped, SyncTables
<1>3. SyncSession(pc'[r], loc'[r])
  BY <1>1 DEF SyncSession, SyncLabels, Over
<1>4. Left(pc[r], loc[r]) = {} /\ Left(pc'[r], loc'[r]) = {} /\ Unsent(pc[r], loc[r]) = {}
  BY <1>1 DEF Left, Unsent, SyncLabels, Over
<1>5. SyncAt(pc'[r], loc'[r], milestone', alerts', account', touched')
  BY <1>1, <1>4 DEF SyncAt, Over
<1>6. SentOnce(milestone', alerts')
  BY <1>1 DEF SyncInv
<1>7. \A p \in Promoted :
         Sent(p, milestone, alerts) \/ p \in Unsent(pc[r], loc[r]) =>
             Sent(p, milestone', alerts') \/ p \in Unsent(pc'[r], loc'[r])
  BY <1>1, <1>4 DEF Sent
<1>8. \A p \in Promoted \ touched' :
         p \in touched \/ milestone[p].count = account[p] \/ p \in Left(pc[r], loc[r]) =>
             milestone'[p].count = account'[p] \/ p \in Left(pc'[r], loc'[r])
  BY <1>1, <1>4
<1>9. pc[r] \in SyncLabels /\ \A q \in Req \ {r} : pc[q] \notin SyncLabels
  BY <1>1 DEF SyncLabels, SyncInv
<1> QED BY <1>2, <1>3, <1>5, <1>6, <1>7, <1>8, <1>9, SyncMoves

\* Nothing is promoted yet.
LEMMA SyncStarts == Init => SyncInv
<1> SUFFICES ASSUME Init PROVE SyncInv
  OBVIOUS
<1>1. /\ account = [p \in Promoted |-> Nothing] /\ alerts = [p \in Promoted |-> Nothing]
      /\ milestone = [p \in Promoted |-> [count |-> Nothing, first |-> {}]]
      /\ \A r \in Req : pc[r] = "idle"
  BY DEF Init, ActivationInit, DeskInit
<1>2. Nothing \in Counts /\ \A k \in Kind : Nothing[k] = 0
  BY DEF Nothing, Counts, Kind
<1>3. SyncTables
  BY <1>1, <1>2 DEF SyncTables, Milestones
<1>4. \A p \in Promoted : /\ alerts[p] = Nothing /\ account[p] = Nothing
                          /\ milestone[p].count = Nothing /\ milestone[p].first = {}
  BY <1>1
<1>5. SentOnce(milestone, alerts) /\ \A p \in Promoted : Sent(p, milestone, alerts)
  BY <1>2, <1>4 DEF SentOnce, Sent, Kind
<1>6. \A r \in Req : /\ SyncSession(pc[r], loc[r])
                     /\ SyncAt(pc[r], loc[r], milestone, alerts, account, touched)
  BY <1>1 DEF SyncSession, SyncAt, SyncLabels, Left
<1>7. SyncTyped
  BY <1>3, <1>6 DEF SyncTyped
<1> QED BY <1>1, <1>4, <1>5, <1>6, <1>7 DEF SyncInv, SyncLabels

\* The first job or applicant of a lead is alerted once at most, and a sync that did not
\* die alerts every applicant it stamps and leaves the counts that HH-BE told.
THEOREM SyncSettlesHolds == Spec => []SyncSettles
<1> DEFINE Inv == Desk /\ Somewhere /\ SyncInv
<1>1. Init => Inv
  BY DeskStarts, HeatStarts, SyncStarts
<1>2. Inv /\ [Next]_vars => Inv'
  <2> SUFFICES ASSUME Inv, [Next]_vars PROVE Inv'
    OBVIOUS
  <2>1. Desk' /\ Somewhere' /\ ActivationStep
    BY Steps, SomewhereKept
  <2>2. ASSUME NEW r \in Req, ActivationNext(r), Acts(r, ActivationLabels) PROVE SyncInv'
    <3>1. CASE JobEvent(r) \/ StoreJobs(r)
      BY <2>2, <3>1, SyncTold
    <3>2. CASE StartSync(r)
      BY <2>2, <3>2, SyncBegins
    <3>3. CASE Poll(r)
      BY <2>2, <3>3, SyncPolls
    <3>4. CASE Store(r)
      BY <2>2, <3>4, SyncStores
    <3>5. CASE Alert(r)
      BY <2>2, <3>5, SyncAlerts
    <3>6. CASE Synced(r)
      BY <2>2, <3>6, SyncEnds
    <3> QED BY <2>2, <3>1, <3>2, <3>3, <3>4, <3>5, <3>6 DEF ActivationNext
  <2> QED BY <2>1, <2>2, SyncGrown, SyncElsewhere DEF ActivationStep
<1>3. Inv => SyncSettles
  <2> SUFFICES ASSUME Inv, NEW p \in Promoted
               PROVE  /\ \A k \in Kind : alerts[p][k] <= 1
                      /\ "sync" \notin died /\ (\A r \in Req : ~Syncs(r)) =>
                            /\ "applicant" \in milestone[p].first <=> alerts[p].applicant = 1
                            /\ p \notin touched => milestone[p].count = account[p]
    BY DEF SyncSettles
  <2>1. \A k \in Kind : alerts[p][k] <= 1
    BY DEF SyncInv, SentOnce
  <2>2. ASSUME "sync" \notin died, \A r \in Req : ~Syncs(r)
        PROVE  /\ "applicant" \in milestone[p].first <=> alerts[p].applicant = 1
               /\ p \notin touched => milestone[p].count = account[p]
    <3>1. \A r \in Req : pc[r] \notin SyncLabels
      BY <2>2 DEF Syncs, Active, Over, Desk, ActivationKinds, ActivationKind, SyncLabels
    <3>2. \A r \in Req : p \notin Unsent(pc[r], loc[r]) /\ p \notin Left(pc[r], loc[r])
      BY <3>1 DEF Unsent, Left, SyncLabels
    <3> QED BY <2>2, <3>2 DEF SyncInv, Sent
  <2> QED BY <2>1, <2>2
<1> QED BY <1>1, <1>2, <1>3, PTL DEF Spec
=============================================================================
