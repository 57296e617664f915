----------------------------- MODULE HeatBoard -----------------------------
(***************************************************************************)
(* The heat of leads.  Campaign events are the record, the score and level *)
(* on the prospect are raised beside it by the routes that log an event or *)
(* a reply, and once an hour heat_recalc computes them anew from the       *)
(* events.                                                                 *)
(*                                                                         *)
(* The events of a lead are the sum of their points.  Campaigns, the text  *)
(* of replies (which a keyword rule sorts into positive and negative),     *)
(* touch times, stage history and audit rows are left out.                 *)
(***************************************************************************)
EXTENDS Sessions

CONSTANTS
    Warm,         \* live leads
    Gone,         \* deleted leads, which events may still name
    Reply,        \* ids of replies, handed out in increasing order
    EventKinds    \* bound: the kinds of events that are logged

\* Arch-21, once in ProspectCRUD and once in heat_recalc.
Points == [open |-> 1, click |-> 2, visit |-> 3, positive |-> 5, negative |-> 0,
           demo |-> 0, unsubscribed |-> 0, sent |-> 0]
Bucket(score) == IF score >= 8 THEN 2 ELSE IF score >= 3 THEN 1 ELSE 0

ASSUME HeatAssumption ==
    /\ Reply \subseteq Nat /\ None \notin Warm \cup Gone
    /\ IsFiniteSet(Warm) /\ Warm \cap Gone = {}
    /\ EventKinds \subseteq DOMAIN Points

VARIABLES
    heat,         \* score, level, stage and demo of each live lead
    points,       \* the points of a lead's campaign_events
    reply,        \* email_replies: whose it is and how it is classified
    calm          \* history: "yes" while a recalculation stands for all there was,
                  \* "pending" while it is under way

heatVars == <<heat, points, reply, calm>>

Cool == [score |-> 0, level |-> 0, stage |-> "cold", booked |-> FALSE]
NoReply == [lead |-> None, class |-> "positive"]

HeatInit ==
    /\ heat = [p \in Warm |-> Cool]
    /\ points = [p \in Warm \cup Gone |-> 0]
    /\ reply = [i \in Reply |-> NoReply]
    /\ calm = "no"

\* Requests that raise the heat, and the worker's job.
Heaters == {"event", "reply", "sort"}
Recalculates(r) == r \in Active /\ loc[r].op = "recalc"
Heats(r) == r \in Active /\ loc[r].op \in Heaters

SaveHeat(r, new) == heat' = [heat EXCEPT ![loc[r].lead] = WrittenRow(@, loc[r].row, new)]
HeatRequest(r, label, session) ==
    Launch(r, label, session) /\ calm' = "no" /\ UNCHANGED <<heat, points, reply>>

-----------------------------------------------------------------------------
(***************************************************************************)
(* POST /api/campaigns/events                                              *)
(***************************************************************************)
LogEvent(r) ==
    \E p \in Warm \cup Gone, kind \in EventKinds :
        HeatRequest(r, "event", [op |-> "event", lead |-> p, kind |-> kind])

\* What an event has to change on the lead that the refresh's snapshot shows.
Effect(p, kind) ==
    IF p \in Gone THEN "none"
    ELSE IF Points[kind] > 0 THEN "heat"
    ELSE IF kind = "demo" /\ ~heat[p].booked THEN "demo"
    ELSE IF kind = "unsubscribed" THEN "unsubscribe" ELSE "none"

CommitEvent(r) ==
    LET p == loc[r].lead
        kind == loc[r].kind
        effect == Effect(p, kind)
    IN /\ pc[r] = "event"
       /\ points' = [points EXCEPT ![p] = @ + Points[kind]]
       /\ \/ effect = "none" /\ Finish(r)
          \/ effect # "none" /\ Goto(r, effect, With(loc[r], [row |-> heat[p]]))
       /\ UNCHANGED <<heat, reply, calm>>

\* apply_heat_event, from the loaded score.  A reply logs its event behind it.
ApplyHeat(r) ==
    LET score == loc[r].row.score + Points[loc[r].kind] IN
    /\ pc[r] = "heat"
    /\ SaveHeat(r, [loc[r].row EXCEPT !.score = score, !.level = Bucket(score)])
    /\ IF loc[r].op = "event" THEN Finish(r) ELSE Goto(r, "reply_event", loc[r])
    /\ UNCHANGED <<points, reply, calm>>

\* set_demo_booked and change_stage
ApplyEvent(r) ==
    /\ \/ pc[r] = "demo" /\ SaveHeat(r, [loc[r].row EXCEPT !.booked = TRUE])
       \/ pc[r] = "unsubscribe" /\ SaveHeat(r, [loc[r].row EXCEPT !.stage = "unsubscribed"])
    /\ Finish(r)
    /\ UNCHANGED <<points, reply, calm>>

-----------------------------------------------------------------------------
(***************************************************************************)
(* POST /api/email-replies and /{id}/reclassify                            *)
(***************************************************************************)
Classes == {"positive", "negative"}

RecordReply(r) ==
    \E p \in Warm \cup Gone, class \in Classes :
        HeatRequest(r, "reply", [op |-> "reply", lead |-> p, kind |-> class])

Reclassify(r) ==
    \E i \in Reply, class \in Classes :
        /\ reply[i].lead # None
        /\ HeatRequest(r, "sort",
                       [op |-> "sort", lead |-> reply[i].lead, kind |-> class, id |-> i])

\* The reply's commit, and the lead as its refresh's snapshot shows it: a positive
\* reply heats it, however often it is classified so.
CommitReply(r) ==
    LET p == loc[r].lead
        class == loc[r].kind
        unused == {n \in Reply : reply[n].lead = None}
        i == IF loc[r].op = "sort" THEN loc[r].id ELSE Min(unused)
    IN /\ pc[r] \in {"reply", "sort"} /\ (pc[r] = "reply" => unused # {})
       /\ reply' = [reply EXCEPT ![i] = [lead |-> p, class |-> class]]
       /\ \/ p \in Gone /\ Finish(r)
          \/ p \in Warm /\ class = "positive" /\ Goto(r, "heat", With(loc[r], [row |-> heat[p]]))
          \/ p \in Warm /\ class = "negative" /\ Goto(r, "reply_event", loc[r])
       /\ UNCHANGED <<heat, points, calm>>

\* The campaign event of the reply.
LogReply(r) ==
    /\ pc[r] = "reply_event"
    /\ points' = [points EXCEPT ![loc[r].lead] = @ + Points[loc[r].kind]]
    /\ Finish(r)
    /\ UNCHANGED <<heat, reply, calm>>

-----------------------------------------------------------------------------
(***************************************************************************)
(* heat_recalc.  The queue runs a cron job once at a time.                 *)
(***************************************************************************)
Recalc(r) ==
    /\ \A q \in Req : ~Recalculates(q)
    /\ Launch(r, "recalc", [op |-> "recalc", heat |-> heat, points |-> points])
    /\ calm' = IF \E q \in Req : Heats(q) THEN calm ELSE "pending"
    /\ UNCHANGED <<heat, points, reply>>

\* Mutant: only leads with events are visited.
CommitRecalcEvents(r) ==
    LET seen == loc[r].heat
        score(p) == loc[r].points[p]
    IN /\ pc[r] = "recalc"
       /\ heat' = [p \in Warm |->
             IF score(p) = 0 \/ (seen[p].score = score(p) /\ seen[p].level = Bucket(score(p)))
             THEN heat[p]
             ELSE [heat[p] EXCEPT !.score = score(p), !.level = Bucket(score(p))]]
       /\ calm' = IF calm = "pending" THEN "yes" ELSE calm
       /\ Finish(r)
       /\ UNCHANGED <<points, reply>>

\* One commit: both columns of every lead that differed in the snapshot.
CommitRecalc(r) ==
    LET seen == loc[r].heat
        score(p) == loc[r].points[p]
    IN /\ pc[r] = "recalc"
       /\ heat' = [p \in Warm |->
             IF seen[p].score = score(p) /\ seen[p].level = Bucket(score(p)) THEN heat[p]
             ELSE [heat[p] EXCEPT !.score = score(p), !.level = Bucket(score(p))]]
       /\ calm' = IF calm = "pending" THEN "yes" ELSE calm
       /\ Finish(r)
       /\ UNCHANGED <<points, reply>>

-----------------------------------------------------------------------------
HeatNext(r) ==
    \/ LogEvent(r) \/ CommitEvent(r) \/ ApplyHeat(r) \/ ApplyEvent(r)
    \/ RecordReply(r) \/ Reclassify(r) \/ CommitReply(r) \/ LogReply(r)
    \/ Recalc(r) \/ CommitRecalc(r)
=============================================================================
