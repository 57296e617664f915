--------------------------- MODULE BackOfficeProofs ---------------------------
(***************************************************************************)
(* What holds of the back office for every set of requests, keys, jobs and *)
(* leads, however many requests are under way and however many of them     *)
(* die: the desk, then one component after the other.                      *)
(***************************************************************************)
EXTENDS BackOffice, SessionsProofs

OutreachLabels == {"ingest", "move", "outcome", "remove"}
IntakeLabels ==
    {"record", "refuse", "add_firm", "add_job", "patch_job", "processed", "failed",
     "create_job", "edit_job", "add_candidate", "bump", "drop_candidate", "count",
     "move_candidate", "create_firm", "change_firm", "contact"}
HeatLabels == {"event", "heat", "demo", "unsubscribe", "reply_event", "reply", "sort", "recalc"}
FunnelLabels == {"dimensions", "rollup"}
CampaignLabels == {"create_campaign", "change_campaign", "enrol"}
ActivationLabels == {"job_event", "poll", "store", "alert"}

\* Where a request is tells which kind it is, and what its session holds.
OutreachKind(at, l) ==
    /\ at = "ingest" => l.op = "push"
    /\ at \in {"move", "outcome", "remove"} => l.op = at
IntakeKind(at, l) ==
    /\ at \in {"record", "refuse", "add_firm", "add_job", "patch_job", "processed", "failed"} =>
          l.op = "publish"
    /\ at = "create_job" => l.op = "make"
    /\ at = "edit_job" => l.op = "edit"
    /\ at = "add_candidate" => l.op = "add"
    /\ at = "bump" => l.op \in {"add", "drop"}
    /\ at \in {"drop_candidate", "count"} => l.op = "drop"
    /\ at = "move_candidate" => l.op = "judge"
    /\ at \in {"create_firm", "change_firm"} => l.op = "firm"
    /\ at = "contact" => l.op = "apollo" /\ DOMAIN l = {"op", "left", "known"}
HeatKind(at, l) ==
    /\ at \in {"event", "demo", "unsubscribe"} => l.op = "event"
    /\ at = "heat" => l.op \in {"event", "reply", "sort"}
    /\ at = "reply_event" => l.op \in {"reply", "sort"}
    /\ at \in {"reply", "sort", "recalc"} => l.op = at
    /\ at \in HeatLabels => "op" \in DOMAIN l
FunnelKind(at, l) ==
    at \in FunnelLabels => l.op = "snapshot" /\ DOMAIN l = {"op", "todo"}
CampaignKind(at, l) ==
    /\ at \in {"create_campaign", "change_campaign"} => l.op = "campaign"
    /\ at = "enrol" => /\ l.op = "enrol"
                       /\ DOMAIN l = {"op", "camp", "named", "todo", "mine", "added"}
ActivationKind(at, l) ==
    /\ at = "job_event" => l.op = "told"
    /\ at \in {"poll", "store", "alert"} => l.op = "sync"
    /\ at = "poll" => DOMAIN l = {"op", "rows", "todo"}

OutreachKinds == \A r \in Req : OutreachKind(pc[r], loc[r])
IntakeKinds == \A r \in Req : IntakeKind(pc[r], loc[r])
HeatKinds == \A r \in Req : HeatKind(pc[r], loc[r])
FunnelKinds == \A r \in Req : FunnelKind(pc[r], loc[r])
CampaignKinds == \A r \in Req : CampaignKind(pc[r], loc[r])
ActivationKinds == \A r \in Req : ActivationKind(pc[r], loc[r])

-----------------------------------------------------------------------------
(***************************************************************************)
(* The desk: each action of a component is a step of one of its requests.  *)
(***************************************************************************)
\* Pushes of outreach, and the staff on the board.
LEMMA OutreachActs ==
  ASSUME Placed, OutreachKinds, NEW r \in Req, OutreachNext(r)
  PROVE  Acts(r, OutreachLabels) /\ OutreachKinds'
<1> USE DEF OutreachLabels, Over
<1>1. ASSUME NEW label \in OutreachLabels, NEW session, Launch(r, label, session),
             OutreachKind(label, session)
      PROVE  Acts(r, OutreachLabels) /\ OutreachKinds'
  <2>1. Acts(r, OutreachLabels) /\ pc'[r] = label /\ loc'[r] = session
    BY <1>1, LaunchActs
  <2> QED BY <1>1, <2>1 DEF OutreachKinds, Acts
<1>3. ASSUME pc[r] \in OutreachLabels, Finish(r) \/ Broken(r)
      PROVE  Acts(r, OutreachLabels) /\ OutreachKinds'
  <2>1. Acts(r, OutreachLabels) /\ pc'[r] \in Over
    BY <1>3, EndActs
  <2> QED BY <2>1 DEF OutreachKinds, OutreachKind, Acts
<1> USE DEF OutreachKind
<1>4. CASE Push(r)
  BY <1>1, <1>4 DEF Push, Loaded
<1>5. CASE MoveOutreach(r)
  BY <1>1, <1>5 DEF MoveOutreach, Loaded
<1>6. CASE SetOutcome(r)
  BY <1>1, <1>6 DEF SetOutcome, Loaded
<1>7. CASE DeleteOutreach(r)
  BY <1>1, <1>7 DEF DeleteOutreach, Loaded
<1>8. CASE Insert(r) \/ Advance(r)
  BY <1>3, <1>8 DEF Insert, Advance, Answer
<1>9. CASE CommitMove(r) \/ CommitOutcome(r) \/ CommitRemoval(r)
  BY <1>3, <1>9 DEF CommitMove, CommitOutcome, CommitRemoval
<1> QED BY <1>4, <1>5, <1>6, <1>7, <1>8, <1>9 DEF OutreachNext

\* Companies, by hand or by Apollo's sync.
LEMMA CompaniesActs ==
  ASSUME Placed, IntakeKinds, NEW r \in Req, CompaniesNext(r)
  PROVE  Acts(r, IntakeLabels) /\ IntakeKinds'
<1> USE DEF IntakeLabels, Over
<1>1. ASSUME NEW label \in IntakeLabels, NEW session, Launch(r, label, session),
             IntakeKind(label, session)
      PROVE  Acts(r, IntakeLabels) /\ IntakeKinds'
  <2>1. Acts(r, IntakeLabels) /\ pc'[r] = label /\ loc'[r] = session
    BY <1>1, LaunchActs
  <2> QED BY <1>1, <2>1 DEF IntakeKinds, Acts
<1>2. ASSUME NEW label \in IntakeLabels, NEW session, Goto(r, label, session),
             pc[r] \in IntakeLabels, session.op = loc[r].op, IntakeKind(label, session)
      PROVE  Acts(r, IntakeLabels) /\ IntakeKinds'
  <2>1. Acts(r, IntakeLabels) /\ pc'[r] = label /\ loc'[r] = session
    BY <1>2, GotoActs
  <2> QED BY <1>2, <2>1 DEF IntakeKinds, Acts
<1>3. ASSUME pc[r] \in IntakeLabels, Finish(r) \/ Broken(r)
      PROVE  Acts(r, IntakeLabels) /\ IntakeKinds'
  <2>1. Acts(r, IntakeLabels) /\ pc'[r] \in Over
    BY <1>3, EndActs
  <2> QED BY <2>1 DEF IntakeKinds, IntakeKind, Acts
<1> USE DEF IntakeKind
<1>4. CASE CreateFirm(r)
  BY <1>1, <1>4 DEF CreateFirm
<1>5. CASE ChangeFirm(r)
  BY <1>1, <1>5 DEF ChangeFirm
<1>6. CASE CommitFirm(r) \/ CommitFirmChange(r)
  BY <1>3, <1>6 DEF CommitFirm, CommitFirmChange
<1>7. CASE StartApollo(r)
  BY <1>1, <1>7 DEF StartApollo
<1>8. CASE SyncContact(r)
  <2>1. pc[r] = "contact"
    BY <1>8 DEF SyncContact
  <2>2. PICK known : Pulled(r, known)
    BY <1>8 DEF SyncContact
  <2> DEFINE session == [loc[r] EXCEPT !.left = Tail(@), !.known = known]
  <2>3. loc[r].op = "apollo" /\ DOMAIN loc[r] = {"op", "left", "known"}
    BY <2>1 DEF IntakeKinds
  <2>4. session.op = "apollo" /\ DOMAIN session = {"op", "left", "known"}
    BY <2>3
  <2>5. Goto(r, "contact", session)
    BY <2>2 DEF Pulled
  <2> HIDE DEF session
  <2> QED BY <1>2, <2>1, <2>3, <2>4, <2>5
<1>9. CASE ApolloDone(r)
  BY <1>3, <1>9 DEF ApolloDone
<1> QED BY <1>4, <1>5, <1>6, <1>7, <1>8, <1>9 DEF CompaniesNext

\* Events, jobs and candidates.
LEMMA IntakeActs ==
  ASSUME Placed, IntakeKinds, NEW r \in Req, IntakeNext(r)
  PROVE  Acts(r, IntakeLabels) /\ IntakeKinds'
<1> USE DEF IntakeLabels, Over
<1>1. ASSUME NEW label \in IntakeLabels, NEW session, Launch(r, label, session),
             IntakeKind(label, session)
      PROVE  Acts(r, IntakeLabels) /\ IntakeKinds'
  <2>1. Acts(r, IntakeLabels) /\ pc'[r] = label /\ loc'[r] = session
    BY <1>1, LaunchActs
  <2> QED BY <1>1, <2>1 DEF IntakeKinds, Acts
<1>2. ASSUME NEW label \in IntakeLabels, NEW session, Goto(r, label, session),
             pc[r] \in IntakeLabels, session.op = loc[r].op, IntakeKind(label, session)
      PROVE  Acts(r, IntakeLabels) /\ IntakeKinds'
  <2>1. Acts(r, IntakeLabels) /\ pc'[r] = label /\ loc'[r] = session
    BY <1>2, GotoActs
  <2> QED BY <1>2, <2>1 DEF IntakeKinds, Acts
<1>3. ASSUME pc[r] \in IntakeLabels, Finish(r) \/ Broken(r)
      PROVE  Acts(r, IntakeLabels) /\ IntakeKinds'
  <2>1. Acts(r, IntakeLabels) /\ pc'[r] \in Over
    BY <1>3, EndActs
  <2> QED BY <2>1 DEF IntakeKinds, IntakeKind, Acts
<1> USE DEF IntakeKind
<1>4. CASE PushJob(r)
  BY <1>1, <1>4 DEF PushJob
<1>5. CASE RecordEvent(r)
  BY <1>2, <1>3, <1>5 DEF RecordEvent, Looked, IntakeKinds
<1>6. CASE AddFirm(r)
  BY <1>2, <1>6 DEF AddFirm, Looked, IntakeKinds
<1>7. CASE InsertJob(r)
  BY <1>2, <1>3, <1>7 DEF InsertJob, IntakeKinds
<1>8. CASE PatchJob(r)
  BY <1>2, <1>8 DEF PatchJob, IntakeKinds
<1>9. CASE MarkEvent(r) \/ FailEvent(r)
  BY <1>3, <1>9 DEF MarkEvent, FailEvent, Mark
<1>10. CASE EventFault(r)
  BY <1>2, <1>10 DEF EventFault, IntakeKinds
<1>11. CASE CreateJob(r)
  BY <1>1, <1>11 DEF CreateJob
<1>12. CASE EditJob(r)
  BY <1>1, <1>12 DEF EditJob
<1>13. CASE CommitJob(r) \/ CommitChanges(r)
  BY <1>3, <1>13 DEF CommitJob, CommitChanges
<1>14. CASE Propose(r)
  BY <1>1, <1>14 DEF Propose
<1>15. CASE CommitCandidate(r)
  BY <1>2, <1>15 DEF CommitCandidate, IntakeKinds
<1>16. CASE Withdraw(r)
  BY <1>1, <1>16 DEF Withdraw
<1>17. CASE CommitWithdrawal(r)
  <2>1. pc[r] = "drop_candidate" /\ Goto(r, "count", loc[r])
    BY <1>17 DEF CommitWithdrawal
  <2>2. loc[r].op = "drop"
    BY <2>1 DEF IntakeKinds
  <2> QED BY <1>2, <2>1, <2>2
<1>18. CASE ReadCount(r)
  BY <1>2, <1>18 DEF ReadCount, IntakeKinds
<1>19. CASE MoveCandidate(r)
  BY <1>1, <1>19 DEF MoveCandidate
<1>20. CASE Bump(r) \/ CommitStatus(r)
  BY <1>3, <1>20 DEF Bump, CommitStatus
<1>21. CASE CompaniesNext(r)
  BY <1>21, CompaniesActs
<1> QED
  BY <1>4, <1>5, <1>6, <1>7, <1>8, <1>9, <1>10, <1>11, <1>12,
     <1>13, <1>14, <1>15, <1>16, <1>17, <1>18, <1>19, <1>20, <1>21 DEF IntakeNext

\* Events, replies and the recalculation of the heat.
LEMMA HeatActs ==
  ASSUME Placed, HeatKinds, NEW r \in Req, HeatNext(r)
  PROVE  Acts(r, HeatLabels) /\ HeatKinds'
<1> USE DEF HeatLabels, Over
<1>1. ASSUME NEW label \in HeatLabels, NEW session, Launch(r, label, session),
             HeatKind(label, session)
      PROVE  Acts(r, HeatLabels) /\ HeatKinds'
  <2>1. Acts(r, HeatLabels) /\ pc'[r] = label /\ loc'[r] = session
    BY <1>1, LaunchActs
  <2> QED BY <1>1, <2>1 DEF HeatKinds, Acts
<1>2. ASSUME NEW label \in HeatLabels, NEW session, Goto(r, label, session),
             pc[r] \in HeatLabels, session.op = loc[r].op, HeatKind(label, session)
      PROVE  Acts(r, HeatLabels) /\ HeatKinds'
  <2>1. Acts(r, HeatLabels) /\ pc'[r] = label /\ loc'[r] = session
    BY <1>2, GotoActs
  <2> QED BY <1>2, <2>1 DEF HeatKinds, Acts
<1>3. ASSUME pc[r] \in HeatLabels, Finish(r) \/ Broken(r)
      PROVE  Acts(r, HeatLabels) /\ HeatKinds'
  <2>1. Acts(r, HeatLabels) /\ pc'[r] \in Over
    BY <1>3, EndActs
  <2> QED BY <2>1 DEF HeatKinds, HeatKind, Acts
<1> USE DEF HeatKind
<1>4. CASE LogEvent(r)
  BY <1>1, <1>4 DEF LogEvent, HeatRequest
<1>5. CASE CommitEvent(r)
  BY <1>2, <1>3, <1>5 DEF CommitEvent, Effect, HeatKinds, With
<1>6. CASE ApplyHeat(r)
  BY <1>2, <1>3, <1>6 DEF ApplyHeat, HeatKinds
<1>7. CASE ApplyEvent(r)
  BY <1>3, <1>7 DEF ApplyEvent
<1>8. CASE RecordReply(r)
  BY <1>1, <1>8 DEF RecordReply, HeatRequest
<1>9. CASE Reclassify(r)
  BY <1>1, <1>9 DEF Reclassify, HeatRequest
<1>10. CASE CommitReply(r)
  BY <1>2, <1>3, <1>10 DEF CommitReply, HeatKinds, With
<1>11. CASE LogReply(r)
  BY <1>3, <1>11 DEF LogReply
<1>12. CASE Recalc(r)
  BY <1>1, <1>12 DEF Recalc
<1>13. CASE CommitRecalc(r)
  BY <1>3, <1>13 DEF CommitRecalc
<1> QED BY <1>4, <1>5, <1>6, <1>7, <1>8, <1>9, <1>10, <1>11, <1>12, <1>13 DEF HeatNext

\* The snapshot of the funnel.
LEMMA FunnelActs ==
  ASSUME Placed, FunnelKinds, NEW r \in Req, FunnelNext(r)
  PROVE  Acts(r, FunnelLabels) /\ FunnelKinds'
<1> USE DEF FunnelLabels, Over
<1>1. ASSUME NEW label \in FunnelLabels, NEW session, Launch(r, label, session),
             FunnelKind(label, session)
      PROVE  Acts(r, FunnelLabels) /\ FunnelKinds'
  <2>1. Acts(r, FunnelLabels) /\ pc'[r] = label /\ loc'[r] = session
    BY <1>1, LaunchActs
  <2> QED BY <1>1, <2>1 DEF FunnelKinds, Acts
<1>2. ASSUME NEW label \in FunnelLabels, NEW session, Goto(r, label, session),
             pc[r] \in FunnelLabels, session.op = loc[r].op, FunnelKind(label, session)
      PROVE  Acts(r, FunnelLabels) /\ FunnelKinds'
  <2>1. Acts(r, FunnelLabels) /\ pc'[r] = label /\ loc'[r] = session
    BY <1>2, GotoActs
  <2> QED BY <1>2, <2>1 DEF FunnelKinds, Acts
<1>3. ASSUME pc[r] \in FunnelLabels, Finish(r) \/ Broken(r)
      PROVE  Acts(r, FunnelLabels) /\ FunnelKinds'
  <2>1. Acts(r, FunnelLabels) /\ pc'[r] \in Over
    BY <1>3, EndActs
  <2> QED BY <2>1 DEF FunnelKinds, FunnelKind, Acts
<1> USE DEF FunnelKind
<1>4. CASE Snapshot(r)
  BY <1>1, <1>4 DEF Snapshot
<1>5. CASE Upsert(r)
  BY <1>2, <1>5 DEF Upsert, FunnelKinds
<1>6. CASE RollUp(r)
  BY <1>2, <1>6 DEF RollUp, FunnelKinds
<1>7. CASE Rolled(r)
  BY <1>3, <1>7 DEF Rolled
<1> QED BY <1>4, <1>5, <1>6, <1>7 DEF FunnelNext

\* Campaigns and batches.
LEMMA CampaignsActs ==
  ASSUME Placed, CampaignKinds, NEW r \in Req, CampaignsNext(r)
  PROVE  Acts(r, CampaignLabels) /\ CampaignKinds'
<1> USE DEF CampaignLabels, Over
<1>1. ASSUME NEW label \in CampaignLabels, NEW session, Launch(r, label, session),
             CampaignKind(label, session)
      PROVE  Acts(r, CampaignLabels) /\ CampaignKinds'
  <2>1. Acts(r, CampaignLabels) /\ pc'[r] = label /\ loc'[r] = session
    BY <1>1, LaunchActs
  <2> QED BY <1>1, <2>1 DEF CampaignKinds, Acts
<1>2. ASSUME NEW label \in CampaignLabels, NEW session, Goto(r, label, session),
             pc[r] \in CampaignLabels, session.op = loc[r].op, CampaignKind(label, session)
      PROVE  Acts(r, CampaignLabels) /\ CampaignKinds'
  <2>1. Acts(r, CampaignLabels) /\ pc'[r] = label /\ loc'[r] = session
    BY <1>2, GotoActs
  <2> QED BY <1>2, <2>1 DEF CampaignKinds, Acts
<1>3. ASSUME pc[r] \in CampaignLabels, Finish(r) \/ Broken(r)
      PROVE  Acts(r, CampaignLabels) /\ CampaignKinds'
  <2>1. Acts(r, CampaignLabels) /\ pc'[r] \in Over
    BY <1>3, EndActs
  <2> QED BY <2>1 DEF CampaignKinds, CampaignKind, Acts
<1> USE DEF CampaignKind
<1>4. CASE CreateCampaign(r)
  BY <1>1, <1>4 DEF CreateCampaign
<1>5. CASE ChangeCampaign(r)
  BY <1>1, <1>5 DEF ChangeCampaign
<1>6. CASE CommitCampaign(r) \/ CommitChange(r)
  BY <1>3, <1>6 DEF CommitCampaign, CommitChange
<1>7. CASE AddProspects(r)
  BY <1>1, <1>7 DEF AddProspects
<1>8. CASE EnrolOne(r)
  BY <1>2, <1>8 DEF EnrolOne, CampaignKinds
<1>9. CASE EnrolVictim(r) \/ CommitBatch(r)
  BY <1>3, <1>9 DEF EnrolVictim, CommitBatch
<1> QED BY <1>4, <1>5, <1>6, <1>7, <1>8, <1>9 DEF CampaignsNext

\* Job events and the activation sync.
LEMMA ActivationActs ==
  ASSUME Placed, ActivationKinds, NEW r \in Req, ActivationNext(r)
  PROVE  Acts(r, ActivationLabels) /\ ActivationKinds'
<1> USE DEF ActivationLabels, Over
<1>1. ASSUME NEW label \in ActivationLabels, NEW session, Launch(r, label, session),
             ActivationKind(label, session)
      PROVE  Acts(r, ActivationLabels) /\ ActivationKinds'
  <2>1. Acts(r, ActivationLabels) /\ pc'[r] = label /\ loc'[r] = session
    BY <1>1, LaunchActs
  <2> QED BY <1>1, <2>1 DEF ActivationKinds, Acts
<1>2. ASSUME NEW label \in ActivationLabels, NEW session, Goto(r, label, session),
             pc[r] \in ActivationLabels, session.op = loc[r].op, ActivationKind(label, session)
      PROVE  Acts(r, ActivationLabels) /\ ActivationKinds'
  <2>1. Acts(r, ActivationLabels) /\ pc'[r] = label /\ loc'[r] = session
    BY <1>2, GotoActs
  <2> QED BY <1>2, <2>1 DEF ActivationKinds, Acts
<1>3. ASSUME pc[r] \in ActivationLabels, Finish(r) \/ Broken(r)
      PROVE  Acts(r, ActivationLabels) /\ ActivationKinds'
  <2>1. Acts(r, ActivationLabels) /\ pc'[r] \in Over
    BY <1>3, EndActs
  <2> QED BY <2>1 DEF ActivationKinds, ActivationKind, Acts
<1> USE DEF ActivationKind
<1>4. CASE JobEvent(r)
  BY <1>1, <1>4 DEF JobEvent
<1>5. CASE StoreJobs(r)
  BY <1>3, <1>5 DEF StoreJobs
<1>6. CASE StartSync(r)
  BY <1>1, <1>6 DEF StartSync
<1>7. CASE Poll(r)
  BY <1>2, <1>7 DEF Poll, ActivationKinds, With
<1>8. CASE Store(r)
  BY <1>2, <1>8 DEF Store, Onward, ActivationKinds, With
<1>9. CASE Alert(r)
  BY <1>2, <1>9 DEF Alert, Onward, ActivationKinds
<1>10. CASE Synced(r)
  BY <1>3, <1>10 DEF Synced
<1> QED BY <1>4, <1>5, <1>6, <1>7, <1>8, <1>9, <1>10 DEF ActivationNext

-----------------------------------------------------------------------------
(***************************************************************************)
(* The steps of the back office, as each component sees them.              *)
(***************************************************************************)
Desk ==
    /\ Placed /\ Noticed
    /\ OutreachKinds /\ IntakeKinds /\ HeatKinds /\ FunnelKinds
    /\ CampaignKinds /\ ActivationKinds

OutreachStep ==
    \/ \E r \in Req : OutreachNext(r) /\ Acts(r, OutreachLabels)
    \/ UNCHANGED outreachVars /\ Elsewhere(OutreachLabels)
IntakeStep ==
    \/ \E r \in Req : IntakeNext(r) /\ Acts(r, IntakeLabels)
    \/ UNCHANGED intakeVars /\ Elsewhere(IntakeLabels)
HeatStep ==
    \/ \E r \in Req : HeatNext(r) /\ Acts(r, HeatLabels)
    \/ UNCHANGED heatVars /\ Elsewhere(HeatLabels)
FunnelStep ==
    \/ \E r \in Req : FunnelNext(r) /\ Acts(r, FunnelLabels)
    \/ UNCHANGED daily /\ Elsewhere(FunnelLabels)
CampaignStep ==
    \/ \E r \in Req : CampaignsNext(r) /\ Acts(r, CampaignLabels)
    \/ UNCHANGED campaignVars /\ Elsewhere(CampaignLabels)
ActivationStep ==
    \/ \E r \in Req : ActivationNext(r) /\ Acts(r, ActivationLabels)
    \/ Grow
    \/ UNCHANGED activationVars /\ Elsewhere(ActivationLabels)

\* What is elsewhere for a component leaves its requests the kinds they are.
LEMMA KindsElsewhere ==
    /\ OutreachKinds /\ Elsewhere(OutreachLabels) => OutreachKinds'
    /\ IntakeKinds /\ Elsewhere(IntakeLabels) => IntakeKinds'
    /\ HeatKinds /\ Elsewhere(HeatLabels) => HeatKinds'
    /\ FunnelKinds /\ Elsewhere(FunnelLabels) => FunnelKinds'
    /\ CampaignKinds /\ Elsewhere(CampaignLabels) => CampaignKinds'
    /\ ActivationKinds /\ Elsewhere(ActivationLabels) => ActivationKinds'
<1> USE DEF Elsewhere
<1>1. OutreachKinds /\ Elsewhere(OutreachLabels) => OutreachKinds'
  BY DEF OutreachKinds, OutreachKind, OutreachLabels
<1>2. IntakeKinds /\ Elsewhere(IntakeLabels) => IntakeKinds'
  BY DEF IntakeKinds, IntakeKind, IntakeLabels
<1>3. HeatKinds /\ Elsewhere(HeatLabels) => HeatKinds'
  BY DEF HeatKinds, HeatKind, HeatLabels
<1>4. FunnelKinds /\ Elsewhere(FunnelLabels) => FunnelKinds'
  BY DEF FunnelKinds, FunnelKind, FunnelLabels
<1>5. CampaignKinds /\ Elsewhere(CampaignLabels) => CampaignKinds'
  BY DEF CampaignKinds, CampaignKind, CampaignLabels
<1>6. ActivationKinds /\ Elsewhere(ActivationLabels) => ActivationKinds'
  BY DEF ActivationKinds, ActivationKind, ActivationLabels
<1> QED BY <1>1, <1>2, <1>3, <1>4, <1>5, <1>6

\* No label belongs to two components, nor to a request that is over.
LEMMA LabelsApart ==
    /\ OutreachLabels \cap Over = {}
    /\ IntakeLabels \cap Over = {}
    /\ HeatLabels \cap Over = {}
    /\ FunnelLabels \cap Over = {}
    /\ CampaignLabels \cap Over = {}
    /\ ActivationLabels \cap Over = {}
    /\ OutreachLabels \cap IntakeLabels = {}
    /\ OutreachLabels \cap HeatLabels = {}
    /\ OutreachLabels \cap FunnelLabels = {}
    /\ OutreachLabels \cap CampaignLabels = {}
    /\ OutreachLabels \cap ActivationLabels = {}
    /\ IntakeLabels \cap HeatLabels = {}
    /\ IntakeLabels \cap FunnelLabels = {}
    /\ IntakeLabels \cap CampaignLabels = {}
    /\ IntakeLabels \cap ActivationLabels = {}
    /\ HeatLabels \cap FunnelLabels = {}
    /\ HeatLabels \cap CampaignLabels = {}
    /\ HeatLabels \cap ActivationLabels = {}
    /\ FunnelLabels \cap CampaignLabels = {}
    /\ FunnelLabels \cap ActivationLabels = {}
    /\ CampaignLabels \cap ActivationLabels = {}
BY DEF OutreachLabels, IntakeLabels, HeatLabels, FunnelLabels, CampaignLabels,
       ActivationLabels, Over

\* Every step is one of one component, and elsewhere for the others.
LEMMA Steps ==
  ASSUME Desk, [Next]_vars
  PROVE  /\ Desk'
         /\ OutreachStep /\ IntakeStep /\ HeatStep /\ FunnelStep
         /\ CampaignStep /\ ActivationStep
<1> DEFINE Goal == /\ Desk'
                   /\ OutreachStep /\ IntakeStep /\ HeatStep /\ FunnelStep
                   /\ CampaignStep /\ ActivationStep
<1> SUFFICES Goal
  OBVIOUS
<1> USE DEF Desk, OutreachStep, IntakeStep, HeatStep, FunnelStep, CampaignStep,
            ActivationStep, leadsVars
<1>1. ASSUME NEW r \in Req, OutreachNext(r),
             UNCHANGED <<intakeVars, heatVars, daily, campaignVars, activationVars>>
      PROVE  Goal
  <2>1. Acts(r, OutreachLabels) /\ OutreachKinds'
    BY <1>1, OutreachActs
  <2>2. Placed' /\ Noticed'
    BY <2>1, ActsNoticed, LabelsApart
  <2>3. /\ Elsewhere(IntakeLabels) /\ Elsewhere(HeatLabels) /\ Elsewhere(FunnelLabels)
        /\ Elsewhere(CampaignLabels) /\ Elsewhere(ActivationLabels)
    BY <2>1, ActsElsewhere, LabelsApart
  <2> QED BY <1>1, <2>1, <2>2, <2>3, KindsElsewhere
<1>2. ASSUME NEW r \in Req, IntakeNext(r),
             UNCHANGED <<outreachVars, heatVars, daily, campaignVars, activationVars>>
      PROVE  Goal
  <2>1. Acts(r, IntakeLabels) /\ IntakeKinds'
    BY <1>2, IntakeActs
  <2>2. Placed' /\ Noticed'
    BY <2>1, ActsNoticed, LabelsApart
  <2>3. /\ Elsewhere(OutreachLabels) /\ Elsewhere(HeatLabels) /\ Elsewhere(FunnelLabels)
        /\ Elsewhere(CampaignLabels) /\ Elsewhere(ActivationLabels)
    BY <2>1, ActsElsewhere, LabelsApart
  <2> QED BY <1>2, <2>1, <2>2, <2>3, KindsElsewhere
<1>3. ASSUME NEW r \in Req, HeatNext(r),
             UNCHANGED <<outreachVars, intakeVars, daily, campaignVars, activationVars>>
      PROVE  Goal
  <2>1. Acts(r, HeatLabels) /\ HeatKinds'
    BY <1>3, HeatActs
  <2>2. Placed' /\ Noticed'
    BY <2>1, ActsNoticed, LabelsApart
  <2>3. /\ Elsewhere(OutreachLabels) /\ Elsewhere(IntakeLabels) /\ Elsewhere(FunnelLabels)
        /\ Elsewhere(CampaignLabels) /\ Elsewhere(ActivationLabels)
    BY <2>1, ActsElsewhere, LabelsApart
  <2> QED BY <1>3, <2>1, <2>2, <2>3, KindsElsewhere
<1>4. ASSUME NEW r \in Req, FunnelNext(r),
             UNCHANGED <<outreachVars, intakeVars, heatVars, campaignVars, activationVars>>
      PROVE  Goal
  <2>1. Acts(r, FunnelLabels) /\ FunnelKinds'
    BY <1>4, FunnelActs
  <2>2. Placed' /\ Noticed'
    BY <2>1, ActsNoticed, LabelsApart
  <2>3. /\ Elsewhere(OutreachLabels) /\ Elsewhere(IntakeLabels) /\ Elsewhere(HeatLabels)
        /\ Elsewhere(CampaignLabels) /\ Elsewhere(ActivationLabels)
    BY <2>1, ActsElsewhere, LabelsApart
  <2> QED BY <1>4, <2>1, <2>2, <2>3, KindsElsewhere
<1>5. ASSUME NEW r \in Req, CampaignsNext(r),
             UNCHANGED <<outreachVars, intakeVars, heatVars, daily, activationVars>>
      PROVE  Goal
  <2>1. Acts(r, CampaignLabels) /\ CampaignKinds'
    BY <1>5, CampaignsActs
  <2>2. Placed' /\ Noticed'
    BY <2>1, ActsNoticed, LabelsApart
  <2>3. /\ Elsewhere(OutreachLabels) /\ Elsewhere(IntakeLabels) /\ Elsewhere(HeatLabels)
        /\ Elsewhere(FunnelLabels) /\ Elsewhere(ActivationLabels)
    BY <2>1, ActsElsewhere, LabelsApart
  <2> QED BY <1>5, <2>1, <2>2, <2>3, KindsElsewhere
<1>6. ASSUME NEW r \in Req, ActivationNext(r),
             UNCHANGED <<outreachVars, intakeVars, heatVars, daily, campaignVars>>
      PROVE  Goal
  <2>1. Acts(r, ActivationLabels) /\ ActivationKinds'
    BY <1>6, ActivationActs
  <2>2. Placed' /\ Noticed'
    BY <2>1, ActsNoticed, LabelsApart
  <2>3. /\ Elsewhere(OutreachLabels) /\ Elsewhere(IntakeLabels) /\ Elsewhere(HeatLabels)
        /\ Elsewhere(FunnelLabels) /\ Elsewhere(CampaignLabels)
    BY <2>1, ActsElsewhere, LabelsApart
  <2> QED BY <1>6, <2>1, <2>2, <2>3, KindsElsewhere
<1>7. ASSUME NEW r \in Req, Abort(r),
             UNCHANGED <<outreachVars, intakeVars, heatVars, daily, campaignVars,
                         activationVars>>
      PROVE  Goal
  <2>1. Placed' /\ Noticed'
    BY <1>7, AbortNoticed
  <2>2. /\ Elsewhere(OutreachLabels) /\ Elsewhere(IntakeLabels) /\ Elsewhere(HeatLabels)
        /\ Elsewhere(FunnelLabels) /\ Elsewhere(CampaignLabels)
        /\ Elsewhere(ActivationLabels)
    BY <1>7, AbortElsewhere, LabelsApart
  <2> QED BY <1>7, <2>1, <2>2, KindsElsewhere
<1>8. ASSUME UNCHANGED desk,
             UNCHANGED <<outreachVars, intakeVars, heatVars, daily, campaignVars>>,
             Grow \/ UNCHANGED activationVars
      PROVE  Goal
  <2>1. Placed' /\ Noticed'
    BY <1>8, IdleElsewhere
  <2>2. /\ Elsewhere(OutreachLabels) /\ Elsewhere(IntakeLabels) /\ Elsewhere(HeatLabels)
        /\ Elsewhere(FunnelLabels) /\ Elsewhere(CampaignLabels)
        /\ Elsewhere(ActivationLabels)
    BY <1>8, IdleElsewhere
  <2> QED BY <1>8, <2>1, <2>2, KindsElsewhere
<1> HIDE DEF Goal
<1>9. CASE \E r \in Req : Step(r)
  <2>1. \A r \in Req : FunnelNext(r) => UNCHANGED heatVars
    BY DEF FunnelNext, Snapshot, Upsert, RollUp, Rolled, heatVars
  <2> QED BY <1>1, <1>2, <1>3, <1>4, <1>5, <1>6, <1>7, <1>9, <2>1 DEF Step
<1>10. CASE Grow /\ UNCHANGED <<outreachVars, intakeVars, leadsVars, campaignVars>>
  <2>1. UNCHANGED desk
    BY <1>10 DEF Grow
  <2> QED BY <1>8, <1>10, <2>1
<1>11. CASE UNCHANGED vars
  BY <1>8, <1>11 DEF vars
<1> QED BY <1>9, <1>10, <1>11 DEF Next, Quiet

\* The desk at the start.
LEMMA DeskStarts == Init => Desk
<1> SUFFICES ASSUME Init PROVE Desk
  OBVIOUS
<1>1. \A r \in Req : pc[r] = "idle"
  BY DEF Init, DeskInit
<1>2. Placed /\ Noticed
  BY DeskBegins DEF Init
<1> QED BY <1>1, <1>2 DEF Desk, OutreachKinds, OutreachKind, IntakeKinds, IntakeKind,
           HeatKinds, HeatKind, HeatLabels, FunnelKinds, FunnelKind, FunnelLabels,
           CampaignKinds, CampaignKind, ActivationKinds, ActivationKind

-----------------------------------------------------------------------------
(***************************************************************************)
(* Outreach.  A push that overlaps no other push works on the status it    *)
(* loaded, as nobody else lets the status change unhandled.                *)
(***************************************************************************)
OutreachRow == [state : {"free", "live", "deleted"}, status : Status,
                lead : Nat \cup {None}, outcome : {None, "replied", "rejected"}]

OutreachTyped ==
    /\ outreach \in [Key -> OutreachRow] /\ pushed \in [Key -> Status] /\ handled \subseteq Key
    /\ \A r \in Req : pc[r] \in OutreachLabels =>
          loc[r].key \in Key /\ loc[r].row \in OutreachRow
    /\ \A r \in Req : pc[r] = "ingest" => loc[r].value \in Hint
    /\ \A r \in Req : pc[r] = "move" => loc[r].value \in Status
    /\ \A r \in Req : pc[r] = "outcome" => loc[r].value \in {"replied", "rejected"}

\* A row is never taken back, and one that is not there was never pushed.
RowsStay ==
    /\ \A k \in Key : outreach[k].state = "free" => outreach[k].status = 0 /\ pushed[k] = 0
    /\ \A r \in Req : pc[r] \in OutreachLabels /\ loc[r].row.state # "free" =>
          outreach[loc[r].key].state # "free"
    /\ \A r \in Req : pc[r] \in OutreachLabels \ {"ingest"} => loc[r].row.state # "free"

PushesAlone ==
    ~Met("push", "push") =>
        \A r \in Req : pc[r] = "ingest" /\ loc[r].key \notin handled
                          /\ loc[r].row.state # "free" =>
            loc[r].row.status = outreach[loc[r].key].status

OutreachInv == OutreachTyped /\ RowsStay /\ PushesAlone /\ PushedHighest

\* The lead that a push is attributed to is one of the table, or none.
LEMMA ResolvedTyped == ASSUME NEW c PROVE Resolved(c) \in Nat \cup {None}
<1> DEFINE live == {p \in DOMAIN Prospect : Prospect[p].live}
           promoted == {p \in live : Prospect[p].uid = c.uid}
           near == {p \in live : c.company # None /\ Prospect[p].company = c.company}
<1>1. promoted \subseteq Nat /\ near \subseteq Nat
  BY OutreachAssumption
<1>2. promoted # {} => Min(promoted) \in Nat
  BY <1>1, Smallest
<1>3. near # {} => Min(near) \in Nat
  BY <1>1, Smallest
<1> HIDE DEF promoted, near
<1>4. Resolved(c) = IF promoted # {} THEN Min(promoted)
                    ELSE IF near # {} THEN Min(near) ELSE None
  BY DEF Resolved, promoted, near
<1> QED BY <1>2, <1>3, <1>4

\* What is written of a row: typed like it, and column by column.
LEMMA OutreachWritten ==
  ASSUME NEW row \in OutreachRow, NEW old \in OutreachRow, NEW new \in OutreachRow
  PROVE  /\ WrittenRow(row, old, new) \in OutreachRow
         /\ WrittenRow(row, old, new).state = Written(row.state, old.state, new.state)
         /\ WrittenRow(row, old, new).status = Written(row.status, old.status, new.status)
<1>1. DOMAIN row = {"state", "status", "lead", "outcome"}
  BY DEF OutreachRow
<1> DEFINE w == [f \in {"state", "status", "lead", "outcome"} |->
                    Written(row[f], old[f], new[f])]
<1>2. WrittenRow(row, old, new) = w
  BY <1>1 DEF WrittenRow
<1>3. w = [state |-> Written(row.state, old.state, new.state),
           status |-> Written(row.status, old.status, new.status),
           lead |-> Written(row.lead, old.lead, new.lead),
           outcome |-> Written(row.outcome, old.outcome, new.outcome)]
  OBVIOUS
<1>4. w \in OutreachRow
  BY <1>3 DEF OutreachRow, Written
<1> QED BY <1>2, <1>3, <1>4

\* A request that begins loads the row as it is.
LEMMA OutreachLoads ==
  ASSUME Placed, OutreachInv, NEW r \in Req, NEW label \in OutreachLabels,
         NEW op, NEW k \in Key, NEW value,
         Launch(r, label, Loaded(op, k, value)), UNCHANGED outreachVars,
         label = "ingest" => value \in Hint,
         label = "move" => value \in Status,
         label = "outcome" => value \in {"replied", "rejected"},
         label # "ingest" => outreach[k].state # "free"
  PROVE  OutreachInv'
<1> DEFINE l == Loaded(op, k, value)
<1>1. /\ pc'[r] = label /\ loc'[r] = l
      /\ \A q \in Req \ {r} : pc'[q] = pc[q] /\ loc'[q] = loc[q]
      /\ met \subseteq met'
  BY DEF Placed, Launch
<1>2. l.key = k /\ l.row = outreach[k] /\ l.value = value /\ l.row \in OutreachRow
  BY DEF Loaded, OutreachInv, OutreachTyped
<1> HIDE DEF l
<1>3. UNCHANGED <<outreach, pushed, handled>>
  BY DEF outreachVars
<1>4. OutreachTyped'
  BY <1>1, <1>2, <1>3 DEF OutreachInv, OutreachTyped, OutreachLabels
<1>5. RowsStay'
  BY <1>1, <1>2, <1>3 DEF OutreachInv, RowsStay, OutreachLabels
<1>6. PushesAlone'
  BY <1>1, <1>2, <1>3 DEF OutreachInv, PushesAlone, Met
<1>7. PushedHighest'
  BY <1>1, <1>3 DEF OutreachInv, PushedHighest, Met
<1> QED BY <1>4, <1>5, <1>6, <1>7 DEF OutreachInv

\* An answer keeps the highest hint.
LEMMA AnswerKeeps ==
  ASSUME OutreachTyped, NEW r \in Req, pc[r] = "ingest", Answer(r)
  PROVE  /\ pushed' \in [Key -> Status]
         /\ \A k \in Key \ {loc[r].key} : pushed'[k] = pushed[k]
         /\ pushed'[loc[r].key] =
              IF loc[r].value = None \/ loc[r].value < pushed[loc[r].key]
              THEN pushed[loc[r].key] ELSE loc[r].value
<1>1. loc[r].value \in Hint /\ loc[r].key \in Key
  BY DEF OutreachTyped, OutreachLabels
<1> QED BY <1>1 DEF OutreachTyped, Answer, Hint

\* A request that ends with row w under its key, which is there, and a status that
\* staff moved, or that is the old one, or that a push alone brought to the highest.
LEMMA OutreachSaves ==
  ASSUME Desk, OutreachInv, NEW r \in Req, Acts(r, OutreachLabels),
         pc[r] \in OutreachLabels, pc'[r] \in Over,
         NEW w \in OutreachRow, w.state # "free",
         outreach' = [outreach EXCEPT ![loc[r].key] = w],
         pushed' \in [Key -> Status],
         \A k \in Key \ {loc[r].key} : pushed'[k] = pushed[k],
         handled \subseteq handled', handled' \subseteq Key,
         \/ loc[r].key \in handled'
         \/ w.status = outreach[loc[r].key].status /\ pushed'[loc[r].key] = pushed[loc[r].key]
            /\ outreach[loc[r].key].state # "free"
         \/ pc[r] = "ingest" /\ (~Met("push", "push") /\ loc[r].key \notin handled =>
                                    w.status = pushed'[loc[r].key])
  PROVE  OutreachInv'
<1> DEFINE k == loc[r].key
<1>1. k \in Key
  BY DEF OutreachInv, OutreachTyped
<1>2. /\ \A q \in Req \ {r} : pc'[q] = pc[q] /\ loc'[q] = loc[q]
      /\ met \subseteq met' /\ pc'[r] \notin OutreachLabels
  BY LabelsApart DEF Acts
<1>3. /\ outreach' \in [Key -> OutreachRow] /\ outreach'[k] = w
      /\ \A j \in Key \ {k} : outreach'[j] = outreach[j]
  BY <1>1 DEF OutreachInv, OutreachTyped
<1>4. \A q \in Req \ {r} : pc[q] = "ingest" /\ pc[r] = "ingest" => Met("push", "push")
  <2>1. ASSUME NEW q \in Req \ {r}, pc[q] = "ingest", pc[r] = "ingest"
        PROVE  Met(loc[q].op, loc[r].op) /\ loc[q].op = "push" /\ loc[r].op = "push"
    BY <2>1 DEF Desk, Noticed, Active, Over, OutreachKinds, OutreachKind
  <2> QED BY <2>1
<1>5. ~Met("push", "push")' => ~Met("push", "push")
  BY <1>2 DEF Met
<1> HIDE DEF k
<1>6. OutreachTyped'
  BY <1>2, <1>3 DEF OutreachInv, OutreachTyped, OutreachLabels
<1>7. RowsStay'
  BY <1>1, <1>2, <1>3 DEF OutreachInv, RowsStay, OutreachLabels, k
<1>8. PushesAlone'
  <2> SUFFICES ASSUME ~Met("push", "push")', NEW q \in Req, pc'[q] = "ingest",
                      loc'[q].key \notin handled', loc'[q].row.state # "free"
               PROVE  loc'[q].row.status = outreach'[loc'[q].key].status
    BY DEF PushesAlone
  <2>1. q # r /\ pc[q] = "ingest" /\ loc'[q] = loc[q] /\ loc[q].key \in Key
    BY <1>2 DEF OutreachLabels, OutreachInv, OutreachTyped
  <2>2. loc[q].row.status = outreach[loc[q].key].status
    BY <1>5, <2>1 DEF OutreachInv, PushesAlone
  <2>3. loc[q].key = k => w.status = outreach[k].status
    BY <1>4, <1>5, <2>1 DEF k
  <2> QED BY <1>3, <2>1, <2>2, <2>3
<1>9. PushedHighest'
  <2> SUFFICES ASSUME ~Met("push", "push")', NEW j \in Key \ handled', outreach'[j].state # "free"
               PROVE  outreach'[j].status = pushed'[j]
    BY DEF PushedHighest
  <2>1. CASE j = k
    BY <1>1, <1>3, <1>5, <2>1 DEF OutreachInv, PushedHighest, k
  <2>2. CASE j # k
    BY <1>3, <1>5, <2>2 DEF OutreachInv, PushedHighest, k
  <2> QED BY <2>1, <2>2
<1> QED BY <1>6, <1>7, <1>8, <1>9 DEF OutreachInv

\* Requests on outreach keep all that.
LEMMA OutreachKept ==
  ASSUME Desk, OutreachInv, OutreachStep
  PROVE  OutreachInv'
<1>1. ASSUME UNCHANGED outreachVars, Elsewhere(OutreachLabels) PROVE OutreachInv'
  <2>1. OutreachTyped'
    BY <1>1 DEF Elsewhere, outreachVars, OutreachInv, OutreachTyped, OutreachLabels
  <2>2. RowsStay'
    BY <1>1 DEF Elsewhere, outreachVars, OutreachInv, RowsStay
  <2>3. PushesAlone'
    BY <1>1 DEF Elsewhere, outreachVars, OutreachInv, PushesAlone, Met, OutreachLabels
  <2>4. PushedHighest'
    BY <1>1 DEF Elsewhere, outreachVars, OutreachInv, PushedHighest, Met
  <2> QED BY <2>1, <2>2, <2>3, <2>4 DEF OutreachInv
<1>2. ASSUME NEW r \in Req, OutreachNext(r), Acts(r, OutreachLabels) PROVE OutreachInv'
  <2>1. CASE Push(r) \/ MoveOutreach(r) \/ SetOutcome(r) \/ DeleteOutreach(r)
    <3>1. UNCHANGED outreachVars
      BY <2>1 DEF Push, MoveOutreach, SetOutcome, DeleteOutreach
    <3>2. ASSUME Push(r) PROVE OutreachInv'
      <4>1. PICK k \in Key, hint \in Hint : Launch(r, "ingest", Loaded("push", k, hint))
        BY <3>2 DEF Push
      <4> QED BY <3>1, <4>1, OutreachLoads DEF Desk, OutreachLabels
    <3>3. ASSUME MoveOutreach(r) PROVE OutreachInv'
      <4>1. PICK k \in OnBoard, new \in Moves : Launch(r, "move", Loaded("move", k, new))
        BY <3>3 DEF MoveOutreach
      <4>2. k \in Key /\ outreach[k].state # "free" /\ new \in Status
        BY <4>1, OutreachAssumption DEF OnBoard
      <4> QED BY <3>1, <4>1, <4>2, OutreachLoads DEF Desk, OutreachLabels
    <3>4. ASSUME SetOutcome(r) PROVE OutreachInv'
      <4>1. PICK k \in Key, outcome \in {"replied", "rejected"} :
               /\ outreach[k].state # "free"
               /\ Launch(r, "outcome", Loaded("outcome", k, outcome))
        BY <3>4 DEF SetOutcome
      <4> QED BY <3>1, <4>1, OutreachLoads DEF Desk, OutreachLabels
    <3>5. ASSUME DeleteOutreach(r) PROVE OutreachInv'
      <4>1. PICK k \in OnBoard : Launch(r, "remove", Loaded("remove", k, None))
        BY <3>5 DEF DeleteOutreach
      <4>2. k \in Key /\ outreach[k].state # "free"
        BY <4>1 DEF OnBoard
      <4> QED BY <3>1, <4>1, <4>2, OutreachLoads DEF Desk, OutreachLabels
    <3> QED BY <2>1, <3>2, <3>3, <3>4, <3>5
  <2> DEFINE k == loc[r].key
             old == loc[r].row
             row == outreach[k]
  <2>2. ASSUME pc[r] \in OutreachLabels, pc'[r] \in Over
        PROVE  /\ k \in Key /\ old \in OutreachRow /\ row \in OutreachRow
               /\ pushed[k] \in Status
               /\ pc[r] = "ingest" => loc[r].value \in Hint
               /\ old.state # "free" => row.state # "free"
    BY <2>2 DEF OutreachInv, OutreachTyped, RowsStay
  <2> HIDE DEF k, old, row
  <2>3. CASE Insert(r)
    <3>1. pc[r] = "ingest" /\ old.state = "free" /\ handled' = handled
      BY <2>3 DEF Insert, old
    <3>2. pc'[r] \in Over
      BY <2>3, Desk DEF Insert, Answer, Finish, Broken, Goto, Desk, Placed, Over
    <3>3. CASE row.state # "free" /\ Broken(r) /\ UNCHANGED <<outreach, pushed>>
      <4>1. outreach' = [outreach EXCEPT ![k] = row]
        BY <3>3 DEF row, OutreachInv, OutreachTyped
      <4> QED BY <1>2, <2>2, <3>1, <3>2, <3>3, <4>1, OutreachSaves
          DEF k, row, OutreachInv, OutreachTyped, OutreachLabels
    <3>4. CASE row.state = "free" /\ Answer(r)
                /\ outreach' = [outreach EXCEPT ![k] =
                       [state |-> "live", status |-> IF loc[r].value = None THEN 0 ELSE loc[r].value,
                        lead |-> Resolved(Customer[k]), outcome |-> None]]
      <4> DEFINE w == [state |-> "live", status |-> IF loc[r].value = None THEN 0 ELSE loc[r].value,
                       lead |-> Resolved(Customer[k]), outcome |-> None]
      <4>1. w \in OutreachRow
        BY <2>2, <3>1, <3>2, ResolvedTyped DEF OutreachRow, Hint, Status, OutreachLabels
      <4>2. w.state = "live" /\ w.status = IF loc[r].value = None THEN 0 ELSE loc[r].value
        OBVIOUS
      <4>3. outreach' = [outreach EXCEPT ![k] = w]
        BY <3>4
      <4> HIDE DEF w
      <4>4. pushed[k] = 0 /\ row.status = 0
        BY <2>2, <3>1, <3>2, <3>4 DEF OutreachInv, RowsStay, row, OutreachLabels
      <4>5. /\ pushed' \in [Key -> Status]
            /\ \A j \in Key \ {k} : pushed'[j] = pushed[j]
            /\ pushed'[k] = w.status
        BY <2>2, <3>1, <3>2, <3>4, <4>2, <4>4, AnswerKeeps, OutreachAssumption
        DEF k, OutreachInv, OutreachLabels, Hint, Status
      <4> QED BY <1>2, <2>2, <3>1, <3>2, <4>1, <4>2, <4>3, <4>5, OutreachSaves
          DEF k, OutreachInv, OutreachTyped, OutreachLabels
    <3> QED BY <2>3, <3>3, <3>4 DEF Insert, Row, row, k
  <2>4. CASE Advance(r)
    <3>1. pc[r] = "ingest" /\ old.state # "free" /\ handled' = handled /\ Answer(r)
      BY <2>4 DEF Advance, old
    <3>2. pc'[r] \in Over
      BY <3>1, Desk DEF Answer, Finish, Goto, Desk, Placed, Over
    <3> DEFINE hint == loc[r].value
               higher == hint # None /\ hint > old.status
               w == IF higher THEN WrittenRow(row, old, [old EXCEPT !.status = hint]) ELSE row
    <3>3. [old EXCEPT !.status = hint] \in OutreachRow \/ ~higher
      BY <2>2, <3>1, <3>2 DEF OutreachRow, OutreachLabels, Hint
    <3>4. /\ w \in OutreachRow /\ w.state = row.state
          /\ w.status = IF higher THEN hint ELSE row.status
      <4>1. CASE higher
        <5> DEFINE new == [old EXCEPT !.status = hint]
        <5>1. new.state = old.state /\ new.status = hint /\ hint # old.status
          BY <2>2, <3>1, <3>2, <4>1, OutreachAssumption DEF OutreachRow, OutreachLabels, Hint, Status
        <5>2. new \in OutreachRow /\ old \in OutreachRow /\ row \in OutreachRow
          BY <2>2, <3>1, <3>2, <3>3, <4>1 DEF OutreachLabels
        <5>3. w = WrittenRow(row, old, new)
          BY <4>1
        <5> HIDE DEF new, w
        <5>4. /\ w \in OutreachRow
              /\ w.state = Written(row.state, old.state, new.state)
              /\ w.status = Written(row.status, old.status, new.status)
          BY <5>2, <5>3, OutreachWritten
        <5> QED BY <4>1, <5>1, <5>4 DEF Written
      <4>2. CASE ~higher
        BY <2>2, <3>1, <3>2, <4>2 DEF OutreachLabels
      <4> QED BY <4>1, <4>2
    <3>5. outreach' = [outreach EXCEPT ![k] = w]
      BY <2>4 DEF Advance, SaveRow, row, k, old, OutreachInv, OutreachTyped
    <3> HIDE DEF w
    <3>6. /\ pushed' \in [Key -> Status]
          /\ \A j \in Key \ {k} : pushed'[j] = pushed[j]
          /\ pushed'[k] = IF hint = None \/ hint < pushed[k] THEN pushed[k] ELSE hint
      BY <3>1, AnswerKeeps DEF k, OutreachInv
    <3>7. ~Met("push", "push") /\ k \notin handled => w.status = pushed'[k]
      <4> SUFFICES ASSUME ~Met("push", "push"), k \notin handled PROVE w.status = pushed'[k]
        OBVIOUS
      <4>1. old.status = row.status /\ row.status = pushed[k]
        BY <2>2, <3>1, <3>2 DEF OutreachInv, PushesAlone, PushedHighest, OutreachLabels, k, old, row
      <4> QED BY <2>2, <3>1, <3>2, <3>4, <3>6, <4>1, OutreachAssumption
          DEF OutreachLabels, Hint, Status
    <3> QED BY <1>2, <2>2, <3>1, <3>2, <3>4, <3>5, <3>6, <3>7, OutreachSaves
        DEF k, OutreachInv, OutreachTyped, OutreachLabels
  <2>5. CASE CommitMove(r)
    <3>1. pc[r] = "move" /\ Finish(r) /\ pushed' = pushed
      BY <2>5 DEF CommitMove
    <3>2. pc'[r] \in Over
      BY <3>1 DEF Finish, Goto, Desk, Placed, Over
    <3>3. old.state # "free" /\ row.state # "free" /\ loc[r].value \in Status
      BY <2>2, <3>1, <3>2 DEF OutreachInv, OutreachTyped, RowsStay, OutreachLabels, old
    <3>4. CASE old.status = Hired /\ UNCHANGED <<outreach, handled>>
      <4>1. outreach' = [outreach EXCEPT ![k] = row]
        BY <3>4 DEF row, OutreachInv, OutreachTyped
      <4> QED BY <1>2, <2>2, <3>1, <3>2, <3>3, <3>4, <4>1, OutreachSaves
          DEF k, row, OutreachInv, OutreachTyped, OutreachLabels
    <3>5. CASE /\ old.status # Hired
               /\ SaveRow(r, [old EXCEPT !.status = loc[r].value])
               /\ handled' = handled \cup {k}
      <4> DEFINE new == [old EXCEPT !.status = loc[r].value]
                 w == WrittenRow(row, old, new)
      <4>1. new \in OutreachRow /\ new.state = old.state
        BY <2>2, <3>1, <3>2, <3>3 DEF OutreachRow, OutreachLabels
      <4>2. outreach' = [outreach EXCEPT ![k] = w]
        BY <3>5 DEF SaveRow, row, k, old, OutreachInv, OutreachTyped
      <4> HIDE DEF new
      <4>3. w \in OutreachRow /\ w.state = Written(row.state, old.state, new.state)
        BY <2>2, <3>1, <3>2, <4>1, OutreachWritten DEF OutreachLabels
      <4> HIDE DEF w
      <4>4. w.state # "free"
        BY <3>3, <4>1, <4>3 DEF Written
      <4> QED BY <1>2, <2>2, <3>1, <3>2, <3>5, <4>2, <4>3, <4>4, OutreachSaves
          DEF k, OutreachInv, OutreachTyped, OutreachLabels
    <3> QED BY <2>5, <3>4, <3>5 DEF CommitMove, old, k
  <2>6. CASE CommitOutcome(r) \/ CommitRemoval(r)
    <3>1. pc[r] \in {"outcome", "remove"} /\ Finish(r) /\ UNCHANGED <<pushed, handled>>
      BY <2>6 DEF CommitOutcome, CommitRemoval
    <3>2. pc'[r] \in Over
      BY <3>1 DEF Finish, Goto, Desk, Placed, Over
    <3>3. old.state # "free" /\ row.state # "free"
      BY <2>2, <3>1, <3>2 DEF OutreachInv, RowsStay, OutreachLabels, old
    <3>4. PICK new \in OutreachRow : /\ new.status = old.status /\ new.state \in {old.state, "deleted"}
                                     /\ SaveRow(r, new)
      <4>1. CASE CommitOutcome(r)
        <5>1. loc[r].value \in {"replied", "rejected"} /\ SaveRow(r, [old EXCEPT !.outcome = loc[r].value])
          BY <4>1 DEF CommitOutcome, OutreachInv, OutreachTyped, old
        <5>2. [old EXCEPT !.outcome = loc[r].value] \in OutreachRow
          BY <2>2, <3>1, <3>2, <5>1 DEF OutreachRow, OutreachLabels
        <5>3. /\ [old EXCEPT !.outcome = loc[r].value].status = old.status
              /\ [old EXCEPT !.outcome = loc[r].value].state = old.state
          BY <2>2, <3>1, <3>2 DEF OutreachRow, OutreachLabels
        <5> QED BY <5>1, <5>2, <5>3
      <4>2. CASE CommitRemoval(r)
        <5>1. SaveRow(r, [old EXCEPT !.state = "deleted"])
          BY <4>2 DEF CommitRemoval, old
        <5>2. [old EXCEPT !.state = "deleted"] \in OutreachRow
          BY <2>2, <3>1, <3>2 DEF OutreachRow, OutreachLabels
        <5>3. /\ [old EXCEPT !.state = "deleted"].status = old.status
              /\ [old EXCEPT !.state = "deleted"].state = "deleted"
          BY <2>2, <3>1, <3>2 DEF OutreachRow, OutreachLabels
        <5> QED BY <5>1, <5>2, <5>3
      <4> QED BY <2>6, <4>1, <4>2
    <3> DEFINE w == WrittenRow(row, old, new)
    <3>5. outreach' = [outreach EXCEPT ![k] = w]
      BY <3>4 DEF SaveRow, row, k, old, OutreachInv, OutreachTyped
    <3>6. /\ w \in OutreachRow /\ w.state = Written(row.state, old.state, new.state)
          /\ w.status = Written(row.status, old.status, new.status)
      BY <2>2, <3>1, <3>2, OutreachWritten DEF OutreachLabels
    <3> HIDE DEF w
    <3>7. w.state # "free" /\ w.status = row.status
      BY <3>3, <3>4, <3>6 DEF Written
    <3> QED BY <1>2, <2>2, <3>1, <3>2, <3>3, <3>5, <3>6, <3>7, OutreachSaves
        DEF k, row, OutreachInv, OutreachTyped, OutreachLabels
  <2> QED BY <1>2, <2>1, <2>3, <2>4, <2>5, <2>6 DEF OutreachNext
<1> QED BY <1>1, <1>2 DEF OutreachStep

\* The board at the start.
LEMMA OutreachStarts == Init => OutreachInv
BY DEF Init, DeskInit, OutreachInit, NoOutreach, OutreachInv, OutreachTyped, OutreachRow,
       OutreachLabels, RowsStay, PushesAlone, PushedHighest, Status

\* Unless staff moved it, an outreach whose pushes did not overlap has the highest
\* status that any of them brought.
THEOREM PushedHighestHolds == Spec => []PushedHighest
<1>1. Init => Desk /\ OutreachInv
  BY DeskStarts, OutreachStarts
<1>2. Desk /\ OutreachInv /\ [Next]_vars => (Desk /\ OutreachInv)'
  BY Steps, OutreachKept
<1>3. OutreachInv => PushedHighest
  BY DEF OutreachInv
<1> QED BY <1>1, <1>2, <1>3, PTL DEF Spec


-----------------------------------------------------------------------------
(***************************************************************************)
(* Campaigns.  Open batches of one campaign hold different rows, as who    *)
(* inserts a row of another one waits; so each commit adds what it says.   *)
(***************************************************************************)
AnswersTyped ==
    /\ DOMAIN member = Camp /\ \A c \in Camp : member[c] \in SUBSET Listed
    /\ answered \in [Camp -> [added : Nat, named : SUBSET Nat]]

\* What an open batch inserted, and what it has yet to insert.
BatchOpen(l, rows) ==
    /\ l.camp \in Camp /\ l.todo \in Seq(Nat) /\ l.named \in SUBSET Nat
    /\ l.mine \in SUBSET Listed /\ l.added = Cardinality(l.mine)
    /\ l.mine \cap rows[l.camp] = {}
    /\ \A p \in l.named \cap Listed :
          p \in rows[l.camp] \cup l.mine \/ \E i \in 1 .. Len(l.todo) : l.todo[i] = p
BatchesOpen == \A r \in Req : pc[r] = "enrol" => BatchOpen(loc[r], member)

BatchesApart ==
    \A q, r \in Req :
        q # r /\ pc[q] = "enrol" /\ pc[r] = "enrol" /\ loc[q].camp = loc[r].camp =>
            loc[q].mine \cap loc[r].mine = {}

CampaignInv == AnswersTyped /\ BatchesOpen /\ BatchesApart /\ AnswersAddUp

\* One row of a batch: refused, or inserted by it alone.
LEMMA EnrolOneKeeps ==
  ASSUME Desk, CampaignInv, NEW r \in Req, Acts(r, CampaignLabels), EnrolOne(r)
  PROVE  CampaignInv'
<1>1. /\ pc[r] = "enrol" /\ loc[r].todo # <<>> /\ ~Waits(r)
      /\ UNCHANGED <<campaign, member, answered>>
  BY DEF EnrolOne, campaignVars
<1> DEFINE l == loc[r]
           p == Head(l.todo)
           c == l.camp
<1>2. BatchOpen(l, member) /\ DOMAIN l = {"op", "camp", "named", "todo", "mine", "added"}
  BY <1>1 DEF CampaignInv, BatchesOpen, Desk, CampaignKinds, CampaignKind
<1>3. /\ p \in Nat /\ Tail(l.todo) \in Seq(Nat)
      /\ \A n \in Nat : (\E i \in 1 .. Len(l.todo) : l.todo[i] = n) =>
            n = p \/ \E i \in 1 .. Len(Tail(l.todo)) : Tail(l.todo)[i] = n
  <2>1. l.todo \in Seq(Nat) /\ l.todo # <<>>
    BY <1>1, <1>2 DEF BatchOpen
  <2>2. p \in Nat /\ Tail(l.todo) \in Seq(Nat) /\ p = l.todo[1]
    BY <2>1
  <2>3. Len(Tail(l.todo)) = Len(l.todo) - 1 /\ Len(l.todo) \in Nat
        /\ \A i \in 1 .. Len(Tail(l.todo)) : Tail(l.todo)[i] = l.todo[i + 1]
    BY <2>1
  <2>4. ASSUME NEW n \in Nat, NEW i \in 1 .. Len(l.todo), l.todo[i] = n, n # p
        PROVE  \E h \in 1 .. Len(Tail(l.todo)) : Tail(l.todo)[h] = n
    <3>1. i # 1
      BY <2>2, <2>4
    <3>2. i - 1 \in 1 .. Len(Tail(l.todo)) /\ (i - 1) + 1 = i
      BY <2>3, <3>1
    <3> QED BY <2>3, <2>4, <3>2
  <2> QED BY <2>2, <2>4
<1>4. pc' = [pc EXCEPT ![r] = "enrol"]
      /\ (Refused(r) => loc' = [loc EXCEPT ![r] = [l EXCEPT !.todo = Tail(@)]])
      /\ (~Refused(r) => loc' = [loc EXCEPT ![r] =
              [l EXCEPT !.todo = Tail(@), !.added = @ + 1, !.mine = @ \cup {p}]])
  BY DEF EnrolOne, Goto, Turn
<1>5. \A q \in Req \ {r} : pc'[q] = pc[q] /\ loc'[q] = loc[q]
  BY DEF Acts
<1>6. pc'[r] = "enrol"
  BY <1>1, <1>4 DEF Desk, Placed
<1>7. /\ BatchOpen(loc'[r], member')
      /\ \A q \in Req \ {r} : pc[q] = "enrol" /\ loc[q].camp = c => loc[q].mine \cap loc'[r].mine = {}
      /\ loc'[r].camp = c
  <2>1. CASE Refused(r)
    <3>1. p \in member[c] \cup l.mine \/ p \notin Listed
      BY <2>1 DEF Refused, Turn
    <3>2. /\ loc'[r].todo = Tail(l.todo) /\ loc'[r].camp = c /\ loc'[r].named = l.named
          /\ loc'[r].mine = l.mine /\ loc'[r].added = l.added
      BY <1>2, <1>4, <2>1 DEF Desk, Placed
    <3>3. BatchOpen(loc'[r], member')
      BY <1>1, <1>2, <1>3, <3>1, <3>2 DEF BatchOpen
    <3> QED BY <1>1, <3>2, <3>3 DEF CampaignInv, BatchesApart
  <2>2. CASE ~Refused(r)
    <3>1. p \notin member[c] \cup l.mine /\ p \in Listed
      BY <2>2 DEF Refused, Turn
    <3>2. /\ loc'[r].todo = Tail(l.todo) /\ loc'[r].camp = c /\ loc'[r].named = l.named
          /\ loc'[r].mine = l.mine \cup {p} /\ loc'[r].added = l.added + 1
      <4>1. loc'[r] = [l EXCEPT !.todo = Tail(@), !.added = @ + 1, !.mine = @ \cup {p}]
        BY <1>4, <2>2 DEF Desk, Placed
      <4> QED BY <1>2, <4>1
    <3>3. Cardinality(l.mine \cup {p}) = Cardinality(l.mine) + 1
      <4>1. l.mine \subseteq Listed /\ IsFiniteSet(Listed)
        BY <1>2, CampaignAssumption DEF BatchOpen
      <4>2. IsFiniteSet(l.mine)
        BY <4>1, FS_Subset
      <4> QED BY <3>1, <4>2, FS_AddElement
    <3>4. BatchOpen(loc'[r], member')
      <4> HIDE DEF l, p, c
      <4>1. ASSUME NEW n \in l.named \cap Listed
            PROVE  n \in member[c] \cup loc'[r].mine
                     \/ \E i \in 1 .. Len(loc'[r].todo) : loc'[r].todo[i] = n
        BY <1>2, <1>3, <3>2, <4>1 DEF BatchOpen, c
      <4>2. loc'[r].mine \in SUBSET Listed /\ loc'[r].mine \cap member[c] = {}
        BY <1>2, <3>1, <3>2 DEF BatchOpen, c
      <4> QED BY <1>1, <1>2, <1>3, <3>2, <3>3, <4>1, <4>2 DEF BatchOpen, c
    <3>5. ASSUME NEW q \in Req \ {r}, pc[q] = "enrol", loc[q].camp = c
          PROVE  p \notin loc[q].mine /\ loc[q].mine \cap l.mine = {}
      <4>1. Enrols(q)
        BY <3>5 DEF Enrols, Active, Over, Desk, CampaignKinds, CampaignKind
      <4> QED BY <1>1, <3>5, <4>1 DEF Waits, Turn, CampaignInv, BatchesApart
    <3> QED BY <3>2, <3>4, <3>5
  <2> QED BY <2>1, <2>2
<1> HIDE DEF l, p, c
<1>8. AnswersTyped' /\ AnswersAddUp'
  BY <1>1 DEF CampaignInv, AnswersTyped, AnswersAddUp
<1>9. BatchesOpen'
  BY <1>1, <1>5, <1>7 DEF CampaignInv, BatchesOpen
<1>10. BatchesApart'
  BY <1>1, <1>5, <1>7 DEF CampaignInv, BatchesApart, c, l
<1> QED BY <1>8, <1>9, <1>10 DEF CampaignInv

\* The commit of a batch, and its answer.
LEMMA CommitBatchKeeps ==
  ASSUME Desk, CampaignInv, NEW r \in Req, Acts(r, CampaignLabels), CommitBatch(r)
  PROVE  CampaignInv'
<1> DEFINE l == loc[r]
           c == l.camp
<1>1. /\ pc[r] = "enrol" /\ l.todo = <<>> /\ Finish(r)
      /\ member' = [member EXCEPT ![c] = @ \cup l.mine]
      /\ answered' = [answered EXCEPT ![c].added = @ + l.added, ![c].named = @ \cup l.named]
  BY DEF CommitBatch
<1>2. BatchOpen(l, member)
  BY <1>1 DEF CampaignInv, BatchesOpen
<1>3. /\ \A q \in Req \ {r} : pc'[q] = pc[q] /\ loc'[q] = loc[q]
      /\ pc'[r] = "done"
  BY <1>1 DEF Acts, Finish, Goto, Desk, Placed
<1> HIDE DEF l
<1>4. /\ DOMAIN member' = Camp /\ member'[c] = member[c] \cup l.mine
      /\ \A b \in Camp \ {c} : member'[b] = member[b]
      /\ answered' \in [Camp -> [added : Nat, named : SUBSET Nat]]
      /\ answered'[c].added = answered[c].added + l.added
      /\ answered'[c].named = answered[c].named \cup l.named
      /\ \A b \in Camp \ {c} : answered'[b] = answered[b]
      /\ c \in Camp
  <2>1. IsFiniteSet(l.mine)
    BY <1>2, CampaignAssumption, FS_Subset DEF BatchOpen
  <2>2. l.added \in Nat
    BY <1>2, <2>1, FS_CardinalityType DEF BatchOpen
  <2> QED BY <1>1, <1>2, <2>2 DEF CampaignInv, AnswersTyped, BatchOpen
<1>5. AnswersTyped'
  BY <1>2, <1>4 DEF CampaignInv, AnswersTyped, BatchOpen
<1>6. AnswersAddUp'
  <2>1. Cardinality(member[c] \cup l.mine) = Cardinality(member[c]) + Cardinality(l.mine)
    <3>1. IsFiniteSet(l.mine) /\ IsFiniteSet(member[c])
      BY <1>2, <1>4, CampaignAssumption, FS_Subset DEF CampaignInv, AnswersTyped, BatchOpen
    <3>2. member[c] \cap l.mine = {} /\ Cardinality(member[c]) \in Nat /\ Cardinality(l.mine) \in Nat
      BY <1>2, <3>1, FS_CardinalityType DEF BatchOpen
    <3> QED BY <3>1, <3>2, FS_Union, FS_EmptySet
  <2>2. l.named \cap Listed \subseteq member[c] \cup l.mine
    BY <1>1, <1>2 DEF BatchOpen
  <2>3. /\ answered[c].added = Cardinality(member[c]) /\ l.added = Cardinality(l.mine)
        /\ answered[c].named \cap Listed \subseteq member[c]
    BY <1>2, <1>4 DEF CampaignInv, AnswersAddUp, BatchOpen
  <2>4. \A b \in Camp \ {c} : answered[b].added = Cardinality(member[b])
                              /\ answered[b].named \cap Listed \subseteq member[b]
    BY DEF CampaignInv, AnswersAddUp
  <2>5. answered'[c].added = Cardinality(member'[c]) /\ answered'[c].named \cap Listed \subseteq member'[c]
    BY <1>4, <2>1, <2>2, <2>3
  <2>6. ASSUME NEW b \in Camp
        PROVE  /\ answered'[b].added = Cardinality(member'[b])
               /\ answered'[b].named \cap Listed \subseteq member'[b]
    <3>1. CASE b = c
      BY <2>5, <3>1
    <3>2. CASE b # c
      BY <1>4, <2>4, <3>2
    <3> QED BY <3>1, <3>2
  <2> QED BY <2>6 DEF AnswersAddUp
<1>7. BatchesOpen'
  <2> SUFFICES \A q \in Req : pc'[q] = "enrol" => BatchOpen(loc'[q], member')
    BY DEF BatchesOpen
  <2> TAKE q \in Req
  <2> HAVE pc'[q] = "enrol"
  <2>1. q # r /\ pc[q] = "enrol" /\ loc'[q] = loc[q]
    BY <1>3
  <2>2. BatchOpen(loc[q], member)
    BY <2>1 DEF CampaignInv, BatchesOpen
  <2>3. loc[q].camp = c => loc[q].mine \cap l.mine = {}
    BY <1>1, <2>1 DEF CampaignInv, BatchesApart, l
  <2> QED BY <1>4, <2>1, <2>2, <2>3 DEF BatchOpen
<1>8. BatchesApart'
  BY <1>3 DEF CampaignInv, BatchesApart
<1> QED BY <1>5, <1>6, <1>7, <1>8 DEF CampaignInv

\* What else happens to campaigns leaves members and answers alone.
LEMMA CampaignKept ==
  ASSUME Desk, CampaignInv, CampaignStep
  PROVE  CampaignInv'
<1>1. ASSUME UNCHANGED <<member, answered>>,
             \A q \in Req : pc'[q] = "enrol" => pc[q] = "enrol" /\ loc'[q] = loc[q]
      PROVE  CampaignInv'
  <2>1. BatchesOpen'
    BY <1>1 DEF CampaignInv, BatchesOpen
  <2>2. BatchesApart'
    BY <1>1 DEF CampaignInv, BatchesApart
  <2> QED BY <1>1, <2>1, <2>2 DEF CampaignInv, AnswersTyped, AnswersAddUp
<1>2. CASE UNCHANGED campaignVars /\ Elsewhere(CampaignLabels)
  BY <1>1, <1>2 DEF campaignVars, Elsewhere, CampaignLabels
<1>3. ASSUME NEW r \in Req, CampaignsNext(r), Acts(r, CampaignLabels)
      PROVE  CampaignInv'
  <2>1. CASE CreateCampaign(r) \/ ChangeCampaign(r) \/ CommitCampaign(r) \/ CommitChange(r)
              \/ EnrolVictim(r)
    <3>1. UNCHANGED <<member, answered>>
      BY <2>1 DEF CreateCampaign, ChangeCampaign, CommitCampaign, CommitChange, EnrolVictim,
                  campaignVars
    <3>2. pc'[r] # "enrol"
      BY <2>1 DEF CreateCampaign, ChangeCampaign, CommitCampaign, CommitChange, EnrolVictim,
                  Launch, Finish, Broken, Goto, Desk, Placed
    <3> QED BY <1>1, <1>3, <3>1, <3>2 DEF Acts
  <2>2. CASE AddProspects(r)
    <3>1. PICK c \in Running, batch \in Batches :
            Launch(r, "enrol", [op |-> "enrol", camp |-> c, named |-> ToSet(batch),
                                todo |-> batch, mine |-> {}, added |-> 0])
      BY <2>2 DEF AddProspects
    <3> DEFINE l == [op |-> "enrol", camp |-> c, named |-> ToSet(batch),
                     todo |-> batch, mine |-> {}, added |-> 0]
    <3>2. loc'[r] = l /\ UNCHANGED <<member, answered>>
      BY <2>2, <3>1 DEF AddProspects, campaignVars, Launch, Desk, Placed
    <3>3. batch \in Seq(Nat) /\ c \in Camp
      BY CampaignAssumption DEF Running
    <3>4. BatchOpen(l, member)
      <4>1. ToSet(batch) = {batch[i] : i \in 1 .. Len(batch)}
        BY <3>3 DEF ToSet
      <4>2. ToSet(batch) \in SUBSET Nat
        BY <3>3, <4>1
      <4> QED BY <3>3, <4>1, <4>2, FS_EmptySet DEF BatchOpen
    <3>5. /\ l.mine = {} /\ \A q \in Req \ {r} : pc'[q] = pc[q] /\ loc'[q] = loc[q]
      BY <1>3 DEF Acts
    <3> HIDE DEF l
    <3>6. BatchesOpen'
      BY <3>2, <3>4, <3>5 DEF CampaignInv, BatchesOpen
    <3>7. BatchesApart'
      BY <3>2, <3>5 DEF CampaignInv, BatchesApart
    <3> QED BY <3>2, <3>6, <3>7 DEF CampaignInv, AnswersTyped, AnswersAddUp
  <2> QED BY <1>3, <2>1, <2>2, EnrolOneKeeps, CommitBatchKeeps DEF CampaignsNext
<1> QED BY <1>2, <1>3 DEF CampaignStep

\* Before the first batch.
LEMMA CampaignStarts == Init => CampaignInv
BY FS_EmptySet DEF Init, DeskInit, CampaignsInit, CampaignInv, AnswersTyped, BatchesOpen,
   BatchesApart, AnswersAddUp

\* The answers of the batches add up to the members of the campaign, and everyone whom
\* an answered batch named is one.
THEOREM AnswersAddUpHolds == Spec => []AnswersAddUp
<1>1. Init => Desk /\ CampaignInv
  BY DeskStarts, CampaignStarts
<1>2. Desk /\ CampaignInv /\ [Next]_vars => (Desk /\ CampaignInv)'
  BY Steps, CampaignKept
<1>3. CampaignInv => AnswersAddUp
  BY DEF CampaignInv
<1> QED BY <1>1, <1>2, <1>3, PTL DEF Spec
===============================================================================
