----------------------------- MODULE BackOffice -----------------------------
(***************************************************************************)
(* Outreach, job intake, heat, funnel, campaigns and activation side by    *)
(* side: requests and worker jobs that share the server but few tables.    *)
(***************************************************************************)
EXTENDS Outreach, JobIntake, FunnelSnapshot, Campaigns, ActivationSync

\* Bound: the sets of kinds of requests that occur together in one behaviour.
CONSTANT Mixes

VARIABLE mix      \* the set of this behaviour

leadsVars == <<heatVars, daily>>
vars == <<desk, outreachVars, intakeVars, leadsVars, campaignVars, activationVars, mix>>

Init ==
    /\ DeskInit /\ OutreachInit /\ IntakeInit /\ HeatInit /\ FunnelInit
    /\ CampaignsInit /\ ActivationInit
    /\ mix \in Mixes

\* Nobody works: not a deadlock.
Quiet == Active = {} /\ UNCHANGED vars

Step(r) ==
    /\ \/ /\ OutreachNext(r)
          /\ UNCHANGED <<intakeVars, leadsVars, campaignVars, activationVars>>
       \/ /\ IntakeNext(r)
          /\ UNCHANGED <<outreachVars, leadsVars, campaignVars, activationVars>>
       \/ /\ (HeatNext(r) /\ UNCHANGED daily) \/ FunnelNext(r)
          /\ UNCHANGED <<outreachVars, intakeVars, campaignVars, activationVars>>
       \/ /\ CampaignsNext(r)
          /\ UNCHANGED <<outreachVars, intakeVars, leadsVars, activationVars>>
       \/ /\ ActivationNext(r)
          /\ UNCHANGED <<outreachVars, intakeVars, leadsVars, campaignVars>>
       \/ /\ Abort(r)
          /\ UNCHANGED <<outreachVars, intakeVars, leadsVars, campaignVars, activationVars>>
    /\ loc'[r].op \in mix \cup {None}
    /\ UNCHANGED mix

Next ==
    \/ \E r \in Req : Step(r)
    \/ /\ "sync" \in mix /\ Grow
       /\ UNCHANGED <<outreachVars, intakeVars, leadsVars, campaignVars, mix>>
    \/ Quiet

Spec == Init /\ [][Next]_vars

-----------------------------------------------------------------------------
(***************************************************************************)
(* What people entered in a job stands against the events of HH-BE: a      *)
(* title or link of a job is replaced only by an edit, while it is the     *)
(* default or blank, or by an event that met an edit or another event,     *)
(* whose earlier load writes over the other (prospect_company_jobs/        *)
(* routes.py:733).  The status of an outreach does not stand:              *)
(* HandMovedStays below.                                                   *)
(***************************************************************************)
CuratedStays(r) ==
    \A j \in Here :
        \/ job[j].title \in {"default", job'[j].title} /\ job[j].link \in {None, job'[j].link}
        \/ loc[r].op = "edit" \/ Met("publish", "edit") \/ Met("publish", "publish")
HandworkStands == [][\A r \in Req : pc'[r] # pc[r] => CuratedStays(r)]_vars

(***************************************************************************)
(* Pushes of one outreach may arrive twice and in any order: unless staff  *)
(* moved it, the outreach has the highest status that an answered push     *)
(* brought, except behind pushes that overlapped, each of which compares   *)
(* with the status it loaded (candidate_outreach/crud.py:126-151).         *)
(***************************************************************************)
PushedHighest ==
    \A k \in Key \ handled :
        outreach[k].state # "free" /\ ~Met("push", "push") => outreach[k].status = pushed[k]

(***************************************************************************)
(* candidates_prepared is the number of candidates that were not dropped,  *)
(* once nobody adds or drops one, unless two of these met, or one died     *)
(* between the candidate's commit and the count's                          *)
(* (prospect_company_jobs/crud.py:438-447).                                *)
(***************************************************************************)
PreparedCounts ==
    LET counting == {"add", "drop"} IN
    \/ \E a, b \in counting : Met(a, b) \/ a \in died
    \/ \E r \in Active : loc[r].op \in counting
    \/ \A j \in Here :
          job[j].prepared = Cardinality({c \in Proposed : candidate[c].job = j})

(***************************************************************************)
(* What became of an event that nobody works on.  A processed one has its  *)
(* job.  A failed one named no company, met a fault or whoever inserted    *)
(* the company meanwhile, or names a domain that a deleted company holds,  *)
(* which no retry gets past (companies/crud.py:112).  One stays received   *)
(* only behind a death or a job inserted meanwhile, whose refusal breaks   *)
(* the session that was to mark it (prospect_company_jobs/routes.py:774).  *)
(***************************************************************************)
EventsLand ==
    \A k \in DOMAIN Events :
        LET e == Events[k]
            beside(kinds) == \E other \in kinds : Met("publish", other)
        IN \/ \E r \in Active : loc[r].op = "publish" /\ loc[r].key = k
           \/ inbox[k] = "none"
           \/ inbox[k] = "processed" /\ Published(e.ext) # {}
           \/ /\ inbox[k] = "failed"
              /\ \/ e.company = None \/ faults > 0 \/ beside({"publish", "firm", "apollo"})
                 \/ Holders(e.company) # {} /\ e.company \notin Known
           \/ inbox[k] = "received" /\ ("publish" \in died \/ beside({"publish", "make"}))

(***************************************************************************)
(* Whatever the routes did to the heat, behind a recalculation that no     *)
(* heating request overlapped score and level are those of the events; and *)
(* requests that run one by one do not drift from the events at all        *)
(* (heat_recalc.py:21-29).                                                 *)
(***************************************************************************)
HeatSettles ==
    LET kinds == Heaters \cup {"recalc"}
        serial == \A a, b \in kinds : ~Met(a, b) /\ a \notin died
    IN (\A r \in Active : loc[r].op \notin kinds) /\ (calm = "yes" \/ serial) =>
          \A p \in Warm : heat[p].score = points[p] /\ heat[p].level = Bucket(points[p])

(***************************************************************************)
(* However often the snapshot ran or died before on that day, a run that   *)
(* no event overlapped ends with one row of each stage, which the          *)
(* dashboards add up, and of each channel without owner that have leads,   *)
(* and the row is their number; of the others, with at most one row, of an *)
(* earlier run.  That is what the code keeps of "overwrite, never          *)
(* duplicate" (funnel_snapshot.py:40): of a row with channel and owner     *)
(* each run inserts another, because the unique key that                   *)
(* funnel_snapshots/crud.py:49 relies on spans a column that stays NULL.   *)
(***************************************************************************)
Counted(k) ==
    {p \in Warm : k \in {<<heat[p].stage, None, None>>,
                        <<heat[p].stage, Source[p].channel, Source[p].owner>>}}
RunEnds(r) == pc[r] = "rollup" /\ loc[r].todo = {} /\ pc'[r] = "done"
RollupsOverwritten ==
    [][(\E r \in Req : RunEnds(r)) /\ ~Met("event", "snapshot") =>
          \A k \in FunnelKeys : None \in {k[2], k[3]} =>
             IF Counted(k) = {} THEN Len(daily[k]) <= 1
             ELSE daily[k] = <<Cardinality(Counted(k))>>]_vars

(***************************************************************************)
(* The answers of the batches add up: a campaign has as many members as    *)
(* its batches say they added, however they overlap and whichever of them  *)
(* is rolled back, and everyone an answered batch named is a member        *)
(* (campaigns/crud.py:135-158).                                            *)
(***************************************************************************)
AnswersAddUp ==
    \A c \in Camp :
        /\ answered[c].added = Cardinality(member[c])
        /\ answered[c].named \cap Listed \subseteq member[c]

(***************************************************************************)
(* A first job or applicant is alerted at most once, and an applicant's,   *)
(* which no event stores, whenever a sync that did not die stamped it.     *)
(* Behind a sync the counts are HH-BE's, of each lead whose call did not   *)
(* fail and that nothing else touched meanwhile (activation_sync.py:92-    *)
(* 150: leads are loaded at the start and written one by one).             *)
(***************************************************************************)
SyncSettles ==
    LET settled == "sync" \notin died /\ \A r \in Req : ~Syncs(r) IN
    \A p \in Promoted :
        /\ \A k \in Kind : alerts[p][k] <= 1
        /\ settled => /\ "applicant" \in milestone[p].first <=> alerts[p].applicant = 1
                      /\ p \notin touched => milestone[p].count = account[p]

-----------------------------------------------------------------------------
(***************************************************************************)
(* A claim of the repository that the code does not keep: "Admin manual    *)
(* moves remain authoritative - auto-pushes never undo them", and hired is *)
(* permanent (candidate_outreach/crud.py:138-139, 296-298).  An outreach   *)
(* that staff moved, once hired, stays hired.                              *)
(***************************************************************************)
HandMovedStays ==
    [][\A k \in handled : outreach[k].status = Hired => outreach'[k].status = Hired]_vars
=============================================================================
