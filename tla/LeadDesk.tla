------------------------------- MODULE LeadDesk -------------------------------
(***************************************************************************)
(* All requests that work on the prospects table side by side: the routes  *)
(* of prospects, signups, landing pages, unsubscribes and webhooks.        *)
(***************************************************************************)
EXTENDS LeadRoutes, SignupOtp, ProviderWebhooks

vars == <<lead, desk, moved, routes, public, hooks>>

Init == LeadInit /\ RoutesInit /\ SignupInit /\ WebhookInit

\* Nobody works: not a deadlock.
Quiet == Active = {} /\ UNCHANGED vars

Next ==
    \/ \E r \in Req :
          \/ RoutesNext(r) /\ UNCHANGED <<public, hooks>>
          \/ SignupNext(r) /\ UNCHANGED <<routes, hooks>>
          \/ WebhookNext(r) /\ UNCHANGED <<routes, public>>
          \/ Abort(r) /\ UNCHANGED <<lead, moved, routes, public, hooks>>
    \/ (CoolDown \/ Restart) /\ UNCHANGED <<routes, hooks>>
    \/ Quiet

Spec == Init /\ [][Next]_vars

-----------------------------------------------------------------------------
(***************************************************************************)
(* Two live leads share an email only if Apollo brought the email, which   *)
(* its webhook does not look for (webhooks/routes.py:252-268), or if two   *)
(* requests that give a lead its email were under way together: each of    *)
(* them looks for the email in its own snapshot (dedupe.find_existing).    *)
(***************************************************************************)
Namers == {"create", "patch", "import", "verify"}
OnePerEmail ==
    \A p, q \in LiveIn(lead) :
        p # q /\ lead[p].email = lead[q].email /\ lead[p].email # None =>
            \/ \E k \in DOMAIN Hooks : /\ Hooks[k].kind = "contact" /\ applied[k] > 0
                                       /\ Hooks[k].card.email = lead[p].email
            \/ \E a, b \in Namers : Met(a, b)

(***************************************************************************)
(* decide_merge looks at neither the decision nor kept # merged, yet the   *)
(* prospect it keeps goes only by a later merge or by a person's deletion: *)
(* every merged prospect leads on to one that lives or was removed, unless *)
(* two decisions overlapped.  (A prospect merged into itself is gone.)     *)
(***************************************************************************)
MergeKeepsOne ==
    \A i \in DOMAIN mergeLog :
        LET kept == mergeLog[i][1] IN
        kept # mergeLog[i][2] =>
            \/ lead[kept].state = "live" \/ kept \in removed
            \/ \E j \in DOMAIN mergeLog : j > i /\ mergeLog[j][2] = kept
            \/ Met("decide", "decide")

(***************************************************************************)
(* promote_to_thh reads thh_user_id, awaits HH-BE and writes the id.  An   *)
(* account whose id did not arrive (a timeout, an answer without users_id: *)
(* prospects/routes.py:717-737) leaves the lead open to the next promotion,*)
(* which asks for another.  Otherwise a lead gets one, and an id that      *)
(* arrived is stored, unless two promotions overlapped or one died behind  *)
(* the call.                                                               *)
(***************************************************************************)
OneAccount ==
    \A p \in Pid :
        \/ /\ accounts[p].made <= accounts[p].unheard + 1
           /\ accounts[p].made > accounts[p].unheard =>
                 \/ lead[p].uid # None
                 \/ \E r \in Active : loc[r].op = "promote" /\ loc[r].lead = p
        \/ Met("promote", "promote") \/ "promote" \in died

(***************************************************************************)
(* A lead whose opt-out is on record is unsubscribed until a person moves   *)
(* or promotes it: visits, demos, contacts and signups leave the stage     *)
(* alone.  Only a visit that read the lead before the opt-out may write    *)
(* over it, and an opt-out that dies behind its row leaves the lead where  *)
(* it was for good, since the next finds the row (unsubscribes/routes.py:  *)
(* 43).                                                                    *)
(***************************************************************************)
StaysOut ==
    \A p \in out :
        \/ lead[p].stage = "unsubscribed" \/ Met("optout", "visit") \/ "optout" \in died
        \/ \E r \in Active : loc[r].op = "optout" /\ loc[r].lead = p

(***************************************************************************)
(* A verified signup has a registered lead, which lives unless a person    *)
(* removed it or a merge did, or a verify still works on it.  A verify     *)
(* that dies behind mark_otp_verified strands the signup, since the next   *)
(* one is answered "already verified" (signups/routes.py:353).             *)
(***************************************************************************)
VerifiedHasLead ==
    \A s \in Open : signup[s].verified =>
        \/ LET p == signup[s].lead IN
           /\ p # None /\ lead[p].registered
           /\ \/ lead[p].state = "live" \/ p \in removed
              \/ \E i \in DOMAIN mergeLog : mergeLog[i][2] = p
        \/ \E r \in Active : loc[r].op = "verify" /\ loc[r].arg.sid = s
        \/ "verify" \in died

(***************************************************************************)
(* One password a minute from each worker, which is all that the table of  *)
(* the last sends can do (signups/routes.py:81-83): resends that different *)
(* workers answer get past it one by one.  Within a worker, the cooldown   *)
(* is read, HH-BE awaited and the time noted behind its answer (:294-305), *)
(* so what gets past it is one more mail for each whose answer was lost,   *)
(* sends that overlapped, and those behind a restart.                      *)
(***************************************************************************)
OneSendAMinute ==
    \A x \in Worker \X Sid : sends[x].mailed > sends[x].unheard + 1 =>
        Met("resend", "resend") \/ Met("signup", "resend") \/ "worker" \in died

(***************************************************************************)
(* The counters of landing page and variants, bumped from loaded values,   *)
(* never exceed the recorded visits, and agree with them when no visits    *)
(* overlapped, none died and none is under way.                            *)
(***************************************************************************)
Seen(v) == Cardinality({i \in DOMAIN visits : visits[i] = v})
VisitsCounted ==
    LET quiet == ~Met("visit", "visit") /\ "visit" \notin died
                    /\ \A r \in Active : loc[r].op # "visit"
    IN /\ counts.page <= Len(visits) /\ (quiet => counts.page = Len(visits))
       /\ \A v \in Variant : /\ counts.visit[v] <= Seen(v)
                             /\ quiet => counts.visit[v] = Seen(v)

(***************************************************************************)
(* A provider's delivery is applied once, however often it is sent, unless *)
(* an attempt was marked failed and so may be replayed.                    *)
(***************************************************************************)
HookAppliedOnce ==
    \A k \in DOMAIN Hooks : applied[k] > 1 => k \in failures

(***************************************************************************)
(* prospects/routes.py:790-796 promises a report {created, skipped,        *)
(* errors} of every import: an import that a refused row does not let end  *)
(* in a report is one that died.                                           *)
(***************************************************************************)
ImportReports ==
    [][\A r \in Req : loc[r].op = "import" /\ pc'[r] = "error" => aborts' # aborts]_vars
=============================================================================
