--------------------------- MODULE FunnelSnapshot ---------------------------
(***************************************************************************)
(* The worker's daily snapshot of the funnel, run and run again on one     *)
(* day: a row per stage, channel and owner, and a row per stage for all.   *)
(*                                                                         *)
(* The upsert relies on the unique key uk_fds_dimension_env, which spans   *)
(* the environment that a snapshot leaves NULL: MySQL never finds a        *)
(* duplicate.  For keys with a NULL of their own the code looks for the    *)
(* row itself.                                                             *)
(***************************************************************************)
EXTENDS HeatBoard

CONSTANT Source   \* live lead |-> [channel, owner]

\* source_channel is NOT NULL, owner_user_id may be NULL.
ASSUME SourceAssumption == \A p \in Warm : Source[p].channel # None

VARIABLE daily    \* rows of today in funnel_daily_snapshots, as counts per key

FunnelKeys ==
    {"cold", "unsubscribed"} \X ({Source[p].channel : p \in Warm} \cup {None})
                             \X ({Source[p].owner : p \in Warm} \cup {None})
FunnelInit == daily = [k \in FunnelKeys |-> <<>>]

\* GROUP BY: the leads of each group that has any, a group being a value of a
\* function on leads.
Grouped(group) ==
    {[key |-> k, count |-> Cardinality({p \in Warm : group[p] = k})] :
        k \in {group[p] : p \in Warm}}
ByDimension ==
    Grouped([p \in Warm |-> <<heat[p].stage, Source[p].channel, Source[p].owner>>])
ByStage == Grouped([p \in Warm |-> <<heat[p].stage, None, None>>])

Snapshot(r) ==
    /\ \A q \in Active : loc[q].op # "snapshot"
    /\ Launch(r, "dimensions", [op |-> "snapshot", todo |-> ByDimension])
    /\ UNCHANGED <<heatVars, daily>>

\* Mutant: the row is looked for with = NULL, which no row satisfies.
UpsertedAnew(k, count) == [daily EXCEPT ![k] = Append(@, count)]

\* INSERT ... ON DUPLICATE KEY UPDATE, or look, then update or insert.  No other
\* transaction writes the table in between.
Upserted(k, count) ==
    [daily EXCEPT ![k] =
        IF None \notin {k[2], k[3]} \/ @ = <<>> THEN Append(@, count) ELSE <<count>>]

\* One group, in a transaction of its own.
Upsert(r) ==
    /\ pc[r] \in {"dimensions", "rollup"}
    /\ \E g \in loc[r].todo :
          /\ daily' = Upserted(g.key, g.count)
          /\ Goto(r, pc[r], [loc[r] EXCEPT !.todo = @ \ {g}])
    /\ UNCHANGED heatVars

\* The second query counts by stage, in a snapshot of its own.
RollUp(r) ==
    /\ pc[r] = "dimensions" /\ loc[r].todo = {}
    /\ Goto(r, "rollup", [loc[r] EXCEPT !.todo = ByStage])
    /\ UNCHANGED <<heatVars, daily>>

Rolled(r) ==
    /\ pc[r] = "rollup" /\ loc[r].todo = {}
    /\ Finish(r)
    /\ UNCHANGED <<heatVars, daily>>

-----------------------------------------------------------------------------
FunnelNext(r) == Snapshot(r) \/ Upsert(r) \/ RollUp(r) \/ Rolled(r)
=============================================================================
