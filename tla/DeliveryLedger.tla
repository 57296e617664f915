--------------------------- MODULE DeliveryLedger ---------------------------
(***************************************************************************)
(* What webhook_deliveries promises the sender of an event: an event is    *)
(* admitted when it is new or after it failed, an admission ingests it at  *)
(* most once, and only an ingested event is settled as processed.          *)
(***************************************************************************)
EXTENDS Naturals

CONSTANT Event

VARIABLES status,    \* of each event's delivery
          ingests,   \* how often each event was ingested
          open       \* events with an admission that has not ingested yet

vars == <<status, ingests, open>>

Init ==
    /\ status = [e \in Event |-> "absent"]
    /\ ingests = [e \in Event |-> 0]
    /\ open = {}

\* A new event is received, a failed one is received again.
Admit(e) ==
    /\ status[e] \in {"absent", "failed"}
    /\ status' = [status EXCEPT ![e] = "received"]
    /\ open' = open \cup {e}
    /\ UNCHANGED ingests

\* Its effects are recorded.
Ingest(e) ==
    /\ e \in open
    /\ ingests' = [ingests EXCEPT ![e] = @ + 1]
    /\ open' = open \ {e}
    /\ UNCHANGED status

\* The attempts for some events are given up or lost.
Drop(lost) ==
    /\ lost # {} /\ lost \subseteq open
    /\ open' = open \ lost
    /\ UNCHANGED <<status, ingests>>

Settle(e) ==
    /\ status[e] = "received" /\ e \notin open
    /\ \/ ingests[e] > 0 /\ status' = [status EXCEPT ![e] = "processed"]
       \/ status' = [status EXCEPT ![e] = "failed"]
    /\ UNCHANGED <<ingests, open>>

Next ==
    \/ \E e \in Event : Admit(e) \/ Ingest(e) \/ Settle(e)
    \/ \E lost \in SUBSET Event : Drop(lost)

Spec == Init /\ [][Next]_vars
=============================================================================
