----------------------------- MODULE Campaigns -----------------------------
(***************************************************************************)
(* Campaigns and the leads that are added to them in batches.              *)
(*                                                                         *)
(* A batch is one transaction.  Each of its rows is inserted in a          *)
(* SAVEPOINT: a duplicate takes back its own row and no other.  A row that *)
(* an open batch inserted is locked: who inserts it too waits.             *)
(***************************************************************************)
EXTENDS Sessions

CONSTANTS
    Camp,         \* ids of campaigns, handed out in increasing order
    Listed,       \* ids of the prospects that exist, deleted or not
    Batches,      \* bound: the lists of prospect ids that are added
    Campaigned    \* the campaigns table at the start

ASSUME CampaignAssumption ==
    /\ Camp \subseteq Nat /\ IsFiniteSet(Listed)
    /\ Batches \subseteq Seq(Nat) \ {<<>>}

VARIABLES
    campaign,     \* campaigns
    member,       \* campaign_prospects, committed: the prospects of each campaign
    answered      \* history: what the answers of the batches of a campaign claim

campaignVars == <<campaign, member, answered>>

NoCampaign == [state |-> "free", name |-> "first", status |-> "draft"]

CampaignsInit ==
    /\ campaign = Campaigned
    /\ member = [c \in Camp |-> {}]
    /\ answered = [c \in Camp |-> [added |-> 0, named |-> {}]]

Running == {c \in Camp : campaign[c].state = "live"}

-----------------------------------------------------------------------------
(***************************************************************************)
(* POST, PATCH and DELETE /api/campaigns, and POST /{id}/status, which     *)
(* knows no order of the statuses.                                         *)
(***************************************************************************)
CreateCampaign(r) ==
    /\ Launch(r, "create_campaign", [op |-> "campaign"])
    /\ UNCHANGED campaignVars

CommitCampaign(r) ==
    LET free == {c \in Camp : campaign[c].state = "free"} IN
    /\ pc[r] = "create_campaign" /\ free # {}
    /\ campaign' = [campaign EXCEPT ![Min(free)].state = "live"]
    /\ Finish(r)
    /\ UNCHANGED <<member, answered>>

ChangeCampaign(r) ==
    \E c \in Running,
       change \in {[name |-> "second"], [status |-> "active"], [state |-> "deleted"]} :
        /\ Launch(r, "change_campaign",
                  [op |-> "campaign", camp |-> c, row |-> campaign[c], change |-> change])
        /\ UNCHANGED campaignVars

CommitChange(r) ==
    /\ pc[r] = "change_campaign"
    /\ campaign' = [campaign EXCEPT ![loc[r].camp] =
                       WrittenRow(@, loc[r].row, With(loc[r].row, loc[r].change))]
    /\ Finish(r)
    /\ UNCHANGED <<member, answered>>

-----------------------------------------------------------------------------
(***************************************************************************)
(* POST /{id}/prospects                                                    *)
(***************************************************************************)
AddProspects(r) ==
    \E c \in Running, batch \in Batches :
        /\ Launch(r, "enrol", [op |-> "enrol", camp |-> c, named |-> ToSet(batch),
                               todo |-> batch, mine |-> {}, added |-> 0])
        /\ UNCHANGED campaignVars

Enrols(q) == q \in Active /\ loc[q].op = "enrol"
Turn(r) == Head(loc[r].todo)

\* Another open batch has inserted the row that r is about to insert.
Waits(r) ==
    \E q \in Req \ {r} :
        Enrols(q) /\ loc[q].camp = loc[r].camp /\ Turn(r) \in loc[q].mine

\* The primary key refuses a member, the foreign key an id that names nobody.
Refused(r) ==
    \/ Turn(r) \in member[loc[r].camp] \cup loc[r].mine
    \/ Turn(r) \notin Listed

\* Mutant: no SAVEPOINT, a refused row takes back the rows before it.
EnrolOneFlat(r) ==
    /\ pc[r] = "enrol" /\ loc[r].todo # <<>> /\ ~Waits(r)
    /\ Goto(r, "enrol",
            IF Refused(r) THEN [loc[r] EXCEPT !.todo = Tail(@), !.mine = {}]
            ELSE [loc[r] EXCEPT !.todo = Tail(@), !.added = @ + 1,
                                !.mine = @ \cup {Turn(r)}])
    /\ UNCHANGED campaignVars

EnrolOne(r) ==
    /\ pc[r] = "enrol" /\ loc[r].todo # <<>> /\ ~Waits(r)
    /\ Goto(r, "enrol",
            IF Refused(r) THEN [loc[r] EXCEPT !.todo = Tail(@)]
            ELSE [loc[r] EXCEPT !.todo = Tail(@), !.added = @ + 1,
                                !.mine = @ \cup {Turn(r)}])
    /\ UNCHANGED campaignVars

\* A batch that waits may be the victim of a deadlock or of the lock's timeout: its
\* transaction is rolled back and it is answered with a 500.
EnrolVictim(r) ==
    /\ pc[r] = "enrol" /\ loc[r].todo # <<>> /\ Waits(r)
    /\ Broken(r)
    /\ UNCHANGED campaignVars

\* The commit, and the answer {added, skipped}.
CommitBatch(r) ==
    LET c == loc[r].camp IN
    /\ pc[r] = "enrol" /\ loc[r].todo = <<>>
    /\ member' = [member EXCEPT ![c] = @ \cup loc[r].mine]
    /\ answered' = [answered EXCEPT ![c].added = @ + loc[r].added,
                                    ![c].named = @ \cup loc[r].named]
    /\ Finish(r)
    /\ UNCHANGED campaign

-----------------------------------------------------------------------------
CampaignsNext(r) ==
    \/ CreateCampaign(r) \/ CommitCampaign(r) \/ ChangeCampaign(r) \/ CommitChange(r)
    \/ AddProspects(r) \/ EnrolOne(r) \/ EnrolVictim(r) \/ CommitBatch(r)
=============================================================================
