----------------------------- MODULE Companies -----------------------------
(***************************************************************************)
(* Companies: the routes of the staff, the lookup by domain that every     *)
(* intake uses, and the company of each contact that Apollo's sync pulls.  *)
(*                                                                         *)
(* A deleted company keeps its row and its domain, which is UNIQUE, but no *)
(* lookup finds it.  Other columns and the audit rows are left out.  The   *)
(* sync's lead is left out too: its lookup calls a function that does not  *)
(* exist, so no contact gets further than its company.                     *)
(***************************************************************************)
EXTENDS Sessions

CONSTANTS
    Fid,            \* ids of companies, handed out in increasing order
    Firms,          \* the table at the start
    NewDomains,     \* domains staff may create a company with, or None
    FirmChanges,    \* bound: the edits of staff, as functions from columns to values
    Contacts        \* the domains of the contacts of one run of Apollo's sync

ASSUME FirmAssumption ==
    /\ Fid \subseteq Nat
    /\ \A change \in FirmChanges : DOMAIN change \subseteq {"domain"}

VARIABLE firm       \* companies

NoFirm == [state |-> "free", domain |-> None, enriched |-> FALSE]

\* The table the behaviour starts from obeys UNIQUE (domain).
ASSUME FirmsAssumption ==
    /\ DOMAIN Firms = Fid
    /\ \A f \in Fid : /\ DOMAIN Firms[f] = DOMAIN NoFirm
                      /\ Firms[f].state \in {"free", "live", "deleted"}
    /\ \A f, g \in Fid :
          /\ Firms[f].state # "free" /\ Firms[g].state # "free"
          /\ Firms[f].domain = Firms[g].domain /\ Firms[f].domain # None
          => f = g

LiveFirms == {f \in Fid : firm[f].state = "live"}

\* get_by_domain
Known == {firm[f].domain : f \in LiveFirms}
\* UNIQUE (domain): by whom a domain is held
Holders(d) == {f \in Fid : d # None /\ firm[f].state # "free" /\ firm[f].domain = d}

InsertFirm(d) ==
    LET free == {f \in Fid : firm[f].state = "free"} IN
    /\ free # {}
    /\ firm' = [firm EXCEPT ![Min(free)] = [NoFirm EXCEPT !.state = "live", !.domain = d]]

-----------------------------------------------------------------------------
(***************************************************************************)
(* POST /companies; PATCH, enrich and DELETE /companies/{id}               *)
(***************************************************************************)
\* A domain that is known is answered with 409.
CreateFirm(r) ==
    \E d \in NewDomains :
        /\ d = None \/ d \notin Known
        /\ Launch(r, "create_firm", [op |-> "firm", domain |-> d])
        /\ UNCHANGED firm

CommitFirm(r) ==
    LET d == loc[r].domain IN
    /\ pc[r] = "create_firm"
    /\ \/ Holders(d) # {} /\ Broken(r) /\ UNCHANGED firm
       \/ Holders(d) = {} /\ InsertFirm(d) /\ Finish(r)

ChangeFirm(r) ==
    \E f \in LiveFirms, change \in FirmChanges \cup {[enriched |-> TRUE], [state |-> "deleted"]} :
        /\ Launch(r, "change_firm",
                  [op |-> "firm", firm |-> f, row |-> firm[f], change |-> change])
        /\ UNCHANGED firm

\* The flush is refused when another row holds the new domain.
CommitFirmChange(r) ==
    LET f == loc[r].firm
        new == WrittenRow(firm[f], loc[r].row, With(loc[r].row, loc[r].change))
    IN /\ pc[r] = "change_firm"
       /\ \/ Holders(new.domain) \ {f} # {} /\ Broken(r) /\ UNCHANGED firm
          \/ /\ Holders(new.domain) \subseteq {f}
             /\ firm' = [firm EXCEPT ![f] = new] /\ Finish(r)

-----------------------------------------------------------------------------
(***************************************************************************)
(* apollo_sync: one session pulls all contacts.  What it sees is a         *)
(* snapshot, which only the commit behind an insert renews.                *)
(***************************************************************************)
StartApollo(r) ==
    /\ Launch(r, "contact", [op |-> "apollo", left |-> Contacts, known |-> Known])
    /\ UNCHANGED firm

Pulled(r, known) == Goto(r, "contact", [loc[r] EXCEPT !.left = Tail(@), !.known = known])

\* Known or refused, the next contact follows in the same snapshot.
SyncContact(r) ==
    LET d == Head(loc[r].left)
        known == loc[r].known
    IN /\ pc[r] = "contact" /\ loc[r].left # <<>>
       /\ \/ /\ d \in known \/ Holders(d) # {}
             /\ Pulled(r, known) /\ UNCHANGED firm
          \/ /\ d \notin known /\ Holders(d) = {}
             /\ InsertFirm(d) /\ Pulled(r, Known')

ApolloDone(r) == pc[r] = "contact" /\ loc[r].left = <<>> /\ Finish(r) /\ UNCHANGED firm

CompaniesNext(r) ==
    \/ CreateFirm(r) \/ CommitFirm(r) \/ ChangeFirm(r) \/ CommitFirmChange(r)
    \/ StartApollo(r) \/ SyncContact(r) \/ ApolloDone(r)
=============================================================================
