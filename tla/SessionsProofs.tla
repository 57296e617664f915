---------------------------- MODULE SessionsProofs ----------------------------
(***************************************************************************)
(* What every step of a request does to the desk, and the facts about      *)
(* numbers, sequences and sets that the proofs about the routes need.      *)
(***************************************************************************)
EXTENDS Sessions, FiniteSetTheorems, WellFoundedInduction, TLAPS

\* Every request has a place and a session.
Placed == DOMAIN pc = Req /\ DOMAIN loc = Req

\* Two requests under way together are on record as kinds that met.
Noticed == \A q, r \in Active : q # r => Met(loc[q].op, loc[r].op)

\* A step of r, one request of a component with these labels: it begins and meets
\* everyone under way, or goes on as the kind it is, or ends.
Acts(r, labels) ==
    /\ \A q \in Req \ {r} : pc'[q] = pc[q] /\ loc'[q] = loc[q]
    /\ pc[r] \in labels \cup {"idle"} /\ pc'[r] \in labels \cup Over
    /\ DOMAIN pc' = DOMAIN pc /\ DOMAIN loc' = DOMAIN loc
    /\ met \subseteq met' /\ died' = died
    /\ pc'[r] \in Over =>  loc'[r] = Idle
    /\ pc'[r] \notin Over =>
          \/ pc[r] \in labels /\ loc'[r].op = loc[r].op
          \/ pc[r] = "idle" /\ \A q \in Active : {loc'[r].op, loc[q].op} \in met'

\* A step that is none of the component's with these labels: its requests stay
\* where they are, but for one that dies.
Elsewhere(labels) ==
    /\ \A q \in Req : pc'[q] \in labels => pc'[q] = pc[q] /\ loc'[q] = loc[q]
    /\ \A q \in Req : pc[q] \in labels =>
          \/ pc'[q] = pc[q] /\ loc'[q] = loc[q]
          \/ loc[q].op \in died'
    /\ met \subseteq met' /\ died \subseteq died'

-----------------------------------------------------------------------------
(***************************************************************************)
(* The desk.                                                               *)
(***************************************************************************)
\* Nobody is at work when the server starts.
LEMMA DeskBegins == DeskInit => Placed /\ Noticed
BY DEF DeskInit, Placed, Noticed, Active, Over

\* A request that begins meets everyone under way.
LEMMA LaunchActs ==
  ASSUME Placed, NEW r \in Req, NEW label, NEW session, NEW labels,
         Launch(r, label, session), label \in labels, labels \cap Over = {}
  PROVE  Acts(r, labels) /\ pc'[r] = label /\ loc'[r] = session
BY DEF Placed, Launch, Acts, Over

\* A request that goes on stays the kind it is.
LEMMA GotoActs ==
  ASSUME Placed, NEW r \in Req, NEW label, NEW session, NEW labels,
         Goto(r, label, session), label \in labels, pc[r] \in labels,
         session.op = loc[r].op, labels \cap Over = {}
  PROVE  Acts(r, labels) /\ pc'[r] = label /\ loc'[r] = session
BY DEF Placed, Goto, Acts, Over

\* A request that ends, with its answer or with a 500, leaves nothing behind.
LEMMA EndActs ==
  ASSUME Placed, NEW r \in Req, NEW labels, pc[r] \in labels, Finish(r) \/ Broken(r)
  PROVE  Acts(r, labels) /\ pc'[r] \in Over /\ loc'[r] = Idle
BY DEF Placed, Finish, Broken, Goto, Acts, Over

\* Whoever is under way together has met, whatever step is taken.
LEMMA ActsNoticed ==
  ASSUME Placed, Noticed, NEW r \in Req, NEW labels, Acts(r, labels),
         labels \cap Over = {}
  PROVE  Placed' /\ Noticed'
<1>1. Placed'
  BY DEF Placed, Acts
<1>2. \A q \in Active' \ {r} : q \in Active /\ loc'[q] = loc[q]
  BY DEF Active, Acts
<1>3. \A q, s \in Active' \ {r} : q # s => {loc'[q].op, loc'[s].op} \in met'
  BY <1>2 DEF Noticed, Acts, Met
<1>4. ASSUME r \in Active', NEW q \in Active' \ {r}
      PROVE  {loc'[r].op, loc'[q].op} \in met'
  <2>1. CASE pc[r] \in labels /\ loc'[r].op = loc[r].op
    <3>1. r \in Active
      BY <2>1 DEF Active
    <3>2. {loc[r].op, loc[q].op} \in met
      BY <1>2, <1>4, <3>1 DEF Noticed, Met
    <3> QED BY <1>2, <1>4, <2>1, <3>2 DEF Acts
  <2>2. CASE \A s \in Active : {loc'[r].op, loc[s].op} \in met'
    BY <1>2, <1>4, <2>2
  <2> QED BY <1>4, <2>1, <2>2 DEF Acts, Active
<1>5. \A q, s : {q, s} = {s, q}
  OBVIOUS
<1>6. Noticed'
  BY <1>3, <1>4, <1>5 DEF Noticed, Met
<1> QED BY <1>1, <1>6

\* A death takes one request away.
LEMMA AbortNoticed ==
  ASSUME Placed, Noticed, NEW r \in Req, Abort(r)
  PROVE  Placed' /\ Noticed'
<1>1. Placed' /\ \A q \in Req \ {r} : pc'[q] = pc[q] /\ loc'[q] = loc[q]
  BY DEF Placed, Abort
<1>2. pc'[r] = "error" /\ met' = met
  BY DEF Placed, Abort
<1> QED BY <1>1, <1>2 DEF Noticed, Active, Over, Met

\* The components do not share requests.
LEMMA ActsElsewhere ==
  ASSUME NEW r \in Req, NEW others, Acts(r, others), NEW labels,
         others \cap labels = {}, labels \cap Over = {}
  PROVE  Elsewhere(labels)
BY DEF Acts, Elsewhere, Over

\* A death is nobody's step.
LEMMA AbortElsewhere ==
  ASSUME Placed, NEW r \in Req, Abort(r), NEW labels, labels \cap Over = {}
  PROVE  Elsewhere(labels)
BY DEF Placed, Abort, Elsewhere, Over

\* Nor is a step that leaves the desk alone.
LEMMA IdleElsewhere ==
  ASSUME UNCHANGED desk, NEW labels
  PROVE  Elsewhere(labels) /\ (Placed => Placed') /\ (Noticed => Noticed')
BY DEF desk, Elsewhere, Placed, Noticed, Active, Met

-----------------------------------------------------------------------------
(***************************************************************************)
(* Numbers: the smallest member of a set, by which ids are handed out.     *)
(***************************************************************************)
Less == {pair \in Nat \X Nat : pair[1] < pair[2]}

\* The numbers are well ordered by less-than.
LEMMA LessWellFounded == IsWellFoundedOn(Less, Nat)
<1>1. Less = OpToRel(<, Nat)
  BY Zenon DEF OpToRel, Less
<1> QED BY <1>1, NatLessThanWellFounded, Zenon

\* The smallest of some numbers is one of them.
LEMMA Smallest ==
  ASSUME NEW S \in SUBSET Nat, S # {}
  PROVE  Min(S) \in S /\ \A x \in S : Min(S) <= x
<1>1. PICK x \in S : \A y \in S : <<y, x>> \notin Less
  BY WFMin, LessWellFounded
<1>2. \A y, z \in Nat : <<y, z>> \notin Less => z <= y
  <2>1. \A y, z \in Nat : y < z => <<y, z>> \in Less
    BY SMT DEF Less
  <2> QED BY <2>1
<1>3. \A y \in S : x <= y
  BY <1>1, <1>2
<1> QED BY <1>3 DEF Min

=============================================================================
