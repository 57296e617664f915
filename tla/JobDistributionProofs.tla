------------------------ MODULE JobDistributionProofs ------------------------
(***************************************************************************)
(* What holds of the Arch-41 ratchet for every set of boards, targets,     *)
(* counts and requests, and for any number of aborts and seconds.          *)
(***************************************************************************)
EXTENDS JobDistribution, FiniteSetTheorems, WellFoundedInduction, TLAPS

\* Values with the fields of a job, a posting, a session.
IsJob(j) == j \in [target : {j.target}, met : {j.met}, total : {j.total}]
IsPosting(p) == p \in [board : {p.board}, status : {p.status}, count : {p.count},
                       created : {p.created}]
IsLoc(l) == l \in [row : {l.row}, value : {l.value}, status : {l.status},
                   boards : {l.boards}, job : {l.job}, rows : {l.rows}]

\* The part of the type invariant that the ratchet needs.
Shape ==
    /\ IsJob(job)
    /\ posting = [i \in PostingId |-> posting[i]]
    /\ \A i \in PostingId : IsPosting(posting[i])
    /\ pc \in [Req -> {"idle", "done"} \cup Working]
    /\ loc = [r \in Req |-> loc[r]]
    /\ \A r \in Req : IsLoc(loc[r])

-----------------------------------------------------------------------------
(***************************************************************************)
(* Numbers and sums.                                                       *)
(***************************************************************************)
\* One step of the fold behind SumFunction: some element, and the rest.
First(s) == CHOOSE x \in s : TRUE
Folded(f, g) == [s \in SUBSET DOMAIN f |->
                   IF s = {} THEN 0 ELSE f[First(s)] + g[s \ {First(s)}]]

\* SumFunction is a fixpoint of that step.
LEMMA SumUnfolds ==
  ASSUME NEW f
  PROVE  SumFunction(f) = (CHOOSE g : g = Folded(f, g))[DOMAIN f]
BY DEF SumFunction, SumFunctionOnSet, FoldFunctionOnSet, MapThenFoldSet, Folded, First

Less == {pair \in Nat \X Nat : pair[1] < pair[2]}

\* Every set of numbers has a smallest.
LEMMA Least ==
  ASSUME NEW S \in SUBSET Nat, S # {}
  PROVE  \E x \in S : \A y \in S : x <= y
<1>1. Less = OpToRel(<, Nat)
  BY Zenon DEF OpToRel, Less
<1>2. IsWellFoundedOn(Less, Nat)
  BY <1>1, NatLessThanWellFounded, Zenon
<1>3. PICK x \in S : \A y \in S : <<y, x>> \notin Less
  BY <1>2, WFMin
<1>4. \A y, z \in Nat : <<y, z>> \notin Less => z <= y
  <2>1. \A y, z \in Nat : y < z => <<y, z>> \in Less
    BY SMT DEF Less
  <2> QED BY <2>1
<1>5. \A y \in S : x <= y
  BY <1>3, <1>4
<1> QED BY <1>5

\* Some numbers that a number bounds have a greatest.
LEMMA Greatest ==
  ASSUME NEW S \in SUBSET Nat, S # {}, NEW n \in Nat, \A x \in S : x <= n
  PROVE  Max(S) \in S /\ \A x \in S : Max(S) >= x
<1> DEFINE B == {m \in Nat : \A x \in S : x <= m}
<1>1. PICK m \in B : \A k \in B : m <= k
  BY Least
<1>2. m \in S
  <2> SUFFICES ASSUME m \notin S PROVE FALSE
    OBVIOUS
  <2>1. m \in Nat /\ \A x \in S : x \in Nat /\ x <= m /\ x # m
    BY <1>1
  <2>2. m > 0
    <3>1. PICK x \in S : TRUE
      OBVIOUS
    <3> QED BY <2>1, <3>1
  <2>3. m - 1 \in B
    BY <2>1, <2>2
  <2> HIDE DEF B
  <2>4. m <= m - 1
    BY <1>1, <2>3
  <2> QED BY <2>1, <2>4
<1> QED BY <1>1, <1>2 DEF Max

\* A finite set of numbers has a bound.
LEMMA Bounded ==
  ASSUME NEW S \in SUBSET Nat, IsFiniteSet(S)
  PROVE  \E n \in Nat : \A x \in S : x <= n
<1>1. PICK n \in Nat : \E g : g \in Bijection(1..n, S)
  BY FS_NatBijection DEF ExistsBijection
<1>2. PICK f : f \in Bijection(1..n, S)
  BY <1>1
<1>3. f \in [1..n -> S] /\ \A x \in S : \E i \in 1..n : f[i] = x
  BY <1>2 DEF Bijection, Injection, Surjection
<1>4. \A i \in 1..n : f[i] \in Nat
  BY <1>3
<1> DEFINE Unbounded(k) == \A m \in Nat : \E i \in 1..k : f[i] > m
           B == {k \in 0..n : Unbounded(k)}
<1>5. B = {}
  <2> SUFFICES ASSUME B # {} PROVE FALSE
    OBVIOUS
  <2>1. B \in SUBSET Nat
    OBVIOUS
  <2>2. PICK k \in B : \A j \in B : k <= j
    BY <2>1, Least
  <2>3. k \in 1..n /\ k - 1 \in 0..n
    <3>1. ~Unbounded(0)
      <4>1. \A i \in 1..0 : FALSE
        OBVIOUS
      <4> HIDE DEF B
      <4> QED BY <4>1
    <3>2. k \in 0..n /\ Unbounded(k)
      BY <2>2
    <3> HIDE DEF Unbounded
    <3>3. k # 0
      BY <3>1, <3>2
    <3> QED BY <3>2, <3>3
  <2>4. ~Unbounded(k - 1)
    <3> HIDE DEF Unbounded
    <3> SUFFICES ASSUME Unbounded(k - 1) PROVE FALSE
      OBVIOUS
    <3>1. k - 1 \in B
      BY <2>3
    <3>2. k <= k - 1
      BY <2>2, <3>1
    <3> QED BY <2>3, <3>2
  <2>5. PICK m \in Nat : \A i \in 1..(k - 1) : ~(f[i] > m)
    BY <2>4
  <2>6. Unbounded(k) /\ m \in Nat /\ f[k] \in Nat /\ k \in Nat
    <3> HIDE DEF Unbounded
    <3> QED BY <1>4, <2>2, <2>3, <2>5
  <2>7. \E m2 \in Nat : m2 >= m /\ m2 >= f[k]
    <3> HIDE DEF B, Unbounded
    <3> QED BY <2>6
  <2>8. PICK m2 \in Nat : m2 >= m /\ m2 >= f[k]
    BY <2>7
  <2>9. PICK i \in 1..k : f[i] > m2
    BY <2>6
  <2> HIDE DEF B, Unbounded
  <2>10. i \in 1..n /\ f[i] \in Nat /\ (i \in 1..(k - 1) \/ i = k)
    BY <1>4, <2>3
  <2> QED BY <2>5, <2>6, <2>8, <2>9, <2>10
<1>6. PICK m \in Nat : \A i \in 1..n : ~(f[i] > m)
  <2>1. ~Unbounded(n)
    <3> HIDE DEF Unbounded
    <3>1. n \in 0..n
      OBVIOUS
    <3> QED BY <1>5, <3>1
  <2> QED BY <2>1
<1> QED BY <1>3, <1>4, <1>6

\* What is left of a finite set without one of its elements is smaller.
LEMMA Rest ==
  ASSUME NEW s, IsFiniteSet(s), s # {}
  PROVE  /\ First(s) \in s
         /\ Cardinality(s) \in Nat /\ Cardinality(s) > 0
         /\ Cardinality(s \ {First(s)}) = Cardinality(s) - 1
<1>1. First(s) \in s
  BY DEF First
<1> QED BY <1>1, FS_CardinalityType, FS_EmptySet, FS_RemoveElement

\* The fold has a fixpoint: the fold over the subsets of at most n elements
\* extends to those of n + 1.
LEMMA FoldExists ==
  ASSUME NEW D, IsFiniteSet(D), NEW f \in [D -> Nat]
  PROVE  \E g : g = Folded(f, g)
<1> DEFINE Fits(g, n) == \A s \in SUBSET D : Cardinality(s) <= n => g[s] = Folded(f, g)[s]
           Good == {n \in Nat : \E g \in [SUBSET D -> Nat] : Fits(g, n)}
<1>1. \A s \in SUBSET D : IsFiniteSet(s) /\ Cardinality(s) \in Nat /\ Cardinality(s) <= Cardinality(D)
  BY FS_Subset, FS_CardinalityType
<1>2. 0 \in Good
  <2> DEFINE g == [s \in SUBSET D |-> 0]
  <2>1. \A s \in SUBSET D : Cardinality(s) <= 0 => s = {}
    BY <1>1, FS_EmptySet
  <2>2. Fits(g, 0)
    BY <2>1 DEF Folded
  <2>3. g \in [SUBSET D -> Nat]
    OBVIOUS
  <2> QED BY <2>2, <2>3
<1>3. ASSUME NEW n \in Nat, n > 0, n - 1 \in Good PROVE n \in Good
  <2>1. PICK g \in [SUBSET D -> Nat] : Fits(g, n - 1)
    BY <1>3
  <2> DEFINE h == [s \in SUBSET D |-> IF Cardinality(s) = n THEN Folded(f, g)[s] ELSE g[s]]
  <2>2. \A s \in SUBSET D : s # {} => /\ First(s) \in D /\ s \ {First(s)} \in SUBSET D
                                      /\ Cardinality(s \ {First(s)}) = Cardinality(s) - 1
    BY <1>1, Rest
  <2>3. ASSUME NEW s \in SUBSET D PROVE Folded(f, g)[s] \in Nat
    <3>1. s # {} => f[First(s)] \in Nat /\ g[s \ {First(s)}] \in Nat
      BY <2>2
    <3>2. Folded(f, g)[s] = IF s = {} THEN 0 ELSE f[First(s)] + g[s \ {First(s)}]
      BY DEF Folded
    <3> QED BY <3>1, <3>2
  <2>4. h \in [SUBSET D -> Nat]
    BY <2>3
  <2>5. ASSUME NEW s \in SUBSET D, Cardinality(s) <= n PROVE h[s] = Folded(f, h)[s]
    <3>1. h[s] = Folded(f, g)[s]
      BY <1>1, <2>1, <2>5
    <3>2. s # {} => h[s \ {First(s)}] = g[s \ {First(s)}]
      BY <1>1, <2>2, <2>5
    <3> HIDE DEF h
    <3> QED BY <3>1, <3>2 DEF Folded
  <2> HIDE DEF h
  <2> QED BY <2>4, <2>5
<1>4. Cardinality(D) \in Good
  <2> SUFFICES ASSUME Nat \ Good # {} PROVE FALSE
    BY <1>1
  <2>1. PICK n \in Nat \ Good : \A m \in Nat \ Good : n <= m
    BY Least
  <2>2. n > 0 /\ n - 1 \in Nat
    <3> HIDE DEF Good
    <3>1. n \in Nat /\ n # 0
      BY <1>2
    <3> QED BY <3>1
  <2> HIDE DEF Good
  <2>3. n - 1 \in Good
    <3> SUFFICES ASSUME n - 1 \notin Good PROVE FALSE
      OBVIOUS
    <3>1. n <= n - 1
      BY <2>1, <2>2
    <3> QED BY <2>2, <3>1
  <2> QED BY <1>3, <2>1, <2>2, <2>3
<1>5. PICK g \in [SUBSET D -> Nat] : Fits(g, Cardinality(D))
  BY <1>4
<1>6. \A s \in SUBSET D : g[s] = Folded(f, g)[s]
  BY <1>1, <1>5
<1>7. g = [s \in SUBSET D |-> g[s]] /\ Folded(f, g) = [s \in SUBSET D |-> Folded(f, g)[s]]
  BY DEF Folded
<1>8. g = Folded(f, g)
  BY <1>6, <1>7
<1> QED BY <1>8

\* A sum lies in every set that has 0 and that adding one of the terms does not leave.
LEMMA SumIn ==
  ASSUME NEW D, IsFiniteSet(D), NEW f \in [D -> Nat],
         NEW V, 0 \in V, \A x \in D : \A v \in V : f[x] + v \in V
  PROVE  SumFunction(f) \in V
<1> DEFINE g == CHOOSE g : g = Folded(f, g)
<1>1. g = Folded(f, g)
  BY FoldExists
<1>2. SumFunction(f) = g[D]
  BY SumUnfolds
<1> HIDE DEF g
<1> DEFINE Odd == {n \in Nat : \E s \in SUBSET D : Cardinality(s) = n /\ g[s] \notin V}
<1>3. \A s \in SUBSET D : IsFiniteSet(s) /\ Cardinality(s) \in Nat
  BY FS_Subset, FS_CardinalityType
<1>4. ASSUME NEW n \in Odd, \A m \in Odd : n <= m PROVE FALSE
  <2>1. PICK s \in SUBSET D : Cardinality(s) = n /\ g[s] \notin V
    OBVIOUS
  <2>2. g[s] = IF s = {} THEN 0 ELSE f[First(s)] + g[s \ {First(s)}]
    BY <1>1 DEF Folded
  <2>3. s # {}
    BY <2>1, <2>2
  <2>4. /\ First(s) \in D /\ s \ {First(s)} \in SUBSET D
        /\ Cardinality(s \ {First(s)}) = n - 1 /\ n - 1 \in Nat
    BY <1>3, <2>1, <2>3, Rest
  <2>5. g[s \ {First(s)}] \in V
    BY <1>4, <2>4
  <2> QED BY <2>1, <2>2, <2>3, <2>4, <2>5
<1>5. Odd = {}
  BY <1>4, Least
<1> QED BY <1>2, <1>3, <1>5

\* The sum of the counts depends on the counts only.
LEMMA SumOfCounts ==
  ASSUME NEW f, NEW g, \A i \in PostingId : f[i].count = g[i].count
  PROVE  Sum(f) = Sum(g)
<1>1. [i \in PostingId |-> f[i].count] = [i \in PostingId |-> g[i].count]
  OBVIOUS
<1> QED BY <1>1 DEF Sum

\* Whether the target is reached depends on the target and the counts alone.
LEMMA ReachesByCounts ==
  ASSUME NEW j, NEW k, NEW f, NEW g, j.target = k.target,
         \A i \in PostingId : f[i].count = g[i].count
  PROVE  Reaches(j, f) <=> Reaches(k, g)
BY SumOfCounts DEF Reaches

-----------------------------------------------------------------------------
\* The job and the sessions have their form at the start.
LEMMA ShapeInit == Init => Shape
<1> SUFFICES ASSUME Init PROVE Shape
  OBVIOUS
<1>1. IsJob(job)
  BY DEF Init, IsJob
<1>2. /\ posting = [i \in PostingId |-> posting[i]]
      /\ \A i \in PostingId : IsPosting(posting[i])
  <2>1. PICK n, b :
          posting = [i \in PostingId |-> IF i \in 1..n THEN NewPosting(b[i])
                                                       ELSE NoPosting]
    BY DEF Init
  <2>2. \A c : IsPosting(NewPosting(c))
    BY DEF IsPosting, NewPosting, NoPosting
  <2>3. IsPosting(NoPosting)
    BY DEF IsPosting, NoPosting
  <2> QED BY <2>1, <2>2, <2>3
<1>3. pc \in [Req -> {"idle", "done"} \cup Working] /\ loc = [r \in Req |-> loc[r]]
  BY DEF Init
<1>4. \A r \in Req : IsLoc(loc[r])
  BY DEF Init, IsLoc, Nothing
<1> QED BY <1>1, <1>2, <1>3, <1>4 DEF Shape

\* A request ends, or begins with a payload built from Nothing.
LEMMA ShapeFinish ==
  ASSUME Shape, NEW r \in Req, Finish(r)
  PROVE  /\ pc' \in [Req -> {"idle", "done"} \cup Working]
         /\ loc' = [q \in Req |-> loc'[q]]
         /\ \A q \in Req : IsLoc(loc'[q])
<1>1. IsLoc(Nothing)
  BY DEF IsLoc, Nothing
<1> QED BY <1>1 DEF Shape, Finish, Goto

\* A request that loads job and postings keeps their form.
LEMMA ShapeBegin ==
  ASSUME Shape, NEW r \in Req, NEW next \in Working, NEW row, NEW payload,
         IsLoc(payload), Begin(r, next, row, payload)
  PROVE  Shape'
<1> DEFINE l == [payload EXCEPT !.row = row, !.job = job, !.rows = posting]
<1>1. IsLoc(l)
  BY DEF IsLoc
<1>2. loc' = [loc EXCEPT ![r] = l]
  BY DEF Begin
<1> HIDE DEF l
<1>3. loc' = [q \in Req |-> loc'[q]] /\ \A q \in Req : IsLoc(loc'[q])
  BY <1>1, <1>2 DEF Shape
<1> QED BY <1>3 DEF Begin, Shape

\* What each of the requests loads when it begins.
LEMMA StartBegins ==
  ASSUME NEW r \in Req, Start(r)
  PROVE  \E next \in {"distribute", "mark", "countRow", "countBoard", "sync"} :
           \E row, payload : IsLoc(payload) /\ Begin(r, next, row, payload)
<1>1. /\ \A t, bs : IsLoc([Nothing EXCEPT !.value = t, !.boards = bs])
      /\ \A s : IsLoc([Nothing EXCEPT !.status = s])
      /\ \A n : IsLoc([Nothing EXCEPT !.value = n])
      /\ IsLoc(Nothing)
  BY DEF IsLoc, Nothing
<1>2. CASE Distribute(r)
  BY <1>1, <1>2 DEF Distribute
<1>3. CASE Mark(r)
  BY <1>1, <1>3 DEF Mark
<1>4. CASE EditRow(r)
  BY <1>1, <1>4 DEF EditRow
<1>5. CASE EditBoard(r)
  BY <1>1, <1>5 DEF EditBoard
<1>6. CASE Sync(r)
  BY <1>1, <1>6 DEF Sync
<1> QED BY <1>2, <1>3, <1>4, <1>5, <1>6 DEF Start

\* What distribute commits: some of the ids get a posting.
LEMMA Opens ==
  ASSUME NEW r \in Req, DistributeCommit(r)
  PROVE  \E opened, board :
           posting' = [i \in PostingId |->
                         IF i \in opened THEN NewPosting(board[i]) ELSE posting[i]]
<1> DEFINE bs == loc[r].boards
           fresh == {k \in DOMAIN bs : ~Open(loc[r].rows, bs[k])}
           id(k) == Max(Rows \cup {0}) + Cardinality({m \in fresh : m <= k})
           opened == {i \in PostingId : \E k \in fresh : id(k) = i}
           board == [i \in PostingId |-> bs[CHOOSE k \in fresh : id(k) = i]]
<1>1. posting' = [i \in PostingId |->
                    IF \E k \in fresh : id(k) = i
                    THEN NewPosting(bs[CHOOSE k \in fresh : id(k) = i]) ELSE posting[i]]
  BY DEF DistributeCommit
<1> HIDE DEF fresh, id, bs
<1>2. posting' = [i \in PostingId |->
                    IF i \in opened THEN NewPosting(board[i]) ELSE posting[i]]
  BY <1>1
<1> QED BY <1>2, Zenon

\* The columns keep their names: no write adds or drops one.
LEMMA ShapeNext == Shape /\ [Next]_vars => Shape'
<1> SUFFICES ASSUME Shape, [Next]_vars PROVE Shape'
  OBVIOUS
<1>1. ASSUME NEW r \in Req, Start(r) PROVE Shape'
  BY <1>1, StartBegins, ShapeBegin DEF Working, ByRow, ByBoard
<1>2. ASSUME NEW r \in Req, DistributeCommit(r) PROVE Shape'
  <2>1. IsJob(job')
    BY <1>2 DEF DistributeCommit, Shape, IsJob
  <2>2. /\ posting' = [i \in PostingId |-> posting'[i]]
        /\ \A i \in PostingId : IsPosting(posting'[i])
    <3>1. PICK opened, board :
            posting' = [i \in PostingId |->
                          IF i \in opened THEN NewPosting(board[i]) ELSE posting[i]]
      BY <1>2, Opens
    <3>2. \A c : IsPosting(NewPosting(c))
      BY DEF IsPosting, NewPosting, NoPosting
    <3> QED BY <3>1, <3>2 DEF Shape
  <2>3. Finish(r)
    BY <1>2 DEF DistributeCommit
  <2> QED BY <2>1, <2>2, <2>3, ShapeFinish DEF Shape
<1>3. ASSUME NEW r \in Req, MarkCommit(r) PROVE Shape'
  <2>1. /\ posting' = [i \in PostingId |-> posting'[i]]
        /\ \A i \in PostingId : IsPosting(posting'[i])
    BY <1>3 DEF MarkCommit, Shape, IsPosting
  <2>2. Finish(r)
    BY <1>3 DEF MarkCommit
  <2> QED BY <1>3, <2>1, <2>2, ShapeFinish DEF MarkCommit, Shape
<1>4. ASSUME NEW r \in Req, CountCommit(r) PROVE Shape'
  <2>1. /\ posting' = [i \in PostingId |-> posting'[i]]
        /\ \A i \in PostingId : IsPosting(posting'[i])
    BY <1>4 DEF CountCommit, Shape, IsPosting
  <2>2. pc' \in [Req -> {"idle", "done"} \cup Working]
    BY <1>4 DEF CountCommit, Goto, Shape, Working, ByRow, ByBoard
  <2> QED BY <1>4, <2>1, <2>2 DEF CountCommit, Shape
<1>5. ASSUME NEW r \in Req, LoadRow(r) \/ LoadBoard(r) PROVE Shape'
  <2>1. pc' \in [Req -> {"idle", "done"} \cup Working]
    BY <1>5 DEF LoadRow, LoadBoard, Goto, Shape, Working, ByRow, ByBoard
  <2>2. /\ loc' = [q \in Req |-> loc'[q]]
        /\ \A q \in Req : IsLoc(loc'[q])
    BY <1>5 DEF LoadRow, LoadBoard, Shape, IsLoc
  <2> QED BY <1>5, <2>1, <2>2 DEF LoadRow, LoadBoard, Shape
<1>6. ASSUME NEW r \in Req, Total(r) \/ SyncCommit(r) PROVE Shape'
  <2>1. IsJob(job')
    BY <1>6 DEF Total, SyncCommit, Shape, IsJob
  <2>2. Finish(r)
    BY <1>6 DEF Total, SyncCommit
  <2> QED BY <1>6, <2>1, <2>2, ShapeFinish DEF Total, SyncCommit, Shape
<1>7. ASSUME NEW r \in Req, Abort(r) PROVE Shape'
  <2>1. Finish(r)
    BY <1>7 DEF Abort
  <2> QED BY <1>7, <2>1, ShapeFinish DEF Abort, Shape
<1>8. ASSUME Tick \/ Quiet \/ UNCHANGED vars PROVE Shape'
  BY <1>8 DEF Tick, Quiet, vars, Shape
<1> QED BY <1>1, <1>2, <1>3, <1>4, <1>5, <1>6, <1>7, <1>8 DEF Next

\* The job and the sessions have their form in every reachable state.
LEMMA ShapeAlways == Spec => []Shape
<1> QED BY ShapeInit, ShapeNext, PTL DEF Spec

-----------------------------------------------------------------------------
\* The ratchet is one-way: no step of any request clears target_met_at.
THEOREM MetSticksHolds == Spec => MetSticks
<1>1. Shape /\ [Next]_vars => (job.met => job'.met)
  <2> SUFFICES ASSUME Shape, [Next]_vars, job.met PROVE job'.met
    OBVIOUS
  <2>1. ASSUME NEW r \in Req, DistributeCommit(r) PROVE job'.met
    BY <2>1 DEF DistributeCommit, Shape, IsJob
  <2>2. ASSUME NEW r \in Req, Total(r) PROVE job'.met
    BY <2>2 DEF Total, Shape, IsJob
  <2>3. ASSUME NEW r \in Req, SyncCommit(r) PROVE job'.met
    BY <2>3 DEF SyncCommit, Shape, IsJob
  <2>4. ASSUME NEW r \in Req, Start(r) PROVE job'.met
    BY <2>4, StartBegins DEF Begin
  <2>5. ASSUME NEW r \in Req,
               \/ MarkCommit(r) \/ CountCommit(r) \/ LoadRow(r) \/ LoadBoard(r)
               \/ Abort(r)
        PROVE job'.met
    BY <2>5 DEF MarkCommit, CountCommit, LoadRow, LoadBoard, Abort
  <2>6. ASSUME Tick \/ Quiet \/ UNCHANGED vars PROVE job'.met
    BY <2>6 DEF Tick, Quiet, vars
  <2> QED BY <2>1, <2>2, <2>3, <2>4, <2>5, <2>6 DEF Next
<1> QED BY <1>1, ShapeAlways, PTL DEF Spec, MetSticks

-----------------------------------------------------------------------------
\* An edit by board that nobody disturbed runs alone; the job it holds is the
\* job, and the rows it holds are the postings, except for the count it wrote
\* itself and has not read back yet.
Undisturbed(r) ==
    /\ \A q \in Req : pc[q] \in Working => q = r
    /\ loc[r].job = job
    /\ \A i \in PostingId : \/ loc[r].rows[i] = posting[i]
                            \/ pc[r] = "loadBoard" /\ i = loc[r].row

\* As long as no edit by board ran beside another request, whatever could set
\* the ratchet has been reached.
Earned ==
    "blind" \notin seen =>
        /\ job.met => reached
        /\ Reaches(job, posting) => reached
        /\ \A r \in Req : pc[r] = "totalRow" /\ Reaches(loc[r].job, loc[r].rows)
                            => reached
        /\ \A r \in Req : pc[r] \in ByBoard => Undisturbed(r)

\* Nothing is met and nobody works at the start.
LEMMA EarnedInit == Init => Earned
BY DEF Init, Earned, ByBoard

\* A request that begins leaves the job and the postings alone; when it makes
\* an edit by board run beside another request, it says so in seen.
LEMMA EarnedStart ==
  ASSUME Shape, Earned, NEW r \in Req, Start(r)
  PROVE  Earned'
<1>1. PICK next, row, payload :
          /\ next \in {"distribute", "mark", "countRow", "countBoard", "sync"}
          /\ IsLoc(payload) /\ Begin(r, next, row, payload)
  BY StartBegins
<1> SUFFICES ASSUME "blind" \notin seen' PROVE Earned'
  BY DEF Earned
<1>2. "blind" \notin seen
  BY <1>1 DEF Begin
<1>3. /\ pc' = [pc EXCEPT ![r] = next] /\ pc[r] = "idle"
      /\ \A q \in Req : q # r => pc'[q] = pc[q] /\ loc'[q] = loc[q]
      /\ pc'[r] = next
      /\ loc'[r].job = job /\ loc'[r].rows = posting
      /\ UNCHANGED <<job, posting, reached>>
  BY <1>1 DEF Begin, Shape, IsLoc
<1>4. \/ \A q \in Req : pc[q] \notin Working
      \/ \A q \in Req : pc[q] \in Working \/ q = r => pc'[q] \notin ByBoard
  BY <1>1 DEF Begin, Active
<1>5. ASSUME NEW q \in Req, pc'[q] \in ByBoard PROVE Undisturbed(q)'
  <2>1. CASE q = r
    <3>1. \A p \in Req : pc'[p] \in Working => p = r
      BY <1>3, <1>4, <1>5, <2>1
    <3> QED BY <1>3, <2>1, <3>1 DEF Undisturbed
  <2>2. CASE q # r
    <3>1. pc[q] \in ByBoard /\ pc[q] \in Working
      BY <1>3, <1>5, <2>2 DEF Working
    <3> QED BY <1>4, <1>5, <3>1
  <2> QED BY <2>1, <2>2
<1>6. \A q \in Req : pc'[q] = "totalRow" /\ Reaches(loc'[q].job, loc'[q].rows)
                       => reached'
  BY <1>2, <1>3 DEF Earned
<1>7. /\ job'.met => reached'
      /\ Reaches(job', posting') => reached'
  BY <1>2, <1>3 DEF Earned
<1> QED BY <1>5, <1>6, <1>7 DEF Earned

\* A step of a request under way that is not an edit by board meets none.
LEMMA NobodyElse ==
  ASSUME Earned, "blind" \notin seen, NEW r \in Req, pc[r] \in Working,
         NEW q \in Req, pc[q] \in ByBoard
  PROVE  q = r
BY DEF Earned, Undisturbed

\* When r is the request that takes the step, and is not an edit by board
\* afterwards, no other request is one either, or r was not under way.
LEMMA EarnedFinish ==
  ASSUME Shape, Earned, "blind" \notin seen, NEW r \in Req, pc[r] \in Working,
         Finish(r)
  PROVE  /\ \A q \in Req : pc'[q] \notin ByBoard
         /\ \A q \in Req : pc'[q] = "totalRow" =>
              pc[q] = "totalRow" /\ loc'[q] = loc[q]
<1>1. /\ pc'[r] = "done"
      /\ \A q \in Req : q # r => pc'[q] = pc[q] /\ loc'[q] = loc[q]
  BY DEF Finish, Goto, Shape
<1> QED BY <1>1, NobodyElse DEF ByBoard

\* Every step keeps the loaded counts ones that once stood in the table.
LEMMA EarnedNext == Shape /\ Earned /\ [Next]_vars => Earned'
<1> SUFFICES ASSUME Shape, Earned, [Next]_vars PROVE Earned'
  OBVIOUS
<1>1. ASSUME NEW r \in Req, Start(r) PROVE Earned'
  BY <1>1, EarnedStart
<1>2. ASSUME NEW r \in Req, DistributeCommit(r), "blind" \notin seen' PROVE Earned'
  <2>1. /\ "blind" \notin seen /\ pc[r] \in Working /\ Finish(r)
        /\ reached' = (reached \/ Reaches(job', posting'))
        /\ job'.met = job.met
    BY <1>2 DEF DistributeCommit, Saw, Working, Shape, IsJob
  <2> QED BY <2>1, EarnedFinish DEF Earned
<1>3. ASSUME NEW r \in Req, MarkCommit(r), "blind" \notin seen' PROVE Earned'
  <2>1. /\ "blind" \notin seen /\ pc[r] \in Working /\ Finish(r)
        /\ UNCHANGED <<job, reached>>
    BY <1>3 DEF MarkCommit, Working
  <2>2. \A i \in PostingId : posting'[i].count = posting[i].count
    BY <1>3 DEF MarkCommit, Shape, IsPosting
  <2>3. Reaches(job', posting') <=> Reaches(job, posting)
    BY <2>1, <2>2, ReachesByCounts
  <2> QED BY <2>1, <2>3, EarnedFinish DEF Earned
<1>4. ASSUME NEW r \in Req, CountCommit(r), "blind" \notin seen' PROVE Earned'
  <2>1. /\ "blind" \notin seen /\ pc[r] \in Working
        /\ reached' = (reached \/ Reaches(job, posting'))
        /\ UNCHANGED <<job, loc>>
        /\ \A q \in Req : q # r => pc'[q] = pc[q]
        /\ pc'[r] = IF pc[r] = "countRow" THEN "loadRow" ELSE "loadBoard"
    BY <1>4 DEF CountCommit, Working, ByRow, ByBoard, Goto, Shape
  <2>2. ASSUME NEW q \in Req, pc'[q] \in ByBoard PROVE Undisturbed(q)'
    <3>1. q = r
      BY <2>1, <2>2, NobodyElse
    <3>2. pc[r] = "countBoard" /\ pc'[r] = "loadBoard"
      BY <1>4, <2>1, <2>2, <3>1 DEF CountCommit, ByBoard
    <3>3. Undisturbed(r)
      BY <2>1, <3>2 DEF Earned, ByBoard
    <3>4. \A i \in PostingId : i # loc[r].row => posting'[i] = posting[i]
      BY <1>4 DEF CountCommit, Shape
    <3>5. \A p \in Req : pc'[p] \in Working => p = r
      BY <2>1, <3>3 DEF Undisturbed
    <3> QED BY <2>1, <3>1, <3>2, <3>3, <3>4, <3>5 DEF Undisturbed
  <2>3. Reaches(job', posting') => reached'
    BY <2>1
  <2> QED BY <2>1, <2>2, <2>3 DEF Earned
<1>5. ASSUME NEW r \in Req, LoadRow(r), "blind" \notin seen' PROVE Earned'
  <2>1. /\ "blind" \notin seen /\ pc[r] \in Working
        /\ UNCHANGED <<job, posting, reached>>
        /\ \A q \in Req : q # r => pc'[q] = pc[q] /\ loc'[q] = loc[q]
        /\ pc'[r] = "totalRow" /\ loc'[r].job = job /\ loc'[r].rows = posting
    BY <1>5 DEF LoadRow, Working, ByRow, Goto, Shape, IsLoc
  <2>2. ASSUME NEW q \in Req, pc'[q] \in ByBoard PROVE FALSE
    BY <1>5, <2>1, <2>2, NobodyElse DEF LoadRow, ByBoard
  <2>3. /\ Reaches(job', posting') => reached'
        /\ job'.met => reached'
    BY <2>1 DEF Earned
  <2>4. \A q \in Req : pc'[q] = "totalRow" /\ Reaches(loc'[q].job, loc'[q].rows)
                         => reached'
    BY <2>1 DEF Earned
  <2> QED BY <2>2, <2>3, <2>4 DEF Earned
<1>6. ASSUME NEW r \in Req, LoadBoard(r), "blind" \notin seen' PROVE Earned'
  <2>1. /\ "blind" \notin seen /\ pc[r] \in ByBoard
        /\ UNCHANGED <<job, posting, reached>>
        /\ \A q \in Req : q # r => pc'[q] = pc[q] /\ loc'[q] = loc[q]
        /\ pc'[r] = "totalBoard" /\ loc'[r].job = loc[r].job
        /\ loc'[r].row = loc[r].row
        /\ loc'[r].rows =
             [i \in PostingId |->
                IF i = loc[r].row \/ loc[r].rows[i].board = None
                THEN posting[i] ELSE loc[r].rows[i]]
    BY <1>6 DEF LoadBoard, ByBoard, Goto, Shape, IsLoc
  <2>2. Undisturbed(r)
    BY <2>1 DEF Earned
  <2>3. Undisturbed(r)'
    <3>1. \A q \in Req : pc'[q] \in Working => q = r
      BY <2>1, <2>2 DEF Undisturbed
    <3>2. \A i \in PostingId : loc'[r].rows[i] = posting[i]
      BY <2>1, <2>2 DEF Undisturbed
    <3> QED BY <2>1, <2>2, <3>1, <3>2 DEF Undisturbed
  <2>4. \A q \in Req : pc'[q] \in ByBoard \/ pc'[q] = "totalRow" => q = r
    BY <2>3 DEF Undisturbed, Working, ByRow
  <2>5. /\ Reaches(job', posting') => reached'
        /\ job'.met => reached'
    BY <2>1 DEF Earned
  <2> QED BY <2>1, <2>3, <2>4, <2>5 DEF Earned
<1>7. ASSUME NEW r \in Req, Total(r), "blind" \notin seen' PROVE Earned'
  <2>1. /\ "blind" \notin seen /\ pc[r] \in {"totalRow", "totalBoard"}
        /\ pc[r] \in Working /\ Finish(r)
        /\ UNCHANGED <<posting, reached>>
        /\ job'.target = job.target
        /\ job'.met <=> job.met \/ Reaches(loc[r].job, loc[r].rows)
    BY <1>7 DEF Total, Working, ByRow, ByBoard, Shape, IsJob
  <2>2. Reaches(loc[r].job, loc[r].rows) => reached
    <3>1. CASE pc[r] = "totalRow"
      BY <2>1, <3>1 DEF Earned
    <3>2. CASE pc[r] = "totalBoard"
      <4>1. Undisturbed(r)
        BY <2>1, <3>2 DEF Earned, ByBoard
      <4>2. /\ loc[r].job.target = job.target
            /\ \A i \in PostingId : loc[r].rows[i].count = posting[i].count
        BY <3>2, <4>1 DEF Undisturbed
      <4>3. Reaches(loc[r].job, loc[r].rows) <=> Reaches(job, posting)
        BY <4>2, ReachesByCounts
      <4> QED BY <2>1, <4>3 DEF Earned
    <3> QED BY <2>1, <3>1, <3>2
  <2>3. Reaches(job', posting') <=> Reaches(job, posting)
    BY <2>1, ReachesByCounts
  <2> QED BY <2>1, <2>2, <2>3, EarnedFinish DEF Earned
<1>8. ASSUME NEW r \in Req, SyncCommit(r), "blind" \notin seen' PROVE Earned'
  <2>1. /\ "blind" \notin seen /\ pc[r] \in Working /\ Finish(r)
        /\ UNCHANGED <<posting, reached>>
        /\ job'.target = job.target /\ job'.met = job.met
    BY <1>8 DEF SyncCommit, Saw, Working, Shape, IsJob
  <2>2. Reaches(job', posting') <=> Reaches(job, posting)
    BY <2>1, ReachesByCounts
  <2> QED BY <2>1, <2>2, EarnedFinish DEF Earned
<1>9. ASSUME NEW r \in Req, Abort(r), "blind" \notin seen' PROVE Earned'
  <2>1. /\ "blind" \notin seen /\ pc[r] \in Working /\ Finish(r)
        /\ UNCHANGED <<job, posting, reached>>
    BY <1>9 DEF Abort, Saw, Active
  <2> QED BY <2>1, EarnedFinish DEF Earned
<1>10. ASSUME Tick \/ Quiet \/ UNCHANGED vars PROVE Earned'
  BY <1>10 DEF Tick, Quiet, vars, Earned, Undisturbed
<1>11. "blind" \in seen' => Earned'
  BY DEF Earned
<1> QED BY <1>1, <1>2, <1>3, <1>4, <1>5, <1>6, <1>7, <1>8, <1>9, <1>10, <1>11 DEF Next

\* The ratchet is set only after the postings added up to the target once,
\* unless an edit by board ran beside another request.
THEOREM MetEarnedHolds == Spec => []MetEarned
<1>1. Earned => MetEarned
  BY DEF Earned, MetEarned
<1> QED BY <1>1, EarnedInit, EarnedNext, ShapeAlways, PTL DEF Spec
-----------------------------------------------------------------------------
(***************************************************************************)
(* Type correctness.                                                       *)
(***************************************************************************)
\* What a request addresses: a target, a row, a status or a count that it may
\* write.
Addressed ==
    \A r \in Req :
        /\ pc[r] = "distribute" => loc[r].value \in Targets
        /\ pc[r] \in {"mark"} \cup ByRow \cup ByBoard => loc[r].row \in Rows
        /\ pc[r] = "mark" => loc[r].status \in Marks
        /\ pc[r] \in {"countRow", "countBoard"} => loc[r].value \in Counts

\* The ids are finitely many.
LEMMA IdsFinite == IsFiniteSet(PostingId)
BY JobAssumption

\* Some number bounds the ids.
LEMMA IdsBounded == \E n \in Nat : PostingId \subseteq 1..n
<1>1. PICK n \in Nat : \A i \in PostingId : i <= n
  BY JobAssumption, Bounded
<1> QED BY <1>1, JobAssumption

\* Some ids have a greatest among them.
LEMMA LastId ==
  ASSUME NEW S \in SUBSET PostingId, S # {}
  PROVE  Max(S) \in S /\ \A i \in S : Max(S) >= i
<1>1. PICK n \in Nat : PostingId \subseteq 1..n
  BY IdsBounded
<1>2. S \in SUBSET Nat /\ \A i \in S : i <= n
  BY <1>1
<1> QED BY <1>2, Greatest

\* The sum of natural counts is a natural number.
LEMMA SumNat ==
  ASSUME NEW rows, \A i \in PostingId : rows[i].count \in Nat
  PROVE  Sum(rows) \in Nat
<1> DEFINE f == [i \in PostingId |-> rows[i].count]
<1>1. f \in [PostingId -> Nat] /\ 0 \in Nat /\ \A i \in PostingId : \A v \in Nat : f[i] + v \in Nat
  OBVIOUS
<1> HIDE DEF f
<1>2. SumFunction(f) \in Nat
  BY <1>1, IdsFinite, SumIn
<1> QED BY <1>2 DEF Sum, f

\* Nothing adds up to nothing.
LEMMA SumZero ==
  ASSUME NEW rows, \A i \in PostingId : rows[i].count = 0
  PROVE  Sum(rows) = 0
<1> DEFINE f == [i \in PostingId |-> rows[i].count]
<1>1. f \in [PostingId -> Nat] /\ 0 \in {0} /\ \A i \in PostingId : \A v \in {0} : f[i] + v \in {0}
  OBVIOUS
<1> HIDE DEF f
<1>2. SumFunction(f) \in {0}
  BY <1>1, IdsFinite, SumIn
<1> QED BY <1>2 DEF Sum, f

\* A posting row that is opened is well typed.
LEMMA NewTyped ==
  ASSUME TypeOK, NEW b \in Board
  PROVE  NewPosting(b) \in Posting /\ NewPosting(b).board = b /\ NewPosting(b).count = 0
BY DEF TypeOK, NewPosting, NoPosting, Posting, PostingStatuses

\* Nothing loaded.
LEMMA NothingTyped == Nothing \in Loc /\ NoPosting \in Posting
<1>1. NoPosting \in Posting
  BY JobAssumption DEF NoPosting, Posting, PostingStatuses
<1>2. <<>> \in Seq(Board)
  OBVIOUS
<1> QED BY <1>1, <1>2 DEF Nothing, Loc, Job

\* Everything is well typed at the start.
LEMMA TypeInit == Init => TypeOK /\ Addressed
<1> SUFFICES ASSUME Init PROVE TypeOK /\ Addressed
  OBVIOUS
<1>1. clock \in 0..MaxClock /\ aborts \in 0..MaxAborts
  BY JobAssumption DEF Init
<1>2. posting \in [PostingId -> Posting] /\ job \in Job
  <2>1. PICK n, b :
          /\ b \in Injection(1..n, Board)
          /\ posting = [i \in PostingId |-> IF i \in 1..n THEN NewPosting(b[i]) ELSE NoPosting]
          /\ \E t \in IF n = 0 THEN Targets \cup {None} ELSE Targets :
               job = [target |-> t, met |-> FALSE, total |-> 0]
    BY DEF Init
  <2>2. \A i \in 1..n : b[i] \in Board
    BY <2>1 DEF Injection
  <2>3. \A c \in Board : NewPosting(c) \in Posting
    BY <1>1 DEF NewPosting, NoPosting, Posting, PostingStatuses
  <2>4. posting \in [PostingId -> Posting]
    BY <2>1, <2>2, <2>3, NothingTyped
  <2>5. job \in Job
    BY <2>1 DEF Job
  <2> QED BY <2>4, <2>5
<1>3. pc \in [Req -> {"idle", "done"} \cup Working] /\ loc \in [Req -> Loc]
  BY NothingTyped DEF Init
<1>4. seen \subseteq {"overlap", "blind", "retarget", "sync", "abort"} /\ reached \in BOOLEAN
  BY DEF Init, Reaches
<1>5. Addressed
  BY DEF Init, Addressed, ByRow, ByBoard
<1> QED BY <1>1, <1>2, <1>3, <1>4, <1>5 DEF TypeOK

\* A request that ends leaves the sessions typed.
LEMMA TypeFinish ==
  ASSUME TypeOK, NEW r \in Req, Finish(r)
  PROVE  /\ pc' \in [Req -> {"idle", "done"} \cup Working] /\ loc' \in [Req -> Loc]
         /\ pc'[r] = "done" /\ \A q \in Req \ {r} : pc'[q] = pc[q] /\ loc'[q] = loc[q]
BY NothingTyped DEF TypeOK, Finish, Goto

\* What a request that begins loads and addresses.
LEMMA StartTyped ==
  ASSUME TypeOK, NEW r \in Req, Start(r)
  PROVE  \E next \in {"distribute", "mark", "countRow", "countBoard", "sync"} :
         \E row \in PostingId \cup {None}, payload \in Loc :
            /\ Begin(r, next, row, payload)
            /\ next = "distribute" => payload.value \in Targets
            /\ next \in {"mark", "countRow", "countBoard"} => row \in Rows
            /\ next = "mark" => payload.status \in Marks
            /\ next \in {"countRow", "countBoard"} => payload.value \in Counts
<1> DEFINE value(n) == [Nothing EXCEPT !.value = n]
<1>1. \A n \in Nat : value(n) \in Loc /\ value(n).value = n
  BY NothingTyped DEF Nothing, Loc
<1>2. Targets \subseteq Nat /\ Counts \subseteq Nat
  BY JobAssumption
<1> HIDE DEF value
<1>3. CASE Distribute(r)
  <2>some. PICK t \in Targets, n \in 1..MaxList : \E bs \in [1..n -> Board] :
          Begin(r, "distribute", None, [Nothing EXCEPT !.value = t, !.boards = bs])
    BY <1>3 DEF Distribute
  <2>1. PICK bs \in [1..n -> Board] :
          Begin(r, "distribute", None, [Nothing EXCEPT !.value = t, !.boards = bs])
    BY <2>some
  <2> DEFINE payload == [Nothing EXCEPT !.value = t, !.boards = bs]
  <2>2. bs \in Seq(Board) /\ t \in Nat
    BY <1>2
  <2>3. payload \in Loc /\ payload.value = t
    BY <2>2, NothingTyped DEF Nothing, Loc
  <2>4. Begin(r, "distribute", None, payload)
    BY <2>1
  <2> HIDE DEF payload
  <2> QED BY <2>3, <2>4
<1>4. CASE Mark(r)
  <2>1. PICK i \in Rows, s \in Marks : Begin(r, "mark", i, [Nothing EXCEPT !.status = s])
    BY <1>4 DEF Mark
  <2> DEFINE payload == [Nothing EXCEPT !.status = s]
  <2>2. payload \in Loc /\ payload.status = s
    BY NothingTyped DEF Nothing, Loc
  <2>3. Begin(r, "mark", i, payload) /\ i \in PostingId
    BY <2>1 DEF Rows
  <2> HIDE DEF payload
  <2> QED BY <2>2, <2>3
<1>5. CASE EditRow(r)
  <2>1. PICK i \in Rows, n \in Counts : Begin(r, "countRow", i, value(n))
    BY <1>5 DEF EditRow, value
  <2>2. i \in PostingId
    BY DEF Rows
  <2> QED BY <1>1, <1>2, <2>1, <2>2
<1>6. CASE EditBoard(r)
  <2>1. PICK b \in Board, n \in Counts :
          OnBoard(posting, b) # {} /\ Begin(r, "countBoard", Max(OnBoard(posting, b)), value(n))
    BY <1>6 DEF EditBoard, value
  <2>2. Max(OnBoard(posting, b)) \in OnBoard(posting, b)
    BY <2>1, LastId DEF OnBoard
  <2>3. OnBoard(posting, b) \subseteq Rows /\ Rows \subseteq PostingId
    BY JobAssumption DEF OnBoard, Rows
  <2> QED BY <1>1, <1>2, <2>1, <2>2, <2>3
<1>7. CASE Sync(r)
  BY <1>7, NothingTyped DEF Sync
<1> QED BY <1>3, <1>4, <1>5, <1>6, <1>7 DEF Start

\* What distribute commits: new ids, above all that are in use, each for a listed
\* board that was not open.
LEMMA OpensTyped ==
  ASSUME TypeOK, NEW r \in Req, DistributeCommit(r)
  PROVE  \E opened \in SUBSET PostingId : \E board \in [opened -> Board] :
           /\ posting' = [i \in PostingId |->
                            IF i \in opened THEN NewPosting(board[i]) ELSE posting[i]]
           /\ \A i \in opened : /\ ~Open(loc[r].rows, board[i])
                                /\ \A j \in Rows : j < i
<1> DEFINE bs == loc[r].boards
           fresh == {k \in DOMAIN bs : ~Open(loc[r].rows, bs[k])}
           upto(k) == {m \in fresh : m <= k}
           last == Max(Rows \cup {0})
           id(k) == last + Cardinality(upto(k))
           opened == {i \in PostingId : \E k \in fresh : id(k) = i}
           chosen(i) == CHOOSE k \in fresh : id(k) = i
           board == [i \in opened |-> bs[chosen(i)]]
<1>1. posting' = [i \in PostingId |->
                    IF \E k \in fresh : id(k) = i
                    THEN NewPosting(bs[CHOOSE k \in fresh : id(k) = i]) ELSE posting[i]]
  BY DEF DistributeCommit
<1>2. bs \in Seq(Board)
  BY DEF TypeOK, Loc
<1>3. fresh \subseteq 1..Len(bs) /\ Len(bs) \in Nat
  BY <1>2
<1>4. \A k \in fresh : bs[k] \in Board /\ ~Open(loc[r].rows, bs[k])
  BY <1>2
<1>5. ASSUME NEW k \in fresh PROVE Cardinality(upto(k)) \in Nat /\ Cardinality(upto(k)) > 0
  <2>1. IsFiniteSet(1..Len(bs)) /\ upto(k) \in SUBSET (1..Len(bs))
    <3>1. upto(k) \in SUBSET (1..Len(bs))
      BY <1>3
    <3> HIDE DEF bs, fresh, upto
    <3> QED BY <1>3, <3>1, FS_Interval
  <2>2. IsFiniteSet(upto(k)) /\ k \in upto(k)
    BY <1>3, <2>1, FS_Subset
  <2> HIDE DEF upto
  <2>3. Cardinality(upto(k)) \in Nat /\ Cardinality(upto(k)) # 0
    BY <2>2, FS_CardinalityType, FS_EmptySet
  <2> QED BY <2>3
<1>6. last \in Nat /\ \A j \in Rows : j \in Nat /\ j <= last
  <2>1. PICK n \in Nat : PostingId \subseteq 1..n
    BY IdsBounded
  <2>2. Rows \cup {0} \in SUBSET Nat /\ \A x \in Rows \cup {0} : x <= n
    <3>1. Rows \subseteq 1..n
      BY <2>1 DEF Rows
    <3> HIDE DEF bs, fresh, upto, last, id, opened, chosen, board
    <3> QED BY <3>1
  <2>3. last \in Rows \cup {0} /\ \A x \in Rows \cup {0} : last >= x
    BY <2>1, <2>2, Greatest
  <2> HIDE DEF last
  <2> QED BY <2>2, <2>3
<1> HIDE DEF fresh, upto, last, bs
<1>7. \A i \in opened : chosen(i) \in fresh /\ id(chosen(i)) = i
  OBVIOUS
<1>8. \A k \in fresh : \A j \in Rows : j < id(k)
  BY <1>5, <1>6
<1> HIDE DEF id
<1>9. posting' = [i \in PostingId |->
                    IF i \in opened THEN NewPosting(board[i]) ELSE posting[i]]
  BY <1>1
<1> HIDE DEF chosen
<1>10. board \in [opened -> Board] /\ opened \in SUBSET PostingId
  BY <1>4, <1>7
<1>11. ASSUME NEW i \in opened PROVE ~Open(loc[r].rows, board[i]) /\ \A j \in Rows : j < i
  <2>1. board[i] = bs[chosen(i)]
    OBVIOUS
  <2> HIDE DEF opened, board
  <2> QED BY <1>4, <1>7, <1>8, <2>1
<1> HIDE DEF opened, board
<1> QED BY <1>9, <1>10, <1>11, Zenon

\* Every step keeps the types and what a request addresses.
LEMMA TypeNext == TypeOK /\ Addressed /\ [Next]_vars => TypeOK' /\ Addressed'
<1> SUFFICES ASSUME TypeOK, Addressed, [Next]_vars PROVE TypeOK' /\ Addressed'
  OBVIOUS
<1> USE DEF Rows
<1>0. Counts \subseteq Nat /\ Targets \subseteq Nat /\ None \notin Board
  BY JobAssumption
<1>1. ASSUME NEW r \in Req, Start(r) PROVE TypeOK' /\ Addressed'
  <2>1. PICK next \in {"distribute", "mark", "countRow", "countBoard", "sync"},
             row \in PostingId \cup {None}, payload \in Loc :
            /\ Begin(r, next, row, payload)
            /\ next = "distribute" => payload.value \in Targets
            /\ next \in {"mark", "countRow", "countBoard"} => row \in Rows
            /\ next = "mark" => payload.status \in Marks
            /\ next \in {"countRow", "countBoard"} => payload.value \in Counts
    BY <1>1, StartTyped
  <2> DEFINE l == [payload EXCEPT !.row = row, !.job = job, !.rows = posting]
  <2>2. /\ l \in Loc /\ l.value = payload.value /\ l.status = payload.status /\ l.row = row
    BY DEF TypeOK, Loc
  <2>3. /\ pc' = [pc EXCEPT ![r] = next] /\ loc' = [loc EXCEPT ![r] = l]
        /\ UNCHANGED <<job, posting, clock, aborts, reached>>
    BY <2>1 DEF Begin
  <2>4. seen' \subseteq {"overlap", "blind", "retarget", "sync", "abort"}
    BY <2>1 DEF Begin, TypeOK
  <2> HIDE DEF l
  <2>5. TypeOK'
    BY <2>2, <2>3, <2>4 DEF TypeOK, Working, ByRow, ByBoard
  <2>6. Addressed'
    BY <2>1, <2>2, <2>3 DEF TypeOK, Addressed, ByRow, ByBoard
  <2> QED BY <2>5, <2>6
<1>2. ASSUME NEW r \in Req, DistributeCommit(r) PROVE TypeOK' /\ Addressed'
  <2>1. Finish(r) /\ pc[r] = "distribute" /\ UNCHANGED <<clock, aborts>>
    BY <1>2 DEF DistributeCommit
  <2>2. job' \in Job
    <3>1. loc[r].value \in Targets
      BY <2>1 DEF Addressed
    <3> QED BY <1>2, <3>1 DEF DistributeCommit, TypeOK, Job, Written
  <2>some. PICK opened \in SUBSET PostingId : \E board :
          /\ board \in [opened -> Board]
          /\ posting' = [i \in PostingId |->
                        IF i \in opened THEN NewPosting(board[i]) ELSE posting[i]]
    BY <1>2, OpensTyped
  <2>3. PICK board :
          /\ board \in [opened -> Board]
          /\ posting' = [i \in PostingId |->
                        IF i \in opened THEN NewPosting(board[i]) ELSE posting[i]]
    BY <2>some
  <2>4. \A i \in opened : board[i] \in Board
    BY <2>3
  <2>5. posting' \in [PostingId -> Posting] /\ Rows \subseteq Rows'
    BY <1>0, <2>3, <2>4, NewTyped DEF TypeOK
  <2>6. seen' \subseteq {"overlap", "blind", "retarget", "sync", "abort"} /\ reached' \in BOOLEAN
    BY <1>2 DEF DistributeCommit, Saw, TypeOK, Reaches
  <2>7. TypeOK'
    BY <2>1, <2>2, <2>5, <2>6, TypeFinish DEF TypeOK
  <2>8. Addressed'
    BY <2>1, <2>5, TypeFinish DEF Addressed, ByRow, ByBoard
  <2> QED BY <2>7, <2>8
<1>3. ASSUME NEW r \in Req, MarkCommit(r) PROVE TypeOK' /\ Addressed'
  <2>1. Finish(r) /\ pc[r] = "mark" /\ UNCHANGED <<job, clock, aborts, seen, reached>>
    BY <1>3 DEF MarkCommit
  <2>2. loc[r].row \in PostingId /\ loc[r].status \in PostingStatuses
    BY <2>1, JobAssumption DEF Addressed, PostingStatuses
  <2> DEFINE status == Written(posting[loc[r].row].status, loc[r].rows[loc[r].row].status, loc[r].status)
  <2>3. status \in PostingStatuses
    BY <2>2 DEF Written, TypeOK, Posting
  <2>4. posting' = [posting EXCEPT ![loc[r].row].status = status]
    BY <1>3 DEF MarkCommit
  <2> HIDE DEF status
  <2>5. posting' \in [PostingId -> Posting] /\ Rows \subseteq Rows'
    BY <2>2, <2>3, <2>4 DEF TypeOK, Posting
  <2>7. TypeOK'
    BY <2>1, <2>5, TypeFinish DEF TypeOK
  <2>8. Addressed'
    BY <2>1, <2>5, TypeFinish DEF Addressed, ByRow, ByBoard
  <2> QED BY <2>7, <2>8
<1>4. ASSUME NEW r \in Req, CountCommit(r) PROVE TypeOK' /\ Addressed'
  <2>1. /\ pc[r] \in {"countRow", "countBoard"} /\ UNCHANGED <<job, clock, loc, aborts, seen>>
        /\ pc' = [pc EXCEPT ![r] = IF pc[r] = "countRow" THEN "loadRow" ELSE "loadBoard"]
        /\ reached' \in BOOLEAN
    BY <1>4 DEF CountCommit, Goto, TypeOK, Reaches
  <2>2. loc[r].row \in PostingId /\ loc[r].value \in Counts
    BY <2>1 DEF Addressed, ByRow, ByBoard
  <2> DEFINE count == Written(posting[loc[r].row].count, loc[r].rows[loc[r].row].count, loc[r].value)
  <2>3. count \in Counts \cup {0}
    BY <2>2 DEF Written, TypeOK, Posting
  <2>4. posting' = [posting EXCEPT ![loc[r].row].count = count]
    BY <1>4 DEF CountCommit
  <2> HIDE DEF count
  <2>5. posting' \in [PostingId -> Posting] /\ Rows \subseteq Rows'
    BY <2>2, <2>3, <2>4 DEF TypeOK, Posting
  <2>7. TypeOK'
    BY <2>1, <2>5 DEF TypeOK, Working, ByRow, ByBoard
  <2>8. Addressed'
    BY <2>1, <2>5 DEF Addressed, ByRow, ByBoard, TypeOK
  <2> QED BY <2>7, <2>8
<1>5. ASSUME NEW r \in Req, LoadRow(r) \/ LoadBoard(r) PROVE TypeOK' /\ Addressed'
  <2> DEFINE rows == [i \in PostingId |->
                        IF i = loc[r].row \/ loc[r].rows[i].board = None
                        THEN posting[i] ELSE loc[r].rows[i]]
  <2>1. rows \in [PostingId -> Posting]
    BY DEF TypeOK, Loc
  <2>2. /\ UNCHANGED <<job, posting, clock, aborts, seen, reached>>
        /\ pc[r] \in {"loadRow", "loadBoard"}
        /\ \/ pc' = [pc EXCEPT ![r] = "totalRow"]
           \/ pc' = [pc EXCEPT ![r] = "totalBoard"]
        /\ \/ loc' = [loc EXCEPT ![r].job = job, ![r].rows = posting]
           \/ loc' = [loc EXCEPT ![r].rows = rows]
    BY <1>5 DEF LoadRow, LoadBoard, Goto, TypeOK
  <2> HIDE DEF rows
  <2>a. loc[r] \in Loc /\ job \in Job /\ posting \in [PostingId -> Posting] /\ loc \in [Req -> Loc]
    BY DEF TypeOK
  <2>b. ASSUME loc' = [loc EXCEPT ![r].job = job, ![r].rows = posting]
        PROVE  loc'[r] \in Loc /\ loc'[r].row = loc[r].row
    BY <2>a, <2>b DEF Loc
  <2>c. ASSUME loc' = [loc EXCEPT ![r].rows = rows]
        PROVE  loc'[r] \in Loc /\ loc'[r].row = loc[r].row
    BY <2>1, <2>a, <2>c DEF Loc
  <2>d. DOMAIN loc' = Req /\ loc' = [q \in Req |-> loc'[q]] /\ \A q \in Req \ {r} : loc'[q] = loc[q]
    BY <2>2, <2>a
  <2>3. loc' \in [Req -> Loc] /\ \A q \in Req : loc'[q].row = loc[q].row
    BY <2>2, <2>a, <2>b, <2>c, <2>d
  <2>4. TypeOK'
    BY <2>2, <2>3 DEF TypeOK, Working, ByRow, ByBoard
  <2>5. Addressed'
    BY <2>2, <2>3, <2>d DEF Addressed, ByRow, ByBoard, TypeOK
  <2> QED BY <2>4, <2>5
<1>6. ASSUME NEW r \in Req, Total(r) PROVE TypeOK' /\ Addressed'
  <2>1. Finish(r) /\ UNCHANGED <<posting, clock, aborts, seen, reached>>
    BY <1>6 DEF Total
  <2>2. Sum(loc[r].rows) \in Nat
    <3>1. loc[r].rows \in [PostingId -> Posting]
      BY DEF TypeOK, Loc
    <3>2. ASSUME NEW p \in Posting PROVE p.count \in Nat
      <4>1. p.count \in Counts \cup {0}
        BY DEF Posting
      <4>2. Counts \cup {0} \subseteq Nat
        BY <1>0
      <4> HIDE DEF Rows
      <4> QED BY <4>1, <4>2, Zenon
    <3>3. \A i \in PostingId : loc[r].rows[i].count \in Nat
      BY <3>1, <3>2
    <3> QED BY <3>3, SumNat
  <2>3. job' \in Job
    BY <1>6, <2>2 DEF Total, Written, TypeOK, Job, Reaches
  <2>4. TypeOK'
    BY <2>1, <2>3, TypeFinish DEF TypeOK
  <2>5. Addressed'
    BY <2>1, TypeFinish DEF Addressed, ByRow, ByBoard
  <2> QED BY <2>4, <2>5
<1>7. ASSUME NEW r \in Req, SyncCommit(r) PROVE TypeOK' /\ Addressed'
  <2>1. Finish(r) /\ UNCHANGED <<posting, clock, aborts, reached>>
    BY <1>7 DEF SyncCommit
  <2>2. job' \in Job
    BY <1>0, <1>7 DEF SyncCommit, Written, TypeOK, Job
  <2>3. seen' \subseteq {"overlap", "blind", "retarget", "sync", "abort"}
    BY <1>7 DEF SyncCommit, Saw, TypeOK
  <2>4. TypeOK'
    BY <2>1, <2>2, <2>3, TypeFinish DEF TypeOK
  <2>5. Addressed'
    BY <2>1, TypeFinish DEF Addressed, ByRow, ByBoard
  <2> QED BY <2>4, <2>5
<1>8. ASSUME NEW r \in Req, Abort(r) PROVE TypeOK' /\ Addressed'
  <2>1. Finish(r) /\ UNCHANGED <<job, posting, clock, reached>>
    BY <1>8 DEF Abort
  <2>2. aborts' \in 0..MaxAborts
    BY <1>8, JobAssumption DEF Abort, TypeOK
  <2>3. seen' \subseteq {"overlap", "blind", "retarget", "sync", "abort"}
    BY <1>8 DEF Abort, Saw, TypeOK
  <2>4. TypeOK'
    BY <2>1, <2>2, <2>3, TypeFinish DEF TypeOK
  <2>5. Addressed'
    BY <2>1, TypeFinish DEF Addressed, ByRow, ByBoard
  <2> QED BY <2>4, <2>5
<1>9. ASSUME Tick PROVE TypeOK' /\ Addressed'
  <2>1. clock' \in 0..MaxClock
    BY <1>9, JobAssumption DEF Tick, TypeOK
  <2> QED BY <1>9, <2>1 DEF Tick, TypeOK, Addressed
<1>10. ASSUME Quiet \/ UNCHANGED vars PROVE TypeOK' /\ Addressed'
  BY <1>10 DEF Quiet, vars, TypeOK, Addressed
<1> QED BY <1>1, <1>2, <1>3, <1>4, <1>5, <1>6, <1>7, <1>8, <1>9, <1>10 DEF Next

\* Every reachable state of the job board is well typed, and a request addresses
\* a posting that exists.
THEOREM TypeCorrect == Spec => [](TypeOK /\ Addressed)
<1> QED BY TypeInit, TypeNext, PTL DEF Spec
-----------------------------------------------------------------------------
(***************************************************************************)
(* The board as a table: what distribute, and nothing else, opens.         *)
(***************************************************************************)
\* An id without a posting counts nothing, postings are opened in the order of
\* their ids, and a job with postings, or that a distribute loaded with one, has a
\* target.
BoardOk ==
    /\ \A i \in PostingId \ Rows : posting[i].count = 0
    /\ \A i, j \in Rows : i < j => posting[i].created <= posting[j].created
    /\ \A i \in Rows : posting[i].created <= clock
    /\ job.target = None => Rows = {}
    /\ \A r \in Req : pc[r] = "distribute" /\ loc[r].job.target # None => job.target # None

\* The board is in order at the start, and nothing is counted yet.
LEMMA BoardInit == Init => BoardOk /\ Sum(posting) = 0
<1> SUFFICES ASSUME Init PROVE BoardOk /\ Sum(posting) = 0
  OBVIOUS
<1>1. PICK n, b :
        /\ n \in 0..Cardinality(Board)
        /\ posting = [i \in PostingId |-> IF i \in 1..n THEN NewPosting(b[i]) ELSE NoPosting]
        /\ \E t \in IF n = 0 THEN Targets \cup {None} ELSE Targets :
             job = [target |-> t, met |-> FALSE, total |-> 0]
  BY DEF Init
<1>2. \A i \in PostingId : posting[i].count = 0 /\ posting[i].created = 0
  BY <1>1 DEF Init, NewPosting, NoPosting
<1>3. job.target = None => n = 0
  <2>1. None \notin Targets
    BY JobAssumption
  <2> QED BY <1>1, <2>1
<1>4. n = 0 => Rows = {}
  BY <1>1 DEF Rows, NoPosting
<1>5. \A i \in Rows : i \in PostingId
  BY DEF Rows
<1>6. BoardOk
  BY <1>2, <1>3, <1>4, <1>5 DEF BoardOk, Init
<1> QED BY <1>2, <1>6, SumZero

\* The postings of the ids in use, and what a distribute leaves alone.
LEMMA OpensRows ==
  ASSUME TypeOK, BoardOk, NEW r \in Req, DistributeCommit(r)
  PROVE  /\ \E opened \in SUBSET (PostingId \ Rows) : \E board \in [opened -> Board] :
              /\ posting' = [i \in PostingId |->
                               IF i \in opened THEN NewPosting(board[i]) ELSE posting[i]]
              /\ Rows' = Rows \cup opened
              /\ \A i \in opened : ~Open(loc[r].rows, board[i]) /\ \A j \in Rows : j < i
         /\ \A i \in PostingId : posting'[i].count = posting[i].count
         /\ Sum(posting') = Sum(posting)
<1>some. PICK opened \in SUBSET PostingId : \E board :
         /\ board \in [opened -> Board]
         /\ posting' = [i \in PostingId |->
                          IF i \in opened THEN NewPosting(board[i]) ELSE posting[i]]
         /\ \A i \in opened : ~Open(loc[r].rows, board[i]) /\ \A j \in Rows : j < i
  BY OpensTyped
<1>1. PICK board :
         /\ board \in [opened -> Board]
         /\ posting' = [i \in PostingId |->
                          IF i \in opened THEN NewPosting(board[i]) ELSE posting[i]]
         /\ \A i \in opened : ~Open(loc[r].rows, board[i]) /\ \A j \in Rows : j < i
  BY <1>some
<1>2. opened \cap Rows = {}
  <2>1. \A i \in Rows : i \in Nat
    BY JobAssumption DEF Rows
  <2> QED BY <1>1, <2>1
<1>3. \A i \in opened : NewPosting(board[i]).board # None /\ NewPosting(board[i]).count = 0
  <2>1. None \notin Board
    BY JobAssumption
  <2> QED BY <1>1, <2>1, NewTyped
<1>4. Rows' = Rows \cup opened
  BY <1>1, <1>3 DEF Rows
<1>5. \A i \in PostingId : posting'[i].count = posting[i].count
  BY <1>1, <1>2, <1>3 DEF BoardOk
<1>6. opened \in SUBSET (PostingId \ Rows)
  BY <1>2
<1>7. Sum(posting') = Sum(posting)
  BY <1>5, SumOfCounts
<1> QED BY <1>1, <1>4, <1>5, <1>6, <1>7, Zenon

\* Once a job has a target it keeps one.
LEMMA TargetStays ==
  ASSUME TypeOK, Addressed, BoardOk, NEW r \in Req, DistributeCommit(r)
  PROVE  job'.target # None
<1>1. loc[r].value \in Targets /\ None \notin Targets
  BY JobAssumption DEF DistributeCommit, Addressed
<1>2. job'.target = Written(job.target, loc[r].job.target, loc[r].value)
  BY DEF DistributeCommit, TypeOK, Job
<1> QED BY <1>1, <1>2 DEF Written, BoardOk, DistributeCommit

\* No step disturbs the order of the board.
LEMMA BoardNext ==
  TypeOK /\ Addressed /\ BoardOk /\ [Next]_vars => BoardOk'
<1> SUFFICES ASSUME TypeOK, Addressed, BoardOk, [Next]_vars PROVE BoardOk'
  OBVIOUS
<1>a. Rows \subseteq PostingId /\ PostingId \subseteq Nat
  BY JobAssumption DEF Rows
<1>1. ASSUME NEW r \in Req, Start(r) PROVE BoardOk'
  <2>1. PICK next, row, payload :
          payload \in Loc /\ Begin(r, next, row, payload)
    BY <1>1, StartTyped
  <2>2. UNCHANGED <<job, posting, clock>> /\ loc'[r].job = job
        /\ \A q \in Req \ {r} : pc'[q] = pc[q] /\ loc'[q] = loc[q]
    BY <2>1 DEF Begin, TypeOK, Loc
  <2> QED BY <2>2 DEF BoardOk, Rows
<1>2. ASSUME NEW r \in Req, DistributeCommit(r) PROVE BoardOk'
  <2>some. PICK opened \in SUBSET (PostingId \ Rows) : \E board :
          /\ board \in [opened -> Board]
          /\ posting' = [i \in PostingId |->
                           IF i \in opened THEN NewPosting(board[i]) ELSE posting[i]]
          /\ Rows' = Rows \cup opened
          /\ \A i \in opened : \A j \in Rows : j < i
    BY <1>2, OpensRows
  <2>1. PICK board :
          /\ board \in [opened -> Board]
          /\ posting' = [i \in PostingId |->
                           IF i \in opened THEN NewPosting(board[i]) ELSE posting[i]]
          /\ Rows' = Rows \cup opened
          /\ \A i \in opened : \A j \in Rows : j < i
    BY <2>some
  <2>2. \A i \in opened : posting'[i].created = clock
    BY <2>1 DEF NewPosting, NoPosting
  <2>3. \A i \in Rows : posting'[i] = posting[i]
    BY <1>a, <2>1
  <2>b. clock <= clock
    <3>1. clock \in Nat
      BY DEF TypeOK
    <3> QED BY <3>1
  <2>5. Finish(r) /\ UNCHANGED clock
    BY <1>2 DEF DistributeCommit
  <2>6. \A i, j \in Rows' : i < j => posting'[i].created <= posting'[j].created
    <3>1. ASSUME NEW i \in opened, NEW j \in Rows PROVE ~(i < j)
      BY <1>a, <2>1
    <3>2. \A i, j \in Rows : i < j => posting'[i].created <= posting'[j].created
      BY <2>3 DEF BoardOk
    <3>3. ASSUME NEW i \in Rows', NEW j \in opened
          PROVE  posting'[i].created <= posting'[j].created
      <4>1. i \in opened \/ i \in Rows
        BY <2>1
      <4>2. posting'[j].created = clock /\ clock <= clock
        BY <2>2, <2>b
      <4>3. i \in Rows => posting'[i].created <= clock
        BY <2>3 DEF BoardOk
      <4> QED BY <2>2, <4>1, <4>2, <4>3
    <3> QED BY <2>1, <3>1, <3>2, <3>3
  <2>7. \A i \in Rows' : posting'[i].created <= clock'
    <3>1. \A i \in Rows : posting'[i].created <= clock
      BY <2>3 DEF BoardOk
    <3>2. \A i \in opened : posting'[i].created <= clock
      BY <2>2, <2>b
    <3> QED BY <2>1, <2>5, <3>1, <3>2
  <2>8. \A i \in PostingId \ Rows' : posting'[i].count = 0
    BY <2>1 DEF BoardOk
  <2> QED BY <1>2, <2>5, <2>6, <2>7, <2>8, TargetStays, TypeFinish DEF BoardOk
<1>3. ASSUME NEW r \in Req, MarkCommit(r) PROVE BoardOk'
  <2>1. Finish(r) /\ UNCHANGED <<job, clock>>
    BY <1>3 DEF MarkCommit
  <2>2. /\ Rows' = Rows
        /\ \A i \in PostingId : posting'[i].count = posting[i].count
                                /\ posting'[i].created = posting[i].created
    BY <1>3 DEF MarkCommit, TypeOK, Posting, Rows
  <2> QED BY <1>a, <2>1, <2>2, TypeFinish DEF BoardOk
<1>4. ASSUME NEW r \in Req, CountCommit(r) PROVE BoardOk'
  <2>1. UNCHANGED <<job, clock, loc>> /\ loc[r].row \in Rows
        /\ \A q \in Req : pc'[q] = "distribute" => pc[q] = "distribute"
    BY <1>4 DEF CountCommit, Addressed, ByRow, ByBoard, Goto, TypeOK
  <2>2. /\ Rows' = Rows
        /\ \A i \in PostingId : posting'[i].created = posting[i].created
        /\ \A i \in PostingId \ {loc[r].row} : posting'[i].count = posting[i].count
    BY <1>4 DEF CountCommit, TypeOK, Posting, Rows
  <2> QED BY <1>a, <2>1, <2>2 DEF BoardOk
<1>5. ASSUME NEW r \in Req, LoadRow(r) \/ LoadBoard(r) PROVE BoardOk'
  <2>1. /\ UNCHANGED <<job, clock, posting>>
        /\ \A q \in Req : pc'[q] = "distribute" => pc[q] = "distribute" /\ q # r
        /\ \A q \in Req \ {r} : loc'[q] = loc[q]
    BY <1>5 DEF LoadRow, LoadBoard, Goto, TypeOK
  <2> QED BY <2>1 DEF BoardOk, Rows
<1>6. ASSUME NEW r \in Req, Total(r) \/ SyncCommit(r) \/ Abort(r) PROVE BoardOk'
  <2>1. Finish(r) /\ UNCHANGED <<clock, posting>> /\ job'.target = job.target
    BY <1>6 DEF Total, SyncCommit, Abort, TypeOK, Job
  <2> QED BY <2>1, TypeFinish DEF BoardOk, Rows
<1>7. ASSUME Tick \/ Quiet \/ UNCHANGED vars PROVE BoardOk'
  <2>1. UNCHANGED <<job, posting, pc, loc>> /\ clock' >= clock
    BY <1>7 DEF Tick, Quiet, vars, TypeOK
  <2>2. clock \in Nat /\ clock' \in Nat /\ \A i \in Rows : posting[i].created \in Nat
    BY <1>7, <1>a DEF Tick, Quiet, vars, TypeOK, Posting
  <2> QED BY <2>1, <2>2 DEF BoardOk, Rows
<1> QED BY <1>1, <1>2, <1>3, <1>4, <1>5, <1>6, <1>7 DEF Next

\* The board is in order in every reachable state.
LEMMA BoardAlways == Spec => [](TypeOK /\ Addressed /\ BoardOk)
<1>1. Init => BoardOk
  BY BoardInit
<1> QED BY <1>1, TypeInit, TypeNext, BoardNext, PTL DEF Spec
-----------------------------------------------------------------------------
(***************************************************************************)
(* The ratchet misses nothing.                                             *)
(***************************************************************************)
\* A request that will look at the postings as they are, or has seen the target
\* reached, and that ends by setting the ratchet.
WillSet(r) ==
    \/ pc[r] \in {"loadRow", "loadBoard"}
    \/ pc[r] \in {"totalRow", "totalBoard"} /\ Reaches(loc[r].job, loc[r].rows)

\* Whenever the postings add up to the target, the ratchet is set or a request is
\* under way that will set it.
Owed ==
    seen \cap {"blind", "retarget", "abort"} = {} /\ Reaches(job, posting) =>
        job.met \/ \E r \in Req : WillSet(r)

\* Nothing adds up to a target at the start.
LEMMA OwedInit == Init => Owed
<1> SUFFICES ASSUME Init PROVE Owed
  OBVIOUS
<1>1. Sum(posting) = 0 /\ job \in Job
  BY BoardInit, TypeInit DEF TypeOK
<1>2. ~Reaches(job, posting)
  <2>1. job.target # None => job.target \in Nat /\ job.target > 0
    <3>1. job.target \in Targets \cup {None}
      BY <1>1 DEF Job
    <3>2. \A t \in Targets : t \in Nat /\ t > 0
      BY JobAssumption
    <3> QED BY <3>1, <3>2
  <2> QED BY <1>1, <2>1 DEF Reaches
<1> QED BY <1>2 DEF Owed

\* A request that is not about to set the ratchet takes no debt with it.
LEMMA OwedKept ==
  ASSUME Owed, NEW r \in Req, ~WillSet(r),
         \A q \in Req \ {r} : pc'[q] = pc[q] /\ loc'[q] = loc[q],
         seen \subseteq seen', job.met => job'.met,
         Reaches(job', posting') => Reaches(job, posting)
  PROVE  Owed'
<1> SUFFICES ASSUME seen' \cap {"blind", "retarget", "abort"} = {},
                    Reaches(job', posting'), ~job'.met
             PROVE  \E q \in Req : WillSet(q)'
  BY DEF Owed
<1>1. PICK q \in Req : WillSet(q)
  BY DEF Owed
<1>2. q # r /\ WillSet(q)'
  BY <1>1 DEF WillSet
<1> QED BY <1>2

\* A first target is above what nothing adds up to.
LEMMA FirstTarget ==
  ASSUME TypeOK, Addressed, BoardOk, NEW r \in Req, DistributeCommit(r), job.target = None
  PROVE  ~Reaches(job', posting')
<1>1. \A i \in PostingId : posting[i].count = 0
  BY DEF BoardOk
<1>2. Sum(posting) = 0 /\ Sum(posting') = 0
  BY <1>1, SumZero, OpensRows
<1>3. loc[r].value \in Nat /\ loc[r].value > 0
  BY JobAssumption DEF DistributeCommit, Addressed
<1>4. job'.target = loc[r].value
  BY TargetStays DEF DistributeCommit, Written, TypeOK, Job
<1> QED BY <1>2, <1>3, <1>4 DEF Reaches

\* No step leaves a reached target with nobody to set the ratchet.
LEMMA OwedNext ==
  TypeOK /\ Addressed /\ BoardOk /\ Earned /\ Earned' /\ Owed /\ [Next]_vars => Owed'
<1> SUFFICES ASSUME TypeOK, Addressed, BoardOk, Earned, Earned', Owed, [Next]_vars
             PROVE  Owed'
  OBVIOUS
<1>1. ASSUME NEW r \in Req, Start(r) PROVE Owed'
  <2>1. PICK next, row, payload :
          payload \in Loc /\ Begin(r, next, row, payload)
    BY <1>1, StartTyped
  <2>2. /\ UNCHANGED <<job, posting>> /\ seen \subseteq seen' /\ ~WillSet(r)
        /\ \A q \in Req \ {r} : pc'[q] = pc[q] /\ loc'[q] = loc[q]
    BY <2>1 DEF Begin, TypeOK, WillSet
  <2> QED BY <2>2, OwedKept
<1>2. ASSUME NEW r \in Req, DistributeCommit(r) PROVE Owed'
  <2>1. /\ Finish(r) /\ ~WillSet(r) /\ seen \subseteq seen' /\ job'.met = job.met
        /\ job.target # None /\ job'.target # job.target => "retarget" \in seen'
    BY <1>2 DEF DistributeCommit, WillSet, Saw, TypeOK, Job
  <2>2. \A i \in PostingId : posting'[i].count = posting[i].count
    BY <1>2, OpensRows
  <2>3. CASE job'.target = job.target
    <3>1. Reaches(job', posting') => Reaches(job, posting)
      BY <2>2, <2>3, ReachesByCounts
    <3> QED BY <2>1, <3>1, OwedKept, TypeFinish
  <2>4. CASE job.target = None
    BY <1>2, <2>4, FirstTarget DEF Owed
  <2>5. CASE job.target # None /\ job'.target # job.target
    BY <2>1, <2>5 DEF Owed
  <2> QED BY <2>3, <2>4, <2>5
<1>3. ASSUME NEW r \in Req, MarkCommit(r) PROVE Owed'
  <2>1. Finish(r) /\ ~WillSet(r) /\ UNCHANGED <<job, seen>>
    BY <1>3 DEF MarkCommit, WillSet
  <2>2. \A i \in PostingId : posting'[i].count = posting[i].count
    BY <1>3 DEF MarkCommit, TypeOK, Posting
  <2>3. Reaches(job', posting') => Reaches(job, posting)
    BY <2>1, <2>2, ReachesByCounts
  <2> QED BY <2>1, <2>3, OwedKept, TypeFinish
<1>4. ASSUME NEW r \in Req, CountCommit(r) PROVE Owed'
  <2>1. pc'[r] \in {"loadRow", "loadBoard"}
    BY <1>4 DEF CountCommit, Goto, TypeOK
  <2> QED BY <2>1 DEF Owed, WillSet
<1>5. ASSUME NEW r \in Req, LoadRow(r) PROVE Owed'
  <2>1. pc'[r] = "totalRow" /\ loc'[r].job = job' /\ loc'[r].rows = posting'
    BY <1>5 DEF LoadRow, Goto, TypeOK, Loc
  <2> QED BY <2>1 DEF Owed, WillSet
<1>6. ASSUME NEW r \in Req, LoadBoard(r) PROVE Owed'
  <2> SUFFICES ASSUME "blind" \notin seen' PROVE Owed'
    BY DEF Owed
  <2>1. pc'[r] = "totalBoard"
    BY <1>6 DEF LoadBoard, Goto, TypeOK
  <2>2. loc'[r].job = job' /\ \A i \in PostingId : loc'[r].rows[i].count = posting'[i].count
    BY <2>1 DEF Earned, Undisturbed, ByBoard
  <2>3. Reaches(job', posting') => Reaches(loc'[r].job, loc'[r].rows)
    BY <2>2, ReachesByCounts
  <2> QED BY <2>1, <2>3 DEF Owed, WillSet
<1>7. ASSUME NEW r \in Req, Total(r) PROVE Owed'
  <2>1. /\ Finish(r) /\ UNCHANGED <<posting, seen>> /\ job'.target = job.target
        /\ pc[r] \in {"totalRow", "totalBoard"}
        /\ job'.met <=> job.met \/ Reaches(loc[r].job, loc[r].rows)
    BY <1>7 DEF Total, TypeOK, Job
  <2>2. WillSet(r) => job'.met
    BY <2>1 DEF WillSet
  <2>3. Reaches(job', posting') => Reaches(job, posting)
    BY <2>1, ReachesByCounts
  <2>4. ~WillSet(r) => Owed'
    BY <2>1, <2>3, OwedKept, TypeFinish
  <2> QED BY <2>2, <2>4 DEF Owed
<1>8. ASSUME NEW r \in Req, SyncCommit(r) PROVE Owed'
  <2>1. /\ Finish(r) /\ UNCHANGED posting /\ job'.target = job.target /\ job'.met = job.met
        /\ ~WillSet(r) /\ seen \subseteq seen'
    BY <1>8 DEF SyncCommit, Saw, TypeOK, Job, WillSet
  <2>2. Reaches(job', posting') => Reaches(job, posting)
    BY <2>1, ReachesByCounts
  <2> QED BY <2>1, <2>2, OwedKept, TypeFinish
<1>9. ASSUME NEW r \in Req, Abort(r) PROVE Owed'
  BY <1>9 DEF Abort, Saw, Owed
<1>10. ASSUME Tick \/ Quiet \/ UNCHANGED vars PROVE Owed'
  BY <1>10 DEF Tick, Quiet, vars, Owed, WillSet
<1> QED BY <1>1, <1>2, <1>3, <1>4, <1>5, <1>6, <1>7, <1>8, <1>9, <1>10 DEF Next

\* When nobody is at work and the postings add up to the target, the ratchet is
\* set, unless an edit by board ran beside another request, the target was
\* replaced, or a request died.
THEOREM RatchetCompleteHolds == Spec => []RatchetComplete
<1>1. Owed => RatchetComplete
  <2> SUFFICES ASSUME Owed, Active = {}, seen \cap {"blind", "retarget", "abort"} = {},
                      Reaches(job, posting)
               PROVE  job.met
    BY DEF RatchetComplete
  <2>1. ASSUME NEW r \in Req, WillSet(r) PROVE r \in Active
    BY <2>1 DEF WillSet, Active, Working, ByRow, ByBoard
  <2> QED BY <2>1 DEF Owed
<1> QED BY <1>1, OwedInit, OwedNext, EarnedInit, EarnedNext, ShapeAlways, BoardAlways, PTL DEF Spec
-----------------------------------------------------------------------------
(***************************************************************************)
(* Requests that run one by one.                                           *)
(***************************************************************************)
\* As long as no two requests overlapped, the one under way holds the job and the
\* postings as they are, but for the count it wrote itself and has not read back.
Alone ==
    "overlap" \notin seen =>
        \A r \in Active :
            /\ \A q \in Active : q = r
            /\ loc[r].job = job
            /\ pc[r] \notin {"loadRow", "loadBoard"} => loc[r].rows = posting
            /\ pc[r] = "loadBoard" =>
                 \A i \in PostingId \ {loc[r].row} : loc[r].rows[i] = posting[i]

\* Without a sync and a death the total is the sum, or about to be.
Totalled ==
    seen \cap {"overlap", "sync", "abort"} = {} =>
        \/ job.total = Sum(posting)
        \/ \E r \in Req : pc[r] \in {"loadRow", "loadBoard", "totalRow", "totalBoard"}

\* The last one out leaves nobody.
LEMMA AloneFinish ==
  ASSUME TypeOK, Alone, NEW r \in Active, Finish(r), seen \subseteq seen'
  PROVE  Alone'
<1> SUFFICES ASSUME "overlap" \notin seen' PROVE Active' = {}
  BY DEF Alone
<1>1. r \in Req /\ Active = {r}
  BY DEF Alone, Active
<1>2. pc'[r] = "done" /\ \A q \in Req \ {r} : pc'[q] = pc[q]
  BY <1>1, TypeFinish
<1> QED BY <1>1, <1>2 DEF Active, Working, ByRow, ByBoard

\* A request that runs alone keeps up with what it does.
LEMMA AloneNext == TypeOK /\ Addressed /\ Alone /\ [Next]_vars => Alone'
<1> SUFFICES ASSUME TypeOK, Addressed, Alone, [Next]_vars, "overlap" \notin seen'
             PROVE  Alone'
  BY DEF Alone
<1>1. ASSUME NEW r \in Req, Start(r) PROVE Alone'
  <2>some. PICK next \in {"distribute", "mark", "countRow", "countBoard", "sync"} :
          \E row, payload : payload \in Loc /\ Begin(r, next, row, payload)
    BY <1>1, StartTyped
  <2>1. PICK row, payload : payload \in Loc /\ Begin(r, next, row, payload)
    BY <2>some
  <2>2. Active = {}
    BY <2>1 DEF Begin
  <2>3. /\ UNCHANGED <<job, posting>>
        /\ loc'[r].job = job /\ loc'[r].rows = posting /\ pc'[r] = next
        /\ \A q \in Req \ {r} : pc'[q] = pc[q]
    BY <2>1 DEF Begin, TypeOK, Loc
  <2>4. Active' \subseteq {r}
    BY <2>2, <2>3 DEF Active
  <2> QED BY <2>1, <2>3, <2>4 DEF Alone
<1>2. ASSUME NEW r \in Req,
             \/ DistributeCommit(r) \/ MarkCommit(r) \/ Total(r) \/ SyncCommit(r) \/ Abort(r)
      PROVE  Alone'
  <2>1. r \in Active /\ Finish(r) /\ seen \subseteq seen'
    BY <1>2 DEF DistributeCommit, MarkCommit, Total, SyncCommit, Abort, Saw, Active,
                Working, ByRow, ByBoard
  <2> QED BY <2>1, AloneFinish
<1>3. ASSUME NEW r \in Req, CountCommit(r) \/ LoadRow(r) \/ LoadBoard(r) PROVE Alone'
  <2>1. /\ r \in Active /\ UNCHANGED <<job, seen>>
        /\ \A q \in Req \ {r} : pc'[q] = pc[q]
    BY <1>3 DEF CountCommit, LoadRow, LoadBoard, Goto, TypeOK, Active, Working, ByRow, ByBoard
  <2>2. /\ Active = {r} /\ loc[r].job = job
        /\ pc[r] \notin {"loadRow", "loadBoard"} => loc[r].rows = posting
        /\ pc[r] = "loadBoard" =>
             \A i \in PostingId \ {loc[r].row} : loc[r].rows[i] = posting[i]
    BY <2>1 DEF Alone
  <2>3. Active' \subseteq {r}
    BY <2>1, <2>2 DEF Active
  <2>4. CASE CountCommit(r)
    <3>1. /\ UNCHANGED loc /\ pc'[r] \in {"loadRow", "loadBoard"} /\ loc[r].rows = posting
          /\ \A i \in PostingId \ {loc[r].row} : posting'[i] = posting[i]
      BY <2>2, <2>4 DEF CountCommit, Goto, TypeOK
    <3> QED BY <2>1, <2>2, <2>3, <3>1 DEF Alone
  <2>5. CASE LoadRow(r)
    <3>1. pc'[r] = "totalRow" /\ loc'[r].job = job' /\ loc'[r].rows = posting'
      BY <2>5 DEF LoadRow, Goto, TypeOK, Loc
    <3> QED BY <2>3, <3>1 DEF Alone
  <2>6. CASE LoadBoard(r)
    <3>1. /\ pc'[r] = "totalBoard" /\ loc'[r].job = loc[r].job /\ posting' = posting
          /\ loc'[r].rows = [i \in PostingId |->
                               IF i = loc[r].row \/ loc[r].rows[i].board = None
                               THEN posting[i] ELSE loc[r].rows[i]]
      BY <2>6 DEF LoadBoard, Goto, TypeOK, Loc
    <3>2. \A i \in PostingId \ {loc[r].row} : loc[r].rows[i] = posting[i]
      BY <2>2, <2>6 DEF LoadBoard
    <3>3. posting = [i \in PostingId |-> posting[i]]
      BY DEF TypeOK
    <3>4. loc'[r].rows = posting'
      BY <3>1, <3>2, <3>3
    <3> QED BY <2>1, <2>2, <2>3, <3>1, <3>4 DEF Alone
  <2> QED BY <1>3, <2>4, <2>5, <2>6
<1>4. ASSUME Tick \/ Quiet \/ UNCHANGED vars PROVE Alone'
  BY <1>4 DEF Tick, Quiet, vars, Alone, Active
<1> QED BY <1>1, <1>2, <1>3, <1>4 DEF Next

\* A request that changes neither total nor sum leaves them as they agree.
LEMMA TotalledKept ==
  ASSUME Totalled, NEW r \in Req, pc[r] \notin {"loadRow", "loadBoard", "totalRow", "totalBoard"},
         \A q \in Req \ {r} : pc'[q] = pc[q], seen \subseteq seen',
         job'.total = job.total, Sum(posting') = Sum(posting)
  PROVE  Totalled'
BY DEF Totalled

\* The total keeps up with the postings.
LEMMA TotalledNext ==
  TypeOK /\ Addressed /\ BoardOk /\ Alone /\ Totalled /\ [Next]_vars => Totalled'
<1> SUFFICES ASSUME TypeOK, Addressed, BoardOk, Alone, Totalled, [Next]_vars,
                    seen' \cap {"overlap", "sync", "abort"} = {}
             PROVE  Totalled'
  BY DEF Totalled
<1>1. ASSUME NEW r \in Req, Start(r) PROVE Totalled'
  <2>1. PICK next, row, payload : payload \in Loc /\ Begin(r, next, row, payload)
    BY <1>1, StartTyped
  <2>2. /\ UNCHANGED <<job, posting>> /\ pc[r] = "idle" /\ seen \subseteq seen'
        /\ \A q \in Req \ {r} : pc'[q] = pc[q]
    BY <2>1 DEF Begin, TypeOK
  <2> QED BY <2>2, TotalledKept
<1>2. ASSUME NEW r \in Req, DistributeCommit(r) PROVE Totalled'
  <2>1. Finish(r) /\ pc[r] = "distribute" /\ seen \subseteq seen' /\ job'.total = job.total
    BY <1>2 DEF DistributeCommit, Saw, TypeOK, Job
  <2>2. Sum(posting') = Sum(posting)
    BY <1>2, OpensRows
  <2> QED BY <2>1, <2>2, TotalledKept, TypeFinish
<1>3. ASSUME NEW r \in Req, MarkCommit(r) PROVE Totalled'
  <2>1. Finish(r) /\ pc[r] = "mark" /\ UNCHANGED <<seen, job>>
    BY <1>3 DEF MarkCommit
  <2>2. \A i \in PostingId : posting'[i].count = posting[i].count
    BY <1>3 DEF MarkCommit, TypeOK, Posting
  <2>3. Sum(posting') = Sum(posting)
    BY <2>2, SumOfCounts
  <2> QED BY <2>1, <2>3, TotalledKept, TypeFinish
<1>4. ASSUME NEW r \in Req, CountCommit(r) \/ LoadRow(r) \/ LoadBoard(r) PROVE Totalled'
  <2>1. pc'[r] \in {"loadRow", "loadBoard", "totalRow", "totalBoard"}
    BY <1>4 DEF CountCommit, LoadRow, LoadBoard, Goto, TypeOK
  <2> QED BY <2>1 DEF Totalled
<1>5. ASSUME NEW r \in Req, Total(r) PROVE Totalled'
  <2>1. r \in Active /\ UNCHANGED <<posting, seen>> /\ pc[r] \notin {"loadRow", "loadBoard"}
    BY <1>5 DEF Total, Active, Working, ByRow, ByBoard
  <2>2. loc[r].job = job /\ loc[r].rows = posting
    BY <2>1 DEF Alone
  <2>3. job'.total = Written(job.total, loc[r].job.total, Sum(loc[r].rows))
    BY <1>5 DEF Total, TypeOK, Job
  <2>4. job'.total = Sum(posting)
    BY <2>2, <2>3 DEF Written
  <2> QED BY <2>1, <2>4 DEF Totalled
<1>6. ASSUME NEW r \in Req, SyncCommit(r) PROVE Totalled'
  <2>1. Finish(r) /\ pc[r] = "sync" /\ UNCHANGED <<posting, job>> /\ seen \subseteq seen'
    BY <1>6 DEF SyncCommit, Saw
  <2> QED BY <2>1, TotalledKept, TypeFinish
<1>7. ASSUME NEW r \in Req, Abort(r) PROVE Totalled'
  BY <1>7 DEF Abort, Saw
<1>8. ASSUME Tick \/ Quiet \/ UNCHANGED vars PROVE Totalled'
  BY <1>8 DEF Tick, Quiet, vars, Totalled
<1> QED BY <1>1, <1>2, <1>3, <1>4, <1>5, <1>6, <1>7, <1>8 DEF Next

\* Nobody works, and nothing is counted, at the start.
LEMMA AloneInit == Init => Alone /\ Totalled
<1> SUFFICES ASSUME Init PROVE Alone /\ Totalled
  OBVIOUS
<1>1. job.total = 0 /\ Sum(posting) = 0
  <2>1. \E t : job = [target |-> t, met |-> FALSE, total |-> 0]
    BY DEF Init
  <2> QED BY <2>1, BoardInit
<1>2. Active = {}
  BY DEF Init, Active, Working, ByRow, ByBoard
<1> QED BY <1>1, <1>2 DEF Alone, Totalled

\* What holds while requests run one by one, in every reachable state.
LEMMA AloneAlways == Spec => [](Alone /\ Totalled)
<1> QED BY AloneInit, AloneNext, TotalledNext, BoardAlways, PTL DEF Spec

\* While requests run one by one, and none syncs or dies, the total is the sum of
\* the postings whenever nobody is at work.
THEOREM SerialTotalsHolds == Spec => []SerialTotals
<1>1. Totalled => SerialTotals
  BY DEF Totalled, SerialTotals, Active, Working, ByRow, ByBoard
<1> QED BY <1>1, AloneAlways, PTL

\* Of a board whose newest posting is of a second of its own, distribute looks at
\* that one.
LEMMA NewestIsLast ==
  ASSUME TypeOK, BoardOk, ~Tied, NEW b \in Board, OnBoard(posting, b) # {}
  PROVE  LatestRow(posting, b) = Max(OnBoard(posting, b))
<1> DEFINE old == OnBoard(posting, b)
           last == Max(old)
           Latest(i) == \A j \in old : \/ posting[i].created > posting[j].created
                                       \/ posting[i].created = posting[j].created /\ i <= j
<1>1. old \subseteq Rows /\ old \subseteq PostingId
  BY JobAssumption DEF OnBoard, Rows
<1>2. last \in old /\ \A i \in old : last >= i
  BY <1>1, LastId
<1>3. \A i \in old : i \in Nat /\ posting[i].created \in Nat /\ posting[i].board = b
  BY <1>1, JobAssumption DEF TypeOK, Posting, OnBoard
<1> HIDE DEF old, last
<1>4. ASSUME NEW i \in old, i # last PROVE posting[last].created > posting[i].created
  <2>1. i < last /\ posting[i].created <= posting[last].created
    <3>1. i < last
      BY <1>2, <1>3, <1>4
    <3> QED BY <1>1, <1>2, <3>1 DEF BoardOk
  <2>2. posting[i].created # posting[last].created
    BY <1>1, <1>2, <1>3, <1>4 DEF Tied
  <2> QED BY <1>2, <1>3, <2>1, <2>2
<1>5. Latest(last)
  BY <1>2, <1>3, <1>4
<1>6. ASSUME NEW i \in old, Latest(i) PROVE i = last
  BY <1>2, <1>3, <1>4, <1>6
<1> HIDE DEF Latest
<1>7. (CHOOSE i \in old : Latest(i)) = last
  BY <1>2, <1>5, <1>6
<1> QED BY <1>7 DEF LatestRow, old, last, Latest

\* While requests run one by one, distribute opens no posting on a board whose
\* newest posting is live, unless two postings of a board share a second.
THEOREM NoDoublePostingHolds == Spec => NoDoublePosting
<1> DEFINE Step ==
      ~Tied /\ "overlap" \notin seen =>
         \A i \in Rows' \ Rows :
            LET old == OnBoard(posting, posting'[i].board)
            IN old # {} => posting[Max(old)].status \notin Live
<1>1. TypeOK /\ Addressed /\ BoardOk /\ Alone /\ [Next]_vars => Step
  <2> SUFFICES ASSUME TypeOK, Addressed, BoardOk, Alone, [Next]_vars,
                      ~Tied, "overlap" \notin seen, NEW i \in Rows' \ Rows,
                      OnBoard(posting, posting'[i].board) # {}
               PROVE  posting[Max(OnBoard(posting, posting'[i].board))].status \notin Live
    OBVIOUS
  <2>1. ASSUME NEW r \in Req, DistributeCommit(r)
        PROVE  posting[Max(OnBoard(posting, posting'[i].board))].status \notin Live
    <3>some. PICK opened \in SUBSET (PostingId \ Rows) : \E board :
            /\ board \in [opened -> Board]
            /\ posting' = [j \in PostingId |->
                             IF j \in opened THEN NewPosting(board[j]) ELSE posting[j]]
            /\ Rows' = Rows \cup opened
            /\ \A j \in opened : ~Open(loc[r].rows, board[j])
      BY <2>1, OpensRows
    <3>1. PICK board :
            /\ board \in [opened -> Board]
            /\ posting' = [j \in PostingId |->
                             IF j \in opened THEN NewPosting(board[j]) ELSE posting[j]]
            /\ Rows' = Rows \cup opened
            /\ \A j \in opened : ~Open(loc[r].rows, board[j])
      BY <3>some
    <3>2. i \in opened /\ board[i] \in Board
      BY <3>1
    <3>3. posting'[i].board = board[i]
      BY <3>1, <3>2, NewTyped
    <3>4. loc[r].rows = posting
      BY <2>1 DEF DistributeCommit, Alone, Active, Working
    <3>5. ~Open(posting, board[i])
      BY <3>1, <3>2, <3>4
    <3>6. LatestRow(posting, board[i]) = Max(OnBoard(posting, board[i]))
      BY <3>2, <3>3, NewestIsLast
    <3> QED BY <3>3, <3>5, <3>6 DEF Open
  <2>2. ASSUME NEW r \in Req, MarkCommit(r) \/ CountCommit(r) PROVE Rows' = Rows
    <3>1. \A j \in PostingId : posting'[j].board = posting[j].board
      BY <2>2 DEF MarkCommit, CountCommit, TypeOK, Posting
    <3> QED BY <3>1 DEF Rows
  <2>3. ASSUME NEW r \in Req, Start(r) PROVE Rows' = Rows
    BY <2>3, StartTyped DEF Begin, Rows
  <2>4. ASSUME NEW r \in Req,
               LoadRow(r) \/ LoadBoard(r) \/ Total(r) \/ SyncCommit(r) \/ Abort(r)
        PROVE  Rows' = Rows
    BY <2>4 DEF LoadRow, LoadBoard, Total, SyncCommit, Abort, Rows
  <2>5. ASSUME Tick \/ Quiet \/ UNCHANGED vars PROVE Rows' = Rows
    BY <2>5 DEF Tick, Quiet, vars, Rows
  <2> QED BY <2>1, <2>2, <2>3, <2>4, <2>5 DEF Next
<1>2. Step => [Step]_vars
  OBVIOUS
<1> QED BY <1>1, BoardAlways, AloneAlways, PTL DEF Spec, NoDoublePosting
=============================================================================
