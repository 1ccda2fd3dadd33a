--------------------------- MODULE ReconcileProofs ---------------------------
(***************************************************************************)
(* The guard of the reconcile, proved for every corpus and page size: when *)
(* ids become visible in ascending order and at most one page of them      *)
(* appears during a listing, a listing as long as the declared total is    *)
(* the server's id set of the moment it began.                             *)
(*                                                                         *)
(* New ids sit on top of a listing in descending order.  An offset past    *)
(* the first page can therefore reach a new id only behind a whole page of *)
(* other new ones, so all a listing collects is old; and as many old ids   *)
(* as there were are all of them.                                          *)
(***************************************************************************)
EXTENDS Reconcile, FiniteSetTheorems, TLAPS

\* The listing is under way: its first page has been read.
Started == pc # "idle" /\ (pc # "listing" \/ offset # 0)

ListingInv ==
    /\ IsFiniteSet(fresh) /\ Cardinality(fresh) <= MaxInserts
    /\ \A i \in fresh, j \in before : j < i
    /\ before \subseteq used
    /\ offset = 0 \/ offset >= Page
    /\ pc = "idle" => offset = 0
    /\ ~Started => seen = {}
    /\ Started =>
          /\ seen \subseteq before
          /\ total = None \/ total = Cardinality(before)
          /\ pc = "listing" => live \subseteq before \cup fresh
          /\ local \cap live \subseteq before
    /\ clean => pc = "done" /\ local \subseteq before

IInv == TypeOK /\ ListingInv

-----------------------------------------------------------------------------

\* The id sets are finite, so their sizes are numbers.
LEMMA FiniteIds ==
  ASSUME NEW S \in SUBSET Ids
  PROVE  IsFiniteSet(S) /\ Cardinality(S) \in Nat
  BY ConstantsAssumption, FS_Subset, FS_CardinalityType

\* Past the first page, a listing shows only ids that were there when it began.
LEMMA PagesAreOld ==
  ASSUME MaxInserts <= Page, IInv, pc = "listing", offset # 0
  PROVE  ListedPage \subseteq before
<1> SUFFICES ASSUME NEW i \in ListedPage, i \notin before
             PROVE  FALSE
  OBVIOUS
<1>1. i \in live /\ i \in fresh /\ i \in Ids /\ live \subseteq Ids
  BY DEF ListedPage, IInv, TypeOK, ListingInv, Started
<1>2. Cardinality(Above(i)) >= Page
  BY <1>1, FiniteIds, ConstantsAssumption DEF ListedPage, IInv, TypeOK, ListingInv, Above
<1>3. Above(i) \subseteq fresh \ {i}
  <2>1. ASSUME NEW j \in live, j > i PROVE j \in fresh /\ j # i
    <3>1. j \in Nat /\ i \in Nat
      BY <1>1, ConstantsAssumption
    <3>2. j \notin before
      BY <1>1, <2>1, <3>1 DEF IInv, ListingInv
    <3>3. QED
      BY <2>1, <3>1, <3>2 DEF IInv, ListingInv, Started
  <2>2. QED
    BY <2>1 DEF Above
<1>4. /\ IsFiniteSet(fresh \ {i})
      /\ Cardinality(fresh \ {i}) = Cardinality(fresh) - 1
      /\ Cardinality(fresh) \in Nat
  BY <1>1, FS_RemoveElement, FS_CardinalityType DEF IInv, ListingInv
<1>5. Cardinality(Above(i)) <= Cardinality(fresh \ {i})
  BY <1>3, <1>4, FS_Subset
<1>6. Cardinality(Above(i)) \in Nat
  BY <1>1, FiniteIds DEF Above
<1>7. Cardinality(fresh) <= MaxInserts /\ MaxInserts \in Nat /\ Page \in Nat
  BY ConstantsAssumption DEF IInv, ListingInv
<1>8. QED
  BY <1>2, <1>4, <1>5, <1>6, <1>7

\* A listing that passes the guard is the set of ids it began with.
LEMMA WholeIsAll ==
  ASSUME IInv, Started, Whole
  PROVE  seen = before
<1>1. IsFiniteSet(before) /\ seen \in SUBSET before
  BY FiniteIds DEF IInv, TypeOK, ListingInv
<1>2. Cardinality(seen) = Cardinality(before)
  BY DEF IInv, ListingInv, Whole
<1>3. QED
  BY <1>1, <1>2, FS_Subset

\* No listing is under way at the start.
LEMMA InitInv == Init => IInv
<1> SUFFICES ASSUME Init PROVE IInv
  OBVIOUS
<1>1. TypeOK
  BY ConstantsAssumption DEF Init, TypeOK
<1>2. MaxInserts \in Nat /\ IsFiniteSet({}) /\ Cardinality({}) = 0
  BY ConstantsAssumption, FS_EmptySet
<1>3. ListingInv
  BY <1>2 DEF Init, ListingInv, Started
<1>4. QED
  BY <1>1, <1>3 DEF IInv

\* The server, while it is listed.
LEMMA InsertStep ==
  ASSUME LateIds = FALSE, IInv, NEW i \in Ids, Insert(i)
  PROVE  IInv'
<1> USE ConstantsAssumption DEF IInv, Insert, listing
<1>1. TypeOK'
  BY DEF TypeOK
<1>2. IsFiniteSet(fresh') /\ Cardinality(fresh') <= MaxInserts
  <2>1. MaxInserts \in Nat /\ Cardinality(fresh) \in Nat /\ IsFiniteSet(fresh)
    BY FS_CardinalityType DEF ListingInv
  <2>2. CASE pc = "listing"
    <3>1. /\ IsFiniteSet(fresh \cup {i})
          /\ Cardinality(fresh \cup {i}) \in {Cardinality(fresh), Cardinality(fresh) + 1}
      BY <2>1, FS_AddElement
    <3>2. QED
      BY <2>1, <2>2, <3>1
  <2>3. CASE pc # "listing"
    BY <2>1, <2>3 DEF ListingInv
  <2>4. QED
    BY <2>2, <2>3
<1>3. \A k \in fresh', j \in before : j < k
  BY DEF ListingInv
<1>4. ListingInv'
  <2>1. CASE pc = "listing"
    BY <1>2, <1>3, <2>1 DEF ListingInv, Started, TypeOK
  <2>2. CASE pc # "listing"
    BY <1>2, <1>3, <2>2 DEF ListingInv, Started, TypeOK
  <2>3. QED
    BY <2>1, <2>2
<1>5. QED
  BY <1>1, <1>4

\* The server deletes, the mirror pulls and forgets, the interval elapses.
LEMMA QuietSteps ==
  ASSUME IInv,
         \/ \E i \in Ids : Delete(i)
         \/ Upgrade
         \/ \E I \in SUBSET Ids, R \in SUBSET (local \ live) : PullEntries(I, R)
         \/ \E I \in SUBSET Ids : Prune(I)
         \/ Elapse
         \/ StartReconcile
         \/ UNCHANGED vars
  PROVE  IInv'
<1> USE ConstantsAssumption DEF IInv, listing, serverVars, Started
<1>1. ASSUME NEW i \in Ids, Delete(i) PROVE IInv'
  BY <1>1 DEF Delete, TypeOK, ListingInv
<1>2. ASSUME NEW I \in SUBSET Ids, NEW R \in SUBSET (local \ live), PullEntries(I, R) PROVE IInv'
  BY <1>2 DEF PullEntries, TypeOK, ListingInv
<1>3. ASSUME NEW I \in SUBSET Ids, Prune(I) PROVE IInv'
  BY <1>3 DEF Prune, TypeOK, ListingInv
<1>4. CASE Elapse
  BY <1>4 DEF Elapse, TypeOK, ListingInv
<1>5. CASE StartReconcile
  BY <1>5 DEF StartReconcile, TypeOK, ListingInv
<1>6. CASE UNCHANGED vars
  BY <1>6 DEF vars, TypeOK, ListingInv
<1>7. CASE Upgrade
  BY <1>7 DEF Upgrade, TypeOK, ListingInv
<1>8. QED
  BY <1>1, <1>2, <1>3, <1>4, <1>5, <1>6, <1>7

\* A page of the listing, the first or a later one.
LEMMA ListPageStep ==
  ASSUME MaxInserts <= Page, IInv, NEW declared \in Totals, ListPage(declared)
  PROVE  IInv'
<1> USE ConstantsAssumption DEF IInv, ListPage, serverVars
<1>1. ListedPage \subseteq live /\ live \subseteq Ids /\ Cardinality(live) \in Nat
  BY FiniteIds DEF ListedPage, TypeOK
<1>2. declared = None \/ declared = Cardinality(live)
  BY DEF Totals
<1>3. fails' \in Nat /\ offset' \in Nat /\ (offset' = 0 \/ offset' >= Page)
  BY DEF TypeOK, ListingInv
<1>4. pc' \in {"listing", "listed", "endless"} /\ Started'
  BY DEF TypeOK, Started, ListingInv
<1>5. CASE offset = 0
  <2>1. seen = {} /\ seen' = ListedPage /\ total' = declared /\ before' = live /\ fresh' = {}
    BY <1>5 DEF Started, ListingInv, TypeOK
  <2>2. TypeOK'
    BY <1>1, <1>2, <1>3, <1>4, <2>1 DEF TypeOK
  <2>3. MaxInserts \in Nat /\ IsFiniteSet({}) /\ Cardinality({}) = 0
    BY FS_EmptySet
  <2>4. ListingInv'
    BY <1>1, <1>2, <1>3, <1>4, <2>1, <2>3 DEF ListingInv, TypeOK
  <2>5. QED
    BY <2>2, <2>4
<1>6. CASE offset # 0
  <2>1. ListedPage \subseteq before /\ Started
    BY <1>6, PagesAreOld DEF Started
  <2>2. UNCHANGED <<total, before, fresh>>
    BY <1>6
  <2>3. TypeOK'
    BY <1>1, <1>3, <1>4, <2>2 DEF TypeOK
  <2>4. ListingInv'
    BY <1>3, <1>4, <2>1, <2>2 DEF ListingInv
  <2>5. QED
    BY <2>3, <2>4
<1>7. QED
  BY <1>5, <1>6

\* The verdict, and the end of the pass.
LEMMA VerdictSteps ==
  ASSUME IInv, DeleteStale \/ Abort \/ FinishPass \/ FailPass
  PROVE  IInv'
<1> USE ConstantsAssumption DEF IInv, listing, serverVars, Started
<1>1. CASE DeleteStale
  BY <1>1 DEF DeleteStale, TypeOK, ListingInv
<1>2. CASE Abort
  BY <1>2 DEF Abort, TypeOK, ListingInv
<1>3. MaxInserts \in Nat /\ IsFiniteSet({}) /\ Cardinality({}) = 0
  BY FS_EmptySet
<1>4. CASE FinishPass
  <2>1. TypeOK'
    BY <1>4 DEF FinishPass, ListingOver, TypeOK
  <2>2. ListingInv'
    BY <1>3, <1>4 DEF FinishPass, ListingOver, TypeOK, ListingInv
  <2>3. QED
    BY <2>1, <2>2
<1>5. CASE FailPass
  <2>0. fails \in Nat /\ fails' = fails + 1
    BY <1>5 DEF FailPass, TypeOK
  <2>1. TypeOK'
    <3>1. fails' \in Nat
      BY <2>0
    <3>2. QED
      BY ONLY <3>1, <1>5, IInv, ConstantsAssumption DEF FailPass, ListingOver, TypeOK
  <2>2. ListingInv'
    BY <1>3, <1>5 DEF FailPass, ListingOver, TypeOK, ListingInv
  <2>3. QED
    BY <2>1, <2>2
<1>6. QED
  BY <1>1, <1>2, <1>4, <1>5

\* Every step keeps the invariant.
LEMMA NextInv ==
  ASSUME LateIds = FALSE, MaxInserts <= Page, IInv, [Next]_vars
  PROVE  IInv'
  BY InsertStep, QuietSteps, ListPageStep, VerdictSteps DEF Next, Server, Pass

\* Every reachable state satisfies the strengthened invariant: a listing shows only
\* ids the server held when it began (reconcile).
THEOREM Invariant ==
  ASSUME LateIds = FALSE, MaxInserts <= Page
  PROVE  Spec => []IInv
<1>1. Init => IInv
  BY InitInv
<1>2. IInv /\ [Next]_vars => IInv'
  BY NextInv
<1>3. QED
  BY <1>1, <1>2, PTL DEF Spec

\* One step keeps the shape of the state, in whatever order ids become visible.
LEMMA TypeStep ==
  ASSUME TypeOK, [Next]_vars
  PROVE  TypeOK'
<1> USE ConstantsAssumption DEF TypeOK, listing, serverVars
<1>1. ASSUME NEW i \in Ids, Insert(i) PROVE TypeOK'
  BY <1>1 DEF Insert
<1>2. ASSUME NEW i \in Ids, Delete(i) PROVE TypeOK'
  BY <1>2 DEF Delete
<1>3. ASSUME \/ \E I \in SUBSET Ids, R \in SUBSET (local \ live) : PullEntries(I, R)
             \/ \E I \in SUBSET Ids : Prune(I)
      PROVE  TypeOK'
  <2>1. local' \subseteq used
    BY <1>3 DEF PullEntries, Prune
  <2>2. UNCHANGED <<live, used, listsIds, due, pc, offset, total, seen, before, clean, fresh, fails>>
    BY <1>3 DEF PullEntries, Prune
  <2>3. QED
    BY <2>1, <2>2
<1>4. ASSUME Elapse \/ StartReconcile \/ DeleteStale \/ Abort PROVE TypeOK'
  <2>1. CASE Elapse
    BY <2>1 DEF Elapse
  <2>2. CASE StartReconcile
    BY <2>2 DEF StartReconcile
  <2>3. CASE DeleteStale
    BY <2>3 DEF DeleteStale
  <2>4. CASE Abort
    BY <2>4 DEF Abort
  <2>5. QED
    BY <1>4, <2>1, <2>2, <2>3, <2>4
<1>5. ASSUME NEW declared \in Totals, ListPage(declared) PROVE TypeOK'
  <2>1. /\ live \subseteq Ids /\ ListedPage \subseteq live
        /\ declared \in Nat \cup {None}
    BY FiniteIds DEF ListedPage, Totals
  <2>2. /\ offset' \in Nat /\ fails' \in Nat /\ total' \in Nat \cup {None}
        /\ pc' \in {"listing", "listed", "endless"}
    BY <1>5, <2>1 DEF ListPage
  <2>3. QED
    BY <1>5, <2>1, <2>2 DEF ListPage
<1>6. ASSUME FinishPass \/ FailPass PROVE TypeOK'
  <2>1. /\ due' \in BOOLEAN /\ pc' = "idle" /\ clean' = FALSE
        /\ UNCHANGED <<live, used, listsIds, local>>
    BY <1>6 DEF FinishPass, FailPass
  <2>2. fails' = fails \/ fails' = fails + 1
    BY <1>6 DEF FinishPass, FailPass
  <2>3. offset' = 0 /\ total' = None /\ seen' = {} /\ before' = {} /\ fresh' = {}
    BY <1>6 DEF FinishPass, FailPass, ListingOver
  <2>4. fails' \in Nat
    BY <2>2
  <2>5. QED
    BY <2>1, <2>3, <2>4
<1>7. CASE UNCHANGED vars
  BY <1>7 DEF vars
<1>8. CASE Upgrade
  BY <1>8 DEF Upgrade
<1>9. QED
  BY <1>1, <1>2, <1>3, <1>4, <1>5, <1>6, <1>7, <1>8 DEF Next, Server, Pass

\* The state of a reconcile keeps its shape, in whatever order ids become visible
\* and however many: an idle worker has forgotten the listing of its last pass
\* (pull.rs, reconcile).
THEOREM TypeCorrect == Spec => []TypeOK
<1>1. Init => TypeOK
  BY InitInv DEF IInv
<1>2. TypeOK /\ [Next]_vars => TypeOK'
  BY TypeStep
<1>3. QED
  BY <1>1, <1>2, PTL DEF Spec

\* No reconcile deletes an entry the server still has, if ids become visible in
\* order and not more than a page of them during one listing (pull.rs, the guard
\* on the declared total).
THEOREM LiveEntriesSpared ==
  ASSUME LateIds = FALSE, MaxInserts <= Page
  PROVE  Spec => SparesLive
<1>1. ASSUME IInv, DeleteStale PROVE (local \ local') \cap live = {}
  <2>1. Started /\ Whole /\ local' = local \cap seen
    BY <1>1 DEF DeleteStale, Started
  <2>2. seen = before
    BY <1>1, <2>1, WholeIsAll
  <2>3. QED
    BY <1>1, <2>1, <2>2 DEF IInv, ListingInv
<1>2. IInv /\ [Next]_vars => [DeleteStale => (local \ local') \cap live = {}]_vars
  BY <1>1
<1>3. QED
  BY <1>2, Invariant, PTL DEF Spec, SparesLive

\* A reconcile recorded as run left nothing in the mirror that the server did not
\* have when the listing began (Reconcile::completed, sync).
THEOREM RecordsAreTrue ==
  ASSUME LateIds = FALSE, MaxInserts <= Page
  PROVE  Spec => RecordedMeansClean
<1>1. ASSUME IInv, [Next]_vars, due, ~due' PROVE local' \subseteq before
  <2>1. CASE FinishPass
    BY <1>1, <2>1 DEF FinishPass, IInv, ListingInv
  <2>2. CASE ~FinishPass
    <3>1. due' = due \/ due'
      BY <1>1, <2>2 DEF Next, Server, Pass, Upgrade, Insert, Delete, PullEntries, Prune, Elapse,
         StartReconcile, ListPage, DeleteStale, Abort, FailPass, vars
    <3>2. QED
      BY <1>1, <3>1 DEF IInv, TypeOK
  <2>3. QED
    BY <2>1, <2>2
<1>2. IInv /\ [Next]_vars => [due /\ ~due' => local' \subseteq before]_vars
  BY <1>1
<1>3. QED
  BY <1>2, Invariant, PTL DEF Spec, RecordedMeansClean

-----------------------------------------------------------------------------

(***************************************************************************)
(* What is left of the guarantee when ids become visible late, or more of  *)
(* them than a page: the reconcile may then delete too much, but what it   *)
(* keeps the server did have at some moment of the listing.                *)
(***************************************************************************)

\* A listing shows ids the server held when it began or was given since.
SeenInv ==
    /\ offset = 0 \/ offset >= Page
    /\ pc = "idle" => offset = 0
    /\ ~Started => seen = {}
    /\ Started =>
          /\ seen \subseteq before \cup fresh
          /\ pc = "listing" => live \subseteq before \cup fresh
    /\ clean => pc = "done" /\ local \subseteq before \cup fresh

\* One step, whatever the server inserts.
LEMMA SeenStep ==
  ASSUME TypeOK, SeenInv, [Next]_vars
  PROVE  SeenInv'
<1> USE ConstantsAssumption DEF TypeOK, SeenInv, Started, listing, serverVars
<1>1. ASSUME NEW i \in Ids, Insert(i) PROVE SeenInv'
  BY <1>1 DEF Insert
<1>2. ASSUME NEW i \in Ids, Delete(i) PROVE SeenInv'
  BY <1>2 DEF Delete
<1>3. ASSUME \/ \E I \in SUBSET Ids, R \in SUBSET (local \ live) : PullEntries(I, R)
             \/ \E I \in SUBSET Ids : Prune(I)
      PROVE  SeenInv'
  <2>1. /\ local' \subseteq local \/ ~clean
        /\ UNCHANGED <<live, used, listsIds, due, pc, offset, total, seen, before, clean, fresh, fails>>
    BY <1>3 DEF PullEntries, Prune
  <2>2. QED
    BY <2>1
<1>4. ASSUME Elapse \/ StartReconcile \/ DeleteStale \/ Abort PROVE SeenInv'
  <2>1. CASE Elapse
    BY <2>1 DEF Elapse
  <2>2. CASE StartReconcile
    BY <2>2 DEF StartReconcile
  <2>3. CASE DeleteStale
    BY <2>3 DEF DeleteStale
  <2>4. CASE Abort
    BY <2>4 DEF Abort
  <2>5. QED
    BY <1>4, <2>1, <2>2, <2>3, <2>4
<1>5. ASSUME NEW declared \in Totals, ListPage(declared) PROVE SeenInv'
  <2>1. ListedPage \subseteq live
    BY DEF ListedPage
  <2>2. (offset' = 0 \/ offset' >= Page) /\ Started'
    BY <1>5 DEF ListPage
  <2>3. CASE offset = 0
    BY <1>5, <2>1, <2>2, <2>3 DEF ListPage
  <2>4. CASE offset # 0
    BY <1>5, <2>1, <2>2, <2>4 DEF ListPage
  <2>5. QED
    BY <2>3, <2>4
<1>6. ASSUME FinishPass \/ FailPass PROVE SeenInv'
  BY <1>6 DEF FinishPass, FailPass, ListingOver
<1>7. CASE UNCHANGED vars
  BY <1>7 DEF vars
<1>8. CASE Upgrade
  BY <1>8 DEF Upgrade
<1>9. QED
  BY <1>1, <1>2, <1>3, <1>4, <1>5, <1>6, <1>7, <1>8 DEF Next, Server, Pass

\* A reconcile recorded as run left only entries the server had when the listing
\* began or was given while it went on, with no assumption on the order or the
\* number of new ids: an aborted one is never taken for it (Reconcile::completed,
\* sync).
THEOREM RecordsAreServed ==
  Spec => [][due /\ ~due' => local' \subseteq before \cup fresh]_vars
<1>1. Init => SeenInv
  BY DEF Init, SeenInv, Started
<1>2. TypeOK /\ SeenInv /\ [Next]_vars => SeenInv'
  BY SeenStep
<1>3. ASSUME TypeOK, SeenInv, [Next]_vars, due, ~due'
      PROVE  local' \subseteq before \cup fresh
  <2>1. CASE FinishPass
    BY <1>3, <2>1 DEF FinishPass, SeenInv
  <2>2. CASE ~FinishPass
    BY <1>3, <2>2 DEF Next, Server, Pass, Upgrade, Insert, Delete, PullEntries, Prune, Elapse,
       StartReconcile, ListPage, DeleteStale, Abort, FailPass, vars, TypeOK
  <2>3. QED
    BY <2>1, <2>2
<1>4. TypeOK /\ SeenInv /\ [Next]_vars
        => [due /\ ~due' => local' \subseteq before \cup fresh]_vars
  BY <1>3
<1>5. QED
  BY <1>1, <1>2, <1>4, TypeCorrect, PTL DEF Spec

=============================================================================
