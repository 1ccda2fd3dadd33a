----------------------------- MODULE PullProofs -----------------------------
(***************************************************************************)
(* The pull leaves no gap, for any set of entries, page size, page cap and *)
(* skew, with and without a Date in the responses, as long as no pass is   *)
(* dated later than the skew makes up for; and with a Date in every        *)
(* response none is, if the skew exceeds the time the server takes to make *)
(* a change visible.                                                       *)
(*                                                                         *)
(* The argument of pull.rs, "Why no gaps", as an inductive invariant: what *)
(* a pass has already walked past is either merged or was stamped at most  *)
(* Lag before its first page, so a cursor before that instant is safe.     *)
(***************************************************************************)
EXTENDS Pull, TLAPS

\* Changes are stamped in the past, and are visible within Lag of their stamp.
ClockInv ==
    /\ \A e \in Entries : changed[e] <= clock /\ merged[e] <= rev[e]
    /\ \A e \in Entries : open[e] # None => open[e] <= clock /\ clock <= open[e] + Lag
    /\ ~ahead /\ cursor # None => cursor < clock

\* What a pass that began then cannot have seen of the entries E was stamped at
\* most Lag before.
SeenSince(E, then) ==
    /\ \A e \in E \ Unusable : Missing(e) => changed[e] >= then - Lag
    /\ \A e \in Entries : open[e] # None => open[e] >= then - Lag

WalkedPast == {e \in Entries : e <= after}

PassInv ==
    /\ pages = 0 => after = 0 /\ anchor = None /\ began = None /\ base = None
    /\ pages # 0 => began # None /\ began <= clock
    /\ pc # "pulled" => next = None
    /\ pc = "idle" => pages = 0
    /\ ~ahead /\ began # None => SeenSince(WalkedPast, began)
    /\ next # None =>
          /\ base # None /\ began # None /\ next = base - Skew
          /\ ~ahead => SeenSince(Entries, began)

\* What dated responses add: the first one's Date is the anchor, and the base.
DatedInv ==
    DateMissing = FALSE =>
        /\ pages # 0 => anchor = began
        /\ base # None => base = began
        /\ ~ahead

IInv == TypeOK /\ ClockInv /\ NoGap /\ PassInv /\ DatedInv

-----------------------------------------------------------------------------

\* A device without a cursor asks for everything.
LEMMA InitInv == Init => IInv
<1> SUFFICES ASSUME Init PROVE IInv
  OBVIOUS
<1> USE ConstantsAssumption DEF Init
<1>1. TypeOK
  <2>1. rev \in [Entries -> Nat] /\ changed \in [Entries -> Nat] /\ merged \in [Entries -> Nat]
    OBVIOUS
  <2>2. open \in [Entries -> Nat \cup {None}]
    OBVIOUS
  <2>3. pages \in 0..MaxPages
    OBVIOUS
  <2>4. QED
    BY <2>1, <2>2, <2>3 DEF TypeOK
<1>2. ClockInv
  BY DEF ClockInv
<1>3. NoGap
  BY DEF NoGap, Covered, InWindow
<1>4. PassInv /\ DatedInv
  BY DEF PassInv, DatedInv
<1>5. QED
  BY <1>1, <1>2, <1>3, <1>4 DEF IInv

\* The server may change at any point of a pass.
LEMMA ServerStep == IInv /\ Server => IInv'
<1> SUFFICES ASSUME IInv, Server PROVE IInv'
  OBVIOUS
<1> USE ConstantsAssumption DEF IInv, passVars
<1>1. CASE Tick
  <2> USE <1>1 DEF Tick
  <2>1. TypeOK'
    BY DEF TypeOK
  <2>2. ClockInv'
    BY DEF TypeOK, ClockInv
  <2>3. NoGap'
    BY DEF NoGap, Covered, Missing, InWindow
  <2>4. PassInv'
    BY DEF TypeOK, PassInv, SeenSince, WalkedPast, Missing
  <2>5. DatedInv'
    BY DEF DatedInv
  <2>6. QED
    BY <2>1, <2>2, <2>3, <2>4, <2>5
<1>2. ASSUME NEW e \in Entries, Begin(e) PROVE IInv'
  <2> USE <1>2 DEF Begin
  <2>1. TypeOK'
    BY DEF TypeOK
  <2>2. ClockInv'
    BY DEF TypeOK, ClockInv
  <2>3. NoGap'
    BY DEF TypeOK, ClockInv, NoGap, Covered, Missing, InWindow
  <2>4. PassInv'
    BY DEF TypeOK, ClockInv, PassInv, SeenSince, WalkedPast, Missing
  <2>5. DatedInv'
    BY DEF DatedInv
  <2>6. QED
    BY <2>1, <2>2, <2>3, <2>4, <2>5
<1>3. ASSUME NEW e \in Entries, Commit(e) PROVE IInv'
  <2> USE <1>3 DEF Commit
  <2>1. TypeOK'
    BY DEF TypeOK
  <2>2. ClockInv'
    BY DEF TypeOK, ClockInv
  <2>3. NoGap'
    BY DEF TypeOK, ClockInv, NoGap, Covered, Missing, InWindow
  <2>4. PassInv'
    BY DEF TypeOK, ClockInv, PassInv, SeenSince, WalkedPast, Missing
  <2>5. DatedInv'
    BY DEF DatedInv
  <2>6. QED
    BY <2>1, <2>2, <2>3, <2>4, <2>5
<1>4. QED
  BY <1>1, <1>2, <1>3 DEF Server

\* Everything of the window up to the last id of a full page is in the page.
LEMMA PageIsPrefix ==
  ASSUME NEW P, IsPage(P), NEW last \in P, NEW e \in Window, e <= last,
         Entries \subseteq Nat
  PROVE  e \in P
<1>1. e \in Nat /\ last \in Nat /\ last \in Window
  BY DEF IsPage, Window
<1>2. CASE e < last
  BY <1>2 DEF IsPage
<1>3. CASE e = last
  BY <1>3
<1>4. QED
  BY <1>1, <1>2, <1>3

\* One page, first or later, last or full, dated or not.
LEMMA ReadPageStep ==
  ASSUME IInv, NEW P \in SUBSET Entries, NEW date \in DatesOfNow, NEW phone \in PhoneClocks,
         ReadPage(P, date, phone)
  PROVE  IInv'
<1> USE ConstantsAssumption DEF IInv, ReadPage, serverVars
<1>1. /\ Anchored(date) \in Nat \cup {None}
      /\ Base(Anchored(date), phone) \in Nat
      /\ began' \in Nat /\ began' <= clock
      /\ ~ahead => SeenSince(WalkedPast, began')
  <2>1. date \in Nat \cup {None} /\ phone \in Nat
    BY DEF TypeOK, DatesOfNow, PhoneClocks
  <2>2. CASE pages = 0
    <3>1. began' = clock /\ after = 0
      BY <2>2 DEF PassInv
    <3>2. WalkedPast = {}
      <4>1. \A e \in Entries : e \in Nat /\ e # 0
        OBVIOUS
      <4>2. \A e \in Entries : ~(e <= after)
        BY <3>1, <4>1
      <4>3. QED
        BY <4>2, Zenon DEF WalkedPast
    <3>3. SeenSince({}, clock)
      <4>1. \A e \in Entries : open[e] # None => open[e] >= clock - Lag
        BY DEF ClockInv, TypeOK
      <4>2. QED
        BY <4>1 DEF SeenSince
    <3>4. QED
      BY <2>1, <3>1, <3>2, <3>3 DEF TypeOK, Anchored, Base
  <2>3. CASE pages # 0
    BY <2>1, <2>3 DEF PassInv, TypeOK, Anchored, Base
  <2>4. QED
    BY <2>2, <2>3
<1>2. \A e \in Entries \ Unusable : Missing(e)' => Missing(e) /\ e \notin P
  BY DEF Missing, TypeOK
<1>3. ASSUME ~ahead, NEW e \in Entries \ Unusable, Missing(e)'
      PROVE  e \in Window \/ e \in WalkedPast
  BY <1>2, <1>3 DEF Window, WalkedPast, Missing, NoGap, Covered, ClockInv, TypeOK
<1>4. ClockInv' /\ NoGap'
  <2>1. ClockInv'
    BY DEF ClockInv, TypeOK
  <2>2. NoGap'
    BY <1>2 DEF NoGap, Covered, InWindow
  <2>3. QED
    BY <2>1, <2>2
<1>5. pages' # 0 /\ pages' \in Nat /\ pc' # "idle" /\ UNCHANGED <<ahead, open, changed>>
  BY DEF TypeOK
<1>6. DatedInv'
  <2> SUFFICES ASSUME DateMissing = FALSE
               PROVE  anchor' = began' /\ (base' # None => base' = began') /\ ~ahead'
    BY DEF DatedInv
  <2>1. date = clock /\ date # None /\ ~ahead
    BY DEF DatesOfNow, DatedInv, TypeOK
  <2>2. anchor' = began' /\ anchor' # None
    BY <2>1 DEF DatedInv, PassInv, TypeOK, Anchored
  <2>3. base' \in {base, anchor'}
    BY <2>2 DEF Base
  <2>4. base # None => base = began /\ pages # 0
    BY DEF DatedInv, PassInv, TypeOK
  <2>5. QED
    BY <2>1, <2>2, <2>3, <2>4
<1>7. CASE LastPage(P)
  <2>1. P = Window
    BY <1>7 DEF IsPage, LastPage
  <2>2. /\ pc' = "pulled" /\ after' = after /\ anchor' = Anchored(date)
        /\ base' = Base(Anchored(date), phone) /\ next' = base' - Skew
    BY <1>7, <1>1 DEF NextCursor
  <2>3. TypeOK'
    BY <1>1, <2>2 DEF TypeOK, BelowCap
  <2>4. ~ahead => \A e \in Entries \ Unusable : Missing(e)' => changed[e] >= began' - Lag
    BY <1>1, <1>2, <1>3, <2>1 DEF SeenSince
  <2>5. ~ahead => SeenSince(Entries, began)' /\ SeenSince(WalkedPast, began)'
    BY <1>1, <1>5, <2>4 DEF SeenSince, WalkedPast
  <2>6. PassInv'
    BY <1>1, <1>5, <2>2, <2>5 DEF PassInv
  <2>7. QED
    BY <1>4, <1>6, <2>3, <2>6
<1>8. CASE ~LastPage(P)
  <2>1. PICK last \in P : (\A e \in P : e <= last) /\ after' = last
    BY <1>8
  <2>2. pc' = pc /\ next' = next /\ base' = base /\ anchor' = Anchored(date)
    BY <1>8
  <2>3. TypeOK'
    BY <1>1, <2>1, <2>2 DEF TypeOK, BelowCap
  <2>4. ASSUME ~ahead, NEW e \in Entries \ Unusable, e <= last, Missing(e)'
        PROVE  changed[e] >= began' - Lag
    BY <1>1, <1>2, <1>3, <2>1, <2>4, PageIsPrefix DEF SeenSince
  <2>5. ~ahead => SeenSince(WalkedPast, began)'
    BY <1>1, <1>5, <2>1, <2>4 DEF SeenSince, WalkedPast
  <2>6. PassInv'
    BY <1>1, <1>5, <2>1, <2>2, <2>5 DEF TypeOK, PassInv
  <2>7. QED
    BY <1>4, <1>6, <2>3, <2>6
<1>9. QED
  BY <1>7, <1>8

\* A stored cursor lies before everything its pass cannot have seen.
LEMMA FinishStep == IInv /\ FinishPass => IInv'
<1> SUFFICES ASSUME IInv, FinishPass PROVE IInv'
  OBVIOUS
<1> USE ConstantsAssumption DEF IInv, FinishPass, PassOver, serverVars
<1>1. TypeOK'
  <2>1. ahead' \in BOOLEAN
    BY Zenon DEF TypeOK
  <2>2. QED
    BY <2>1 DEF TypeOK
<1>2. ASSUME ~ahead', next # None
      PROVE  ~ahead /\ next < began - Lag /\ began <= clock /\ SeenSince(Entries, began)
  <2>1. ~ahead /\ ~TooLate
    BY <1>2, Zenon
  <2>2. base \in Nat /\ began \in Nat /\ next = base - Skew /\ began <= clock
        /\ SeenSince(Entries, began)
    BY <1>2, <2>1 DEF TypeOK, PassInv
  <2>3. QED
    BY <2>1, <2>2 DEF TooLate
<1>3. ClockInv'
  BY <1>2 DEF TypeOK, ClockInv, PassInv
<1>4. NoGap'
  BY <1>2 DEF TypeOK, NoGap, Covered, SeenSince, PassInv, Missing, InWindow
<1>5. PassInv'
  BY DEF PassInv
<1>6. DatedInv'
  BY SkewCoversLag DEF DatedInv, PassInv, TypeOK, TooLate
<1>7. QED
  BY <1>1, <1>3, <1>4, <1>5, <1>6

\* The other steps of a pass, and its failure.
LEMMA OtherPassSteps ==
  ASSUME IInv, StartPass \/ StopAtCap \/ FailPass \/ UNCHANGED vars
  PROVE  IInv'
<1> USE ConstantsAssumption DEF IInv, serverVars, passVars
<1>1. CASE StartPass
  BY <1>1 DEF StartPass, TypeOK, ClockInv, NoGap, Covered, PassInv, DatedInv, SeenSince, WalkedPast,
              Missing, InWindow
<1>2. CASE StopAtCap
  BY <1>2 DEF StopAtCap, BelowCap, TypeOK, ClockInv, NoGap, Covered, PassInv, DatedInv, SeenSince,
              WalkedPast, Missing, InWindow
<1>3. CASE FailPass
  BY <1>3 DEF FailPass, PassOver, TypeOK, ClockInv, NoGap, Covered, PassInv, DatedInv, SeenSince,
              WalkedPast, Missing, InWindow
<1>4. CASE UNCHANGED vars
  BY <1>4 DEF vars, TypeOK, ClockInv, NoGap, Covered, PassInv, DatedInv, SeenSince, WalkedPast,
              Missing, InWindow
<1>5. QED
  BY <1>1, <1>2, <1>3, <1>4

\* Every step keeps the invariant.
LEMMA NextInv == IInv /\ [Next]_vars => IInv'
<1> SUFFICES ASSUME IInv, [Next]_vars PROVE IInv'
  OBVIOUS
<1>1. CASE Pass
  <2>1. ASSUME NEW P \in SUBSET Entries, NEW date \in DatesOfNow, NEW phone \in PhoneClocks,
               ReadPage(P, date, phone)
        PROVE  IInv'
    BY <2>1, ReadPageStep
  <2>2. QED
    BY <1>1, <2>1, FinishStep, OtherPassSteps DEF Pass
<1>2. QED
  BY <1>1, ServerStep, OtherPassSteps DEF Next

\* Every reachable state satisfies the strengthened invariant: whatever a pass has
\* walked past is merged, or was stamped at most Lag before it began
\* (entries_with_page_cap).
THEOREM Invariant == Spec => []IInv
<1>1. Init => IInv
  BY InitInv
<1>2. IInv /\ [Next]_vars => IInv'
  BY NextInv
<1>3. QED
  BY <1>1, <1>2, PTL DEF Spec

\* A pass never reads more pages than its cap, and its state keeps its shape
\* (entries_with_page_cap).
THEOREM TypeCorrect == Spec => []TypeOK
<1>1. IInv => TypeOK
  BY DEF IInv
<1>2. QED
  BY <1>1, Invariant, PTL

\* No change of a usable entry is ever skipped for good, whatever the server does
\* during a pass, wherever passes fail and whichever responses lack their Date, as
\* long as no pass is dated later than its skew makes up for (pull.rs, "Why no
\* gaps").
THEOREM NothingSkipped == Spec => []NoGap
<1>1. IInv => NoGap
  BY DEF IInv
<1>2. QED
  BY <1>1, Invariant, PTL

\* With a Date on every response the proviso falls away: no pass is dated too late,
\* and nothing is ever skipped (pull.rs, "Why no gaps").
THEOREM DatedSkipsNothing ==
  ASSUME DateMissing = FALSE
  PROVE  Spec => []Covered
<1>1. IInv => Covered
  BY DEF IInv, NoGap, DatedInv
<1>2. QED
  BY <1>1, Invariant, PTL

\* With a Date on every response, the anchor is the first one's (pull.rs).
THEOREM FirstAnchor ==
  ASSUME DateMissing = FALSE
  PROVE  Spec => []AnchoredAtFirst
<1>1. IInv => AnchoredAtFirst
  BY ConstantsAssumption DEF IInv, TypeOK, PassInv, DatedInv, AnchoredAtFirst
<1>2. QED
  BY <1>1, Invariant, PTL

=============================================================================
