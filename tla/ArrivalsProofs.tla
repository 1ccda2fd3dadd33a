--------------------------- MODULE ArrivalsProofs ---------------------------
(***************************************************************************)
(* The new-articles notification, proved for any number of articles.       *)
(*                                                                         *)
(* Four facts carry it.  The Announcer's memory and the notification say   *)
(* the same after every step: an update is left out only when the ids are  *)
(* the ones shown, because a subset of the same size is the set itself.    *)
(* While no bump is owed or unseen, what a review read is what the mirror  *)
(* holds, so that what it publishes is current.  An article flagged once   *)
(* is in the mirror, or was lost with its creation before the cursor, so   *)
(* that it is not flagged again.  And what was announced, is unread and is *)
(* still flagged is covered by the notification that is up, or the reader  *)
(* has Vuo in front, or the switch is off; the switch moves only in front, *)
(* where everything is acknowledged first.                                 *)
(***************************************************************************)
EXTENDS Arrivals, FiniteSetTheorems, TLAPS

\* The two halves of the type invariant: Boolean variables, and the rest.
FlagsOK ==
    /\ synced \in BOOLEAN /\ tell \in BOOLEAN /\ moved \in BOOLEAN
    /\ active \in BOOLEAN /\ enabled \in BOOLEAN /\ repeat \in BOOLEAN
    /\ timed \in BOOLEAN /\ watching \in BOOLEAN

StateOK ==
    /\ created \in SUBSET Articles /\ known \in SUBSET created
    /\ window \in SUBSET created
    /\ pass \in {"idle", "pull", "prune", "bump"}
    /\ status \in [Articles -> States]
    /\ arrived \in SUBSET {a \in Articles : status[a] # "absent"}
    /\ gone \in SUBSET Articles /\ hidden \in SUBSET Articles
    /\ at \in {"idle", "review", "acknowledge", "count"}
    /\ found \in SUBSET Articles /\ showing \in SUBSET Articles
    /\ unread \in Nat
    /\ home \in [ids : SUBSET Articles, total : Nat]
    /\ flags \in [Articles -> Nat] /\ lost \in [Articles -> Nat]
    /\ told \in SUBSET Articles
    /\ events \in 0..MaxEvents

Types == FlagsOK /\ StateOK

\* The notification and the Announcer, and when each access happens.
ScreenInv ==
    /\ home = [ids |-> showing, total |-> unread]
    /\ showing = {} => unread = 0
    /\ at = "count" => ~active
    /\ at = "acknowledge" => active
    /\ active /\ at = "idle" => showing = {}

-----------------------------------------------------------------------------
(* Types. *)

\* A set of articles is finite, and its size a number.
LEMMA FiniteArticles ==
  ASSUME NEW S \in SUBSET Articles
  PROVE  IsFiniteSet(S) /\ Cardinality(S) \in Nat
<1>1. IsFiniteSet(S)
  BY ArrivalsAssumption, FS_Subset
<1>2. QED
  BY <1>1, FS_CardinalityType

\* The parts make up the type invariant.
LEMMA TypeParts == Types <=> TypeOK
  BY DEF Types, FlagsOK, StateOK, TypeOK

\* Nothing is up, and nothing flagged, at the start.
LEMMA InitTypes == Init => Types
<1> SUFFICES ASSUME Init PROVE Types
  OBVIOUS
<1>1. FlagsOK
  BY DEF Init, FlagsOK
<1>2. StateOK
  BY ArrivalsAssumption DEF Init, StateOK, States, Nothing
<1>3. QED
  BY <1>1, <1>2 DEF Types

\* The pull keeps the types.
LEMMA PullTypes ==
  ASSUME Types, Pull
  PROVE  Types'
<1> USE ArrivalsAssumption DEF worker, mirror, counted, timer, screen, history, Event
<1>1. ASSUME NEW a \in Articles, NEW s \in {"unread", "read"}, Insert(a, s) PROVE Types'
  <2>1. FlagsOK'
    BY <1>1 DEF Insert, Types, FlagsOK
  <2>2. arrived' \in SUBSET {b \in Articles : status'[b] # "absent"}
    BY <1>1 DEF Insert, Types, StateOK, States
  <2>3. flags' \in [Articles -> Nat]
    BY <1>1 DEF Insert, Types, StateOK
  <2>4. StateOK'
    BY <1>1, <2>2, <2>3 DEF Insert, Types, StateOK, States
  <2>5. QED
    BY <2>1, <2>4 DEF Types
<1>2. ASSUME NEW a \in Articles, NEW s \in {"unread", "read"}, Update(a, s) PROVE Types'
  <2>1. FlagsOK'
    BY <1>2 DEF Update, Types, FlagsOK
  <2>2. StateOK'
    BY <1>2 DEF Update, Types, StateOK, States
  <2>3. QED
    BY <2>1, <2>2 DEF Types
<1>3. ASSUME NEW a \in Articles, Create(a) \/ Prune(a) PROVE Types'
  <2>1. FlagsOK'
    BY <1>3 DEF Create, Prune, Types, FlagsOK
  <2>2. StateOK'
    <3>1. CASE Create(a)
      BY <3>1 DEF Create, Types, StateOK, States
    <3>2. CASE Prune(a)
      <4>1. lost' \in [Articles -> Nat]
        BY <3>2 DEF Prune, Types, StateOK
      <4>2. QED
        BY <3>2, <4>1 DEF Prune, Types, StateOK, States
    <3>3. QED
      BY <1>3, <3>1, <3>2
  <2>3. QED
    BY <2>1, <2>2 DEF Types
<1>4. CASE SyncDue \/ EndPull \/ FailPass \/ Bump
  <2>1. FlagsOK'
    <3>1. CASE SyncDue \/ EndPull \/ FailPass
      BY <3>1 DEF SyncDue, StartPass, EndPull, FailPass, Types, FlagsOK
    <3>2. CASE Bump
      <4>1. moved' = (moved \/ tell) /\ tell' = FALSE
        BY <3>2 DEF Bump
      <4>2. moved' \in BOOLEAN
        BY <4>1 DEF Types, FlagsOK
      <4>3. QED
        BY <3>2, <4>2 DEF Bump, Types, FlagsOK
    <3>3. QED
      BY <1>4, <3>1, <3>2
  <2>2. StateOK'
    BY <1>4 DEF SyncDue, StartPass, EndPull, FailPass, Bump, Types, StateOK
  <2>3. QED
    BY <2>1, <2>2 DEF Types
<1>5. ASSUME NEW K \in SUBSET Articles, FinishPass(K) PROVE Types'
  <2>1. FlagsOK'
    BY <1>5 DEF FinishPass, Types, FlagsOK
  <2>2. StateOK'
    BY <1>5 DEF FinishPass, Types, StateOK
  <2>3. QED
    BY <2>1, <2>2 DEF Types
<1>6. QED
  BY <1>1, <1>2, <1>3, <1>4, <1>5 DEF Pull

\* So do the review and the reader.
LEMMA ReviewTypes ==
  ASSUME Types, Review
  PROVE  Types'
<1> USE ArrivalsAssumption DEF worker, mirror, counted, timer, screen, history, Nothing
<1>1. CASE ReviewInFront \/ AcknowledgeAll \/ ReviewOff
  <2>1. FlagsOK'
    BY <1>1 DEF ReviewInFront, AcknowledgeAll, ReviewOff, Types, FlagsOK
  <2>2. home' \in [ids : SUBSET Articles, total : Nat]
    BY <1>1 DEF ReviewInFront, AcknowledgeAll, ReviewOff, Withdraw, Types, StateOK
  <2>3. StateOK'
    BY <1>1, <2>2 DEF ReviewInFront, AcknowledgeAll, ReviewOff, Withdraw, Types, StateOK
  <2>4. QED
    BY <2>1, <2>3 DEF Types
<1>2. CASE ReviewArrivals
  <2>1. FlagsOK'
    BY <1>2 DEF ReviewArrivals, Types, FlagsOK
  <2>2. StateOK'
    BY <1>2 DEF ReviewArrivals, Arrived, Types, StateOK
  <2>3. QED
    BY <2>1, <2>2 DEF Types
<1>3. CASE ReviewCount
  <2>1. UnreadCount \in Nat
    BY FiniteArticles DEF UnreadCount
  <2>2. FlagsOK'
    BY <1>3 DEF ReviewCount, Announce, Types, FlagsOK
  <2>3. /\ home' \in [ids : SUBSET Articles, total : Nat]
        /\ showing' \in SUBSET Articles /\ unread' \in Nat /\ told' \in SUBSET Articles
    BY <1>3, <2>1 DEF ReviewCount, Announce, Withdraw, Types, StateOK
  <2>4. StateOK'
    BY <1>3, <2>3 DEF ReviewCount, Types, StateOK
  <2>5. QED
    BY <2>2, <2>4 DEF Types
<1>4. QED
  BY <1>1, <1>2, <1>3 DEF Review

\* And what the reader and the timer do.
LEMMA ReaderTypes ==
  ASSUME Types, Timer \/ Reader
  PROVE  Types'
<1> USE ArrivalsAssumption DEF worker, mirror, counted, timer, screen, history, Event, Nothing
<1>1. CASE Timer \/ Refresh \/ ActiveChanged \/ SetNotify \/ Dismissed
  <2>1. FlagsOK'
    <3>1. CASE Timer \/ SetNotify \/ Dismissed
      BY <3>1 DEF Timer, Tick, StopWatching, SetNotify, Dismissed, Types, FlagsOK
    <3>4. CASE Refresh
      <4>1. watching' = (watching \/ ~active) /\ tell' = FALSE /\ moved' = TRUE
        BY <3>4 DEF Refresh, StartPass
      <4>2. watching' \in BOOLEAN
        BY <4>1 DEF Types, FlagsOK
      <4>3. QED
        BY <3>4, <4>2 DEF Refresh, StartPass, Types, FlagsOK
    <3>2. CASE ActiveChanged
      <4>1. active' = ~active /\ moved' = IF active' THEN FALSE ELSE moved
        BY <3>2 DEF ActiveChanged
      <4>2. active' \in BOOLEAN /\ moved' \in BOOLEAN
        BY <4>1 DEF Types, FlagsOK
      <4>3. QED
        BY <3>2, <4>2 DEF ActiveChanged, Types, FlagsOK
    <3>3. QED
      BY <1>1, <3>1, <3>2, <3>4
  <2>2. StateOK'
    <3>1. CASE Timer \/ Refresh \/ ActiveChanged \/ SetNotify
      <4>1. CASE Timer
        BY <4>1 DEF Timer, Tick, StopWatching, Types, StateOK
      <4>5. CASE Refresh
        BY <4>5 DEF Refresh, StartPass, Types, StateOK
      <4>2. CASE ActiveChanged
        BY <4>2 DEF ActiveChanged, Types, StateOK
      <4>3. CASE SetNotify
        BY <4>3 DEF SetNotify, Types, StateOK
      <4>4. QED
        BY <3>1, <4>1, <4>2, <4>3, <4>5
    <3>2. CASE Dismissed
      <4>1. arrived' \in SUBSET {a \in Articles : status'[a] # "absent"}
        BY <3>2 DEF Dismissed, Types, StateOK
      <4>2. home' \in [ids : SUBSET Articles, total : Nat]
        BY <3>2 DEF Dismissed
      <4>3. QED
        BY <3>2, <4>1, <4>2 DEF Dismissed, Types, StateOK
    <3>3. QED
      BY <1>1, <3>1, <3>2
  <2>3. QED
    BY <2>1, <2>2 DEF Types
<1>2. ASSUME NEW a \in Articles, MarkRead(a) PROVE Types'
  <2>1. FlagsOK'
    BY <1>2 DEF MarkRead, Types, FlagsOK
  <2>2. StateOK'
    BY <1>2 DEF MarkRead, Types, StateOK, States
  <2>3. QED
    BY <2>1, <2>2 DEF Types
<1>3. QED
  BY <1>1, <1>2 DEF Reader

\* Every step keeps the types.
LEMMA NextTypes == Types /\ [Next]_vars => Types'
<1> SUFFICES ASSUME Types, [Next]_vars PROVE Types'
  OBVIOUS
<1>1. CASE UNCHANGED vars
  BY <1>1 DEF vars, worker, mirror, counted, timer, screen, history, Types, FlagsOK, StateOK
<1>2. QED
  BY <1>1, PullTypes, ReviewTypes, ReaderTypes DEF Next

(* The types hold of every behaviour: only articles the mirror holds are   *)
(* flagged, and the count the notification gives is a count.               *)
THEOREM TypeCorrect == Spec => []TypeOK
  BY TypeParts, InitTypes, NextTypes, PTL DEF Spec

-----------------------------------------------------------------------------
(* The notification. *)

\* Taking the notification down leaves the Announcer and the home screen agreed.
LEMMA WithdrawAgrees ==
  ASSUME ScreenInv, Withdraw
  PROVE  home' = [ids |-> showing', total |-> unread'] /\ showing' = {} /\ unread' = 0
  BY DEF ScreenInv, Withdraw, Nothing

\* What the Announcer takes for the same notification is the same.
LEMMA SameIsSame ==
  ASSUME StateOK, NEW ids \in SUBSET Articles, NEW total \in Nat, ~Moved(ids, total)
  PROVE  ids = showing /\ total = unread
<1>1. ids \in SUBSET showing /\ Cardinality(ids) = Cardinality(showing) /\ total = unread
  BY FiniteArticles DEF Moved, StateOK
<1>2. IsFiniteSet(showing)
  BY FiniteArticles DEF StateOK
<1>3. QED
  BY <1>1, <1>2, FS_Subset

\* Every step keeps the Announcer and the home screen agreed.
LEMMA NextScreen ==
  ASSUME Types, ScreenInv, [Next]_vars
  PROVE  ScreenInv'
<1> USE DEF worker, mirror, counted, timer, screen, history, Types, FlagsOK
<1>1. CASE UNCHANGED <<at, showing, unread, home, active>>
  BY <1>1 DEF ScreenInv
<1>2. CASE ReviewInFront
  <2>1. CASE arrived = {}
    BY <1>2, <2>1, WithdrawAgrees DEF ReviewInFront, ScreenInv
  <2>2. CASE arrived # {}
    BY <1>2, <2>2 DEF ReviewInFront, ScreenInv
  <2>3. QED
    BY <2>1, <2>2
<1>3. CASE AcknowledgeAll
  BY <1>3, WithdrawAgrees DEF AcknowledgeAll, ScreenInv
<1>4. CASE ReviewOff
  BY <1>4, WithdrawAgrees DEF ReviewOff, ScreenInv
<1>5. CASE ReviewArrivals
  BY <1>5 DEF ReviewArrivals, ScreenInv
<1>6. CASE ReviewCount
  <2>1. ~active' /\ at' = "idle"
    BY <1>6 DEF ReviewCount, ScreenInv
  <2>2. CASE found = {}
    BY <1>6, <2>1, <2>2, WithdrawAgrees DEF ReviewCount, ScreenInv
  <2>3. CASE found # {}
    <3>1. Announce(found, UnreadCount)
      BY <1>6, <2>3 DEF ReviewCount
    <3>2. UnreadCount \in Nat /\ found \in SUBSET Articles
      BY FiniteArticles DEF UnreadCount, StateOK
    <3>3. home' = [ids |-> showing', total |-> unread'] /\ showing' = found
      BY <3>1, <3>2, SameIsSame DEF Announce, ScreenInv
    <3>4. QED
      BY <2>1, <2>3, <3>3 DEF ScreenInv
  <2>4. QED
    BY <2>2, <2>3
<1>7. CASE Tick \/ ActiveChanged
  BY <1>7 DEF Tick, ActiveChanged, ScreenInv
<1>8. CASE Dismissed
  BY <1>8 DEF Dismissed, ScreenInv, Nothing
<1>9. \/ UNCHANGED <<at, showing, unread, home, active>>
      \/ ReviewInFront \/ AcknowledgeAll \/ ReviewOff \/ ReviewArrivals \/ ReviewCount
      \/ Tick \/ ActiveChanged \/ Dismissed
  BY DEF Next, Pull, Review, Timer, Reader, vars, Insert, Update, Create, Prune, StartPass, SyncDue,
     Refresh, EndPull, FailPass, Bump, FinishPass, StopWatching, SetNotify, MarkRead
<1>10. QED
  BY <1>1, <1>2, <1>3, <1>4, <1>5, <1>6, <1>7, <1>8, <1>9

\* Nothing is up at the start.
LEMMA InitScreen == Init => ScreenInv
  BY DEF Init, ScreenInv, Nothing

(* What Announcer::review remembers is what the home screen shows, though  *)
(* it compares counts and not sets.                                        *)
THEOREM AnnouncerAgrees == Spec => []HomeAgrees
<1>1. ScreenInv => HomeAgrees
  BY DEF ScreenInv, HomeAgrees
<1>2. QED
  BY <1>1, InitTypes, NextTypes, InitScreen, NextScreen, PTL DEF Spec

\* What the home screen should show.
Current ==
    IF active \/ ~enabled \/ Arrived = {}
    THEN Nothing
    ELSE [ids |-> Arrived, total |-> UnreadCount]

\* While no bump is owed or unseen, what the review has read is what the mirror
\* holds.
CurrentInv ==
    /\ pass = "idle" => ~tell
    /\ at = "count" => enabled /\ (~moved /\ ~tell => found = Arrived)
    /\ at = "idle" /\ (active \/ (~moved /\ ~tell)) => home = Current

\* A change to the mirror is one the guard will tell of; what retention takes
\* was read.
LEMMA PullCurrent ==
  ASSUME Types, ScreenInv, CurrentInv, Pull
  PROVE  CurrentInv'
<1> USE DEF worker, mirror, counted, timer, screen, history
<1>1. UNCHANGED <<active, enabled, at, found, home, hidden>>
  BY DEF Pull, Insert, Update, Create, Prune, StartPass, SyncDue, EndPull, FailPass, Bump, FinishPass
<1>2. CASE pass' # "idle" /\ tell'
  BY <1>1, <1>2 DEF CurrentInv, Current
<1>3. CASE /\ pass' = "idle" => ~tell'
           /\ ~moved' /\ ~tell' => ~moved /\ ~tell
           /\ Arrived' = Arrived /\ UnreadCount' = UnreadCount
  BY <1>1, <1>3 DEF CurrentInv, Current
<1>4. ASSUME NEW a \in Articles, NEW s \in {"unread", "read"}, Insert(a, s) \/ Update(a, s)
      PROVE  CurrentInv'
  BY <1>2, <1>4 DEF Insert, Update
<1>5. ASSUME NEW a \in Articles, Prune(a) PROVE CurrentInv'
  <2>1. \A b \in Articles : status'[b] = "unread" <=> status[b] = "unread"
    BY <1>5 DEF Prune, Types, StateOK
  <2>2. arrived' = arrived \ {a} /\ status[a] = "read" /\ hidden' = hidden
    BY <1>5 DEF Prune
  <2>3. Arrived' = Arrived
    BY <2>1, <2>2 DEF Arrived, Types, StateOK
  <2>4. UnreadCount' = UnreadCount
    BY <2>1, <2>2 DEF UnreadCount
  <2>5. pass' # "idle" /\ UNCHANGED <<moved, tell>>
    BY <1>5 DEF Prune
  <2>6. QED
    BY <1>3, <2>3, <2>4, <2>5
<1>6. ASSUME UNCHANGED <<status, arrived, hidden>> PROVE Arrived' = Arrived /\ UnreadCount' = UnreadCount
  BY <1>6 DEF Arrived, UnreadCount
<1>7. ASSUME NEW a \in Articles, Create(a) PROVE CurrentInv'
  BY <1>3, <1>6, <1>7 DEF Create, CurrentInv
<1>8. CASE SyncDue
  <2>1. pass' = "pull" /\ ~tell /\ moved' = moved
    BY <1>8 DEF SyncDue, StartPass, CurrentInv
  <2>2. QED
    BY <1>3, <1>6, <1>8, <2>1 DEF SyncDue
<1>9. CASE EndPull
  BY <1>3, <1>6, <1>9 DEF EndPull
<1>10. CASE FailPass
  BY <1>2, <1>10 DEF FailPass
<1>11. CASE Bump
  <2>1. ~tell' /\ (~moved' => ~moved /\ ~tell)
    BY <1>11 DEF Bump
  <2>2. QED
    BY <1>3, <1>6, <1>11, <2>1 DEF Bump
<1>12. ASSUME NEW K \in SUBSET Articles, FinishPass(K) PROVE CurrentInv'
  BY <1>3, <1>6, <1>12 DEF FinishPass
<1>13. QED
  BY <1>4, <1>5, <1>7, <1>8, <1>9, <1>10, <1>11, <1>12 DEF Pull

\* What a review publishes is what it read, and what it takes down is down.
LEMMA ReviewCurrent ==
  ASSUME Types, ScreenInv, CurrentInv, Review
  PROVE  CurrentInv'
<1> USE DEF worker, mirror, counted, timer, screen, history
<1>1. UNCHANGED <<pass, tell, moved, active, enabled>>
  BY DEF Review, ReviewInFront, AcknowledgeAll, ReviewOff, ReviewArrivals, ReviewCount
<1>2. ASSUME Withdraw, at' = "idle", active \/ ~enabled \/ Arrived' = {} PROVE CurrentInv'
  <2>1. home' = Nothing
    BY <1>2, WithdrawAgrees DEF Nothing
  <2>2. QED
    BY <1>1, <1>2, <2>1 DEF CurrentInv, Current
<1>3. CASE ReviewInFront
  <2>1. CASE arrived = {}
    BY <1>2, <1>3, <2>1 DEF ReviewInFront
  <2>2. CASE arrived # {}
    BY <1>1, <1>3, <2>2 DEF ReviewInFront, CurrentInv
  <2>3. QED
    BY <2>1, <2>2
<1>4. CASE AcknowledgeAll
  BY <1>2, <1>4 DEF AcknowledgeAll, ScreenInv
<1>5. CASE ReviewOff
  BY <1>2, <1>5 DEF ReviewOff
<1>6. CASE ReviewArrivals
  <2>1. found' = Arrived' /\ at' = "count" /\ enabled'
    BY <1>6 DEF ReviewArrivals, Arrived
  <2>2. QED
    BY <1>1, <2>1 DEF CurrentInv
<1>7. CASE ReviewCount
  <2>1. /\ at = "count" /\ at' = "idle" /\ ~active' /\ enabled'
        /\ Arrived' = Arrived /\ UnreadCount' = UnreadCount
    BY <1>1, <1>7 DEF ReviewCount, ScreenInv, CurrentInv, Arrived, UnreadCount
  <2>2. CASE moved \/ tell
    BY <1>1, <2>1, <2>2 DEF CurrentInv
  <2>3. CASE ~moved /\ ~tell
    <3>1. found = Arrived
      BY <2>1, <2>3 DEF CurrentInv
    <3>2. CASE found = {}
      BY <1>2, <1>7, <2>1, <3>1, <3>2 DEF ReviewCount
    <3>3. CASE found # {}
      <4>1. Announce(found, UnreadCount)
        BY <1>7, <3>3 DEF ReviewCount
      <4>2. UnreadCount \in Nat /\ found \in SUBSET Articles
        BY FiniteArticles DEF UnreadCount, Types, StateOK
      <4>3. home' = [ids |-> found, total |-> UnreadCount]
        BY <4>1, <4>2, SameIsSame DEF Announce, ScreenInv, Types
      <4>4. home' = Current'
        BY <2>1, <3>1, <3>3, <4>3 DEF Current
      <4>5. QED
        BY <1>1, <2>1, <4>4 DEF CurrentInv
    <3>4. QED
      BY <3>2, <3>3
  <2>4. QED
    BY <2>2, <2>3
<1>8. QED
  BY <1>3, <1>4, <1>5, <1>6, <1>7 DEF Review

\* A tick starts a review, and what the reader does is in front, or reviewed.
LEMMA ReaderCurrent ==
  ASSUME Types, ScreenInv, CurrentInv, Timer \/ Reader
  PROVE  CurrentInv'
<1> USE DEF worker, mirror, counted, timer, screen, history
<1>1. CASE Tick \/ ActiveChanged
  <2>1. at' = "review" /\ UNCHANGED <<pass, tell>>
    BY <1>1 DEF Tick, ActiveChanged
  <2>2. QED
    BY <2>1 DEF CurrentInv
<1>2. CASE StopWatching
  <2>1. UNCHANGED <<pass, tell, at, moved, active, enabled, found, home, status, arrived, hidden>>
    BY <1>2 DEF StopWatching
  <2>2. QED
    BY <2>1 DEF CurrentInv, Current, Arrived, UnreadCount
<1>3. CASE Refresh
  <2>1. UNCHANGED <<at, active, home>> /\ at # "count" /\ pass' = "pull" /\ moved'
    BY <1>3 DEF Refresh, StartPass
  <2>2. QED
    BY <2>1 DEF CurrentInv, Current
<1>4. ASSUME active, at = "idle", UNCHANGED <<pass, tell, at, active, home>> PROVE CurrentInv'
  BY <1>4 DEF CurrentInv, Current
<1>5. CASE SetNotify
  BY <1>4, <1>5 DEF SetNotify
<1>6. ASSUME NEW a \in Articles, MarkRead(a) PROVE CurrentInv'
  BY <1>4, <1>6 DEF MarkRead
<1>7. CASE Dismissed
  <2>1. /\ at = "idle" /\ home.ids # {} /\ arrived' = arrived \ showing /\ home' = Nothing
        /\ UNCHANGED <<pass, tell, moved, at, active, enabled, status, hidden>>
    BY <1>7 DEF Dismissed
  <2>2. home.ids = showing
    BY DEF ScreenInv
  <2>3. ~active
    BY <2>1, <2>2 DEF ScreenInv
  <2>4. CASE moved \/ tell
    BY <2>1, <2>3, <2>4 DEF CurrentInv
  <2>5. CASE ~moved /\ ~tell
    <3>1. home = Current
      BY <2>1, <2>5 DEF CurrentInv
    <3>2. showing = Arrived
      BY <2>1, <2>2, <3>1 DEF Current, Nothing
    <3>3. Arrived' = {}
      BY <2>1, <3>2 DEF Arrived
    <3>4. QED
      BY <2>1, <3>3 DEF CurrentInv, Current
  <2>6. QED
    BY <2>4, <2>5
<1>8. QED
  BY <1>1, <1>2, <1>3, <1>5, <1>6, <1>7 DEF Timer, Reader

(* Between reviews, and once the last bump was seen, the notification says *)
(* exactly the arrivals and the unread total of the mirror, though the     *)
(* review reads the two apart; in front and with the switch off it is down.*)
THEOREM HomeIsUpToDate == Spec => []HomeIsCurrent
<1>1. Init => CurrentInv
  <2> SUFFICES ASSUME Init PROVE CurrentInv
    OBVIOUS
  <2>1. Current = Nothing
    BY DEF Init, Current
  <2>2. QED
    BY <2>1 DEF Init, CurrentInv
<1>2. ASSUME Types, ScreenInv, CurrentInv, [Next]_vars PROVE CurrentInv'
  <2>1. CASE UNCHANGED vars
    BY <1>2, <2>1 DEF vars, worker, mirror, counted, timer, screen, history, CurrentInv, Current,
       Arrived, UnreadCount
  <2>2. QED
    BY <1>2, <2>1, PullCurrent, ReviewCurrent, ReaderCurrent DEF Next
<1>3. CurrentInv => HomeIsCurrent
  BY DEF CurrentInv, HomeIsCurrent, Current
<1>4. QED
  BY <1>1, <1>2, <1>3, InitTypes, NextTypes, InitScreen, NextScreen, PTL DEF Spec

(* An article stops being new by the reader's sight, by a dismissal that   *)
(* covered it, or by leaving the mirror, and in no other way.              *)
THEOREM OnlySightAcknowledges == Spec => AcknowledgedBySight
<1>1. ASSUME Types, ScreenInv, [Next]_vars, NEW a \in arrived \ arrived'
      PROVE  active \/ a \in home.ids \/ status'[a] = "absent"
  <2> USE DEF worker, mirror, counted, timer, screen, history
  <2>1. CASE \E b \in Articles : Prune(b)
    BY <1>1, <2>1 DEF Prune, Types, StateOK
  <2>2. CASE AcknowledgeAll
    BY <1>1, <2>2 DEF AcknowledgeAll, ScreenInv
  <2>3. CASE Dismissed
    <3>1. a \in showing
      BY <1>1, <2>3 DEF Dismissed
    <3>2. home.ids = showing
      BY <1>1 DEF ScreenInv
    <3>3. QED
      BY <3>1, <3>2
  <2>4. CASE arrived \subseteq arrived'
    BY <1>1, <2>4
  <2>5. \/ arrived \subseteq arrived' \/ AcknowledgeAll \/ Dismissed
        \/ \E b \in Articles : Prune(b)
    BY <1>1 DEF Next, Pull, Review, Timer, Reader, vars, Insert, Update, Create, StartPass, SyncDue,
       Refresh, EndPull, FailPass, Bump, FinishPass, StopWatching, SetNotify, MarkRead, Tick,
       ActiveChanged, ReviewInFront, ReviewOff, ReviewArrivals, ReviewCount
  <2>6. QED
    BY <2>1, <2>2, <2>3, <2>4, <2>5
<1>2. Types /\ ScreenInv /\ [Next]_vars =>
        [\A a \in arrived \ arrived' : active \/ a \in home.ids \/ status'[a] = "absent"]_vars
  BY <1>1
<1>3. QED
  BY <1>2, InitTypes, NextTypes, InitScreen, NextScreen, PTL DEF Spec, AcknowledgedBySight

-----------------------------------------------------------------------------
(* New once. *)

\* An article that is not in the mirror, and would be news if it came, was lost
\* as often as it was flagged.
OnceInv ==
    \A a \in Articles :
        /\ flags[a] <= 1 + lost[a]
        /\ (status[a] = "absent" /\ a \notin known \ Undated) => flags[a] <= lost[a]
        /\ a \in told => status[a] = "unread"

\* Every step keeps that.
LEMMA NextOnce ==
  ASSUME Types, OnceInv, [Next]_vars
  PROVE  OnceInv'
<1> USE DEF worker, mirror, counted, timer, screen, history
<1>1. ASSUME NEW a \in Articles, NEW s \in {"unread", "read"}, Insert(a, s) PROVE OnceInv'
  <2>1. /\ status[a] = "absent" /\ UNCHANGED <<known, told>>
        /\ status' = [status EXCEPT ![a] = s]
    BY <1>1 DEF Insert
  <2>2. /\ lost' = lost
        /\ \/ flags' = flags
           \/ a \notin known \ Undated /\ flags' = [flags EXCEPT ![a] = @ + 1]
    BY <1>1 DEF Insert, ArrivalFor
  <2>3. /\ flags[a] \in Nat /\ lost[a] \in Nat
        /\ (a \notin known \ Undated => flags[a] <= lost[a])
    BY <2>1 DEF OnceInv, Types, StateOK
  <2>4. \A b \in Articles : b # a => flags'[b] = flags[b] /\ status'[b] = status[b]
    BY <2>1, <2>2 DEF Types, StateOK
  <2>5. flags'[a] <= 1 + lost'[a] /\ status'[a] # "absent"
    BY <2>1, <2>2, <2>3 DEF OnceInv, Types, StateOK
  <2>6. a \notin told'
    BY <2>1 DEF OnceInv
  <2>7. QED
    BY <2>1, <2>2, <2>4, <2>5, <2>6 DEF OnceInv
<1>2. ASSUME NEW a \in Articles, NEW s \in {"unread", "read"}, Update(a, s) PROVE OnceInv'
  BY <1>2 DEF Update, OnceInv, Types, StateOK
<1>3. ASSUME NEW a \in Articles, Prune(a) PROVE OnceInv'
  <2>1. /\ status[a] = "read" /\ UNCHANGED <<known, told, flags>>
        /\ \A b \in Articles : b # a => lost'[b] = lost[b] /\ status'[b] = status[b]
    BY <1>3 DEF Prune, Types, StateOK
  <2>2. /\ flags[a] \in Nat /\ lost[a] \in Nat
        /\ \/ a \in known \ Undated /\ lost'[a] = lost[a]
           \/ lost'[a] = lost[a] + 1
    BY <1>3 DEF Prune, Types, StateOK
  <2>3. /\ flags'[a] <= 1 + lost'[a]
        /\ a \notin known' \ Undated => flags'[a] <= lost'[a]
    BY <2>1, <2>2 DEF OnceInv
  <2>4. a \notin told
    BY <2>1 DEF OnceInv
  <2>5. QED
    BY <2>1, <2>3, <2>4 DEF OnceInv
<1>4. ASSUME NEW K \in SUBSET Articles, FinishPass(K) PROVE OnceInv'
  BY <1>4 DEF FinishPass, OnceInv
<1>5. ASSUME NEW a \in Articles, MarkRead(a) PROVE OnceInv'
  BY <1>5 DEF MarkRead, OnceInv, Types, StateOK
<1>6. CASE ReviewCount
  BY <1>6 DEF ReviewCount, Announce, Withdraw, OnceInv, Types, StateOK
<1>7. CASE UNCHANGED <<flags, lost, told, status, known>>
  BY <1>7 DEF OnceInv
<1>8. \/ UNCHANGED <<flags, lost, told, status, known>>
      \/ \E a \in Articles, s \in {"unread", "read"} : Insert(a, s) \/ Update(a, s)
      \/ \E a \in Articles : Prune(a) \/ MarkRead(a)
      \/ \E K \in SUBSET Articles : FinishPass(K)
      \/ ReviewCount
  BY DEF Next, Pull, Review, Timer, Reader, vars, Create, StartPass, SyncDue, Refresh, EndPull, FailPass,
     Bump, SetNotify, Tick, StopWatching, ActiveChanged, Dismissed, ReviewInFront, AcknowledgeAll,
     ReviewOff, ReviewArrivals
<1>9. QED
  BY <1>1, <1>2, <1>3, <1>4, <1>5, <1>6, <1>7, <1>8

\* Nothing was flagged or told at the start.
LEMMA InitOnce == Init => OnceInv
  BY DEF Init, OnceInv

(* arrival_for and upsert_entry flag an article at most once, whatever     *)
(* passes fail or are repeated, and once more for every time it was pruned *)
(* while the cursor's overlap still held it or without a created_at: its   *)
(* return from any other pruning is not news.                              *)
THEOREM FlaggedOnce == Spec => []NewOnce
<1>1. OnceInv => NewOnce
  BY DEF OnceInv, NewOnce
<1>2. QED
  BY <1>1, InitTypes, NextTypes, InitOnce, NextOnce, PTL DEF Spec

-----------------------------------------------------------------------------
(* Banners are news. *)

\* What was announced, is unread and still flagged.
Stale == told \intersect Arrived

\* Such an article is covered by the notification that is up, unless the
\* switch is off; in front there is none once the review is over.
NewsInv ==
    /\ ~repeat
    /\ (~active /\ enabled /\ at # "count") => Stale \subseteq showing
    /\ at = "count" => /\ enabled
                       /\ Stale \subseteq found
                       /\ told \intersect found \subseteq showing
    /\ active /\ at = "idle" => told \intersect arrived = {}

\* The pull adds nothing to what is stale.
LEMMA PullNews ==
  ASSUME Types, OnceInv, NewsInv, Pull
  PROVE  NewsInv'
<1> USE DEF worker, mirror, counted, timer, screen, history
<1>1. /\ UNCHANGED <<repeat, active, enabled, at, found, showing>>
      /\ told' \subseteq told
  BY DEF Pull, Insert, Update, Create, Prune, StartPass, SyncDue, EndPull, FailPass, Bump, FinishPass
<1>2. told' \intersect arrived' \subseteq told \intersect arrived
  <2>1. ASSUME NEW a \in Articles, NEW s \in {"unread", "read"}, Insert(a, s)
        PROVE  told' \intersect arrived' \subseteq told \intersect arrived
    <3>1. a \notin told
      BY <2>1 DEF Insert, OnceInv
    <3>2. arrived' \subseteq arrived \union {a}
      BY <2>1 DEF Insert
    <3>3. QED
      BY <1>1, <3>1, <3>2
  <2>2. CASE arrived' \subseteq arrived
    BY <1>1, <2>2
  <2>3. QED
    BY <2>1, <2>2
    DEF Pull, Update, Create, Prune, StartPass, SyncDue, EndPull, FailPass, Bump, FinishPass
<1>3. Stale' \subseteq Stale
  <2>1. ASSUME NEW a \in Stale' PROVE status[a] = "unread"
    <3>1. a \in told' /\ a \in arrived' /\ status'[a] = "unread" /\ a \in Articles
      BY <2>1, PullTypes DEF Stale, Arrived, Types, StateOK
    <3>2. ASSUME NEW b \in Articles, NEW s \in {"unread", "read"}, Insert(b, s)
          PROVE  status[a] = "unread"
      <4>1. a # b
        BY <1>2, <3>1, <3>2 DEF Insert, Types, StateOK
      <4>2. QED
        BY <3>1, <3>2, <4>1 DEF Insert, Types, StateOK
    <3>3. ASSUME NEW b \in Articles, NEW s \in {"unread", "read"}, Update(b, s)
          PROVE  status[a] = "unread"
      BY <3>1, <3>3 DEF Update, Types, StateOK
    <3>4. ASSUME NEW b \in Articles, Prune(b) PROVE status[a] = "unread"
      BY <3>1, <3>4 DEF Prune, Types, StateOK
    <3>5. CASE status' = status
      BY <3>1, <3>5
    <3>6. QED
      BY <3>2, <3>3, <3>4, <3>5 DEF Pull, Create, StartPass, SyncDue, EndPull, FailPass, Bump, FinishPass
  <2>2. hidden' = hidden
    BY DEF Pull, Insert, Update, Create, Prune, StartPass, SyncDue, EndPull, FailPass, Bump, FinishPass
  <2>3. QED
    BY <1>1, <1>2, <2>1, <2>2 DEF Stale, Arrived
<1>4. QED
  BY <1>1, <1>2, <1>3 DEF NewsInv

\* The review announces, withdraws or acknowledges.
LEMMA ReviewNews ==
  ASSUME Types, ScreenInv, NewsInv, Review
  PROVE  NewsInv'
<1> USE DEF worker, mirror, counted, timer, screen, history
<1>1. CASE ReviewInFront
  <2>1. active' /\ UNCHANGED <<repeat, told, arrived>> /\ (at' = "idle" => arrived = {})
        /\ at' # "count"
    BY <1>1 DEF ReviewInFront
  <2>2. QED
    BY <2>1 DEF NewsInv
<1>2. CASE AcknowledgeAll
  <2>1. active' /\ UNCHANGED repeat /\ arrived' = {} /\ at' = "idle"
    BY <1>2 DEF AcknowledgeAll, ScreenInv
  <2>2. QED
    BY <2>1 DEF NewsInv
<1>3. CASE ReviewOff
  <2>1. ~active' /\ ~enabled' /\ UNCHANGED repeat /\ at' = "idle"
    BY <1>3 DEF ReviewOff
  <2>2. QED
    BY <2>1 DEF NewsInv
<1>4. CASE ReviewArrivals
  <2>1. /\ ~active' /\ enabled' /\ UNCHANGED <<repeat, told, showing>> /\ at' = "count"
        /\ found' = Arrived /\ Arrived' = Arrived
        /\ Stale \subseteq showing
    BY <1>4 DEF ReviewArrivals, Arrived, NewsInv
  <2>2. QED
    BY <2>1 DEF NewsInv, Stale
<1>5. CASE ReviewCount
  <2>1. at = "count" /\ at' = "idle" /\ ~active' /\ Arrived' = Arrived
    BY <1>5 DEF ReviewCount, ScreenInv, Arrived
  <2>2. CASE found = {}
    <3>1. UNCHANGED <<repeat, told>> /\ Stale \subseteq {}
      BY <1>5, <2>1, <2>2 DEF ReviewCount, NewsInv
    <3>2. QED
      BY <2>1, <3>1 DEF NewsInv, Stale
  <2>3. CASE found # {}
    <3>1. /\ showing' = found /\ told' \subseteq told \union found
          /\ repeat' = (repeat \/ (/\ Moved(found, UnreadCount) /\ IsNews(found)
                                   /\ found \subseteq told))
      BY <1>5, <2>3 DEF ReviewCount, Announce
    <3>2. ~(IsNews(found) /\ found \subseteq told)
      BY <2>1 DEF NewsInv, IsNews
    <3>3. ~repeat'
      BY <3>1, <3>2 DEF NewsInv
    <3>4. Stale' \subseteq found
      BY <2>1, <3>1 DEF NewsInv, Stale
    <3>5. QED
      BY <2>1, <3>1, <3>3, <3>4 DEF NewsInv
  <2>4. QED
    BY <2>2, <2>3
<1>6. QED
  BY <1>1, <1>2, <1>3, <1>4, <1>5 DEF Review

\* The reader comes, leaves, reads, dismisses and flips the switch.
LEMMA ReaderNews ==
  ASSUME Types, ScreenInv, NewsInv, Timer \/ Reader
  PROVE  NewsInv'
<1> USE DEF worker, mirror, counted, timer, screen, history
<1>1. CASE Timer \/ Refresh
  BY <1>1 DEF Timer, Tick, StopWatching, Refresh, NewsInv, Stale, Arrived
<1>2. CASE ActiveChanged
  <2>1. /\ at = "idle" /\ at' = "review" /\ active' = ~active
        /\ UNCHANGED <<repeat, told, arrived, hidden, status, showing, enabled>>
    BY <1>2 DEF ActiveChanged
  <2>2. Stale' = Stale /\ Stale \subseteq told \intersect arrived
    BY <2>1 DEF Stale, Arrived
  <2>3. QED
    BY <2>1, <2>2 DEF NewsInv
<1>3. CASE SetNotify
  <2>1. active /\ at = "idle" /\ UNCHANGED <<repeat, told, arrived, active, at>>
    BY <1>3 DEF SetNotify
  <2>2. QED
    BY <2>1 DEF NewsInv
<1>4. ASSUME NEW a \in Articles, MarkRead(a) PROVE NewsInv'
  <2>1. active /\ at = "idle" /\ UNCHANGED <<repeat, arrived, active, at>> /\ told' \subseteq told
    BY <1>4 DEF MarkRead
  <2>2. QED
    BY <2>1 DEF NewsInv
<1>5. CASE Dismissed
  <2>1. /\ at = "idle" /\ arrived' = arrived \ showing
        /\ UNCHANGED <<repeat, told, hidden, status, active, enabled, at>>
    BY <1>5 DEF Dismissed
  <2>2. Stale' = Stale \ showing
    BY <2>1 DEF Stale, Arrived
  <2>3. QED
    BY <2>1, <2>2 DEF NewsInv
<1>6. QED
  BY <1>1, <1>2, <1>3, <1>4, <1>5 DEF Reader

(* No banner pops up over articles that were all announced before and not  *)
(* read since, whatever is withdrawn, dismissed, pulled or switched off in *)
(* between.                                                                *)
THEOREM BannersAreNews == Spec => []BannerIsNews
<1>1. Init => NewsInv
  BY DEF Init, NewsInv, Stale
<1>2. ASSUME Types, ScreenInv, OnceInv, NewsInv, [Next]_vars PROVE NewsInv'
  <2>1. CASE UNCHANGED vars
    BY <1>2, <2>1 DEF vars, worker, mirror, counted, timer, screen, history, NewsInv, Stale, Arrived
  <2>2. QED
    BY <1>2, <2>1, PullNews, ReviewNews, ReaderNews DEF Next
<1>3. NewsInv => BannerIsNews
  BY DEF NewsInv, BannerIsNews
<1>4. QED
  BY <1>1, <1>2, <1>3, InitTypes, NextTypes, InitScreen, NextScreen, InitOnce, NextOnce, PTL
  DEF Spec
=============================================================================
