----------------------------- MODULE ListsProofs -----------------------------
(***************************************************************************)
(* The lists, proved for any number of lists and articles, any page size   *)
(* and any number of events.                                               *)
(*                                                                         *)
(* The argument: whoever moves the mirror sets `unsaid' or `quiet', and    *)
(* the bump that clears them also leaves every list behind the counter.  A *)
(* list catches up only by its own poll (its cursor is moved otherwise     *)
(* only if the reader taps it), and a poll ends in a reload, which shows   *)
(* the mirror of that moment: a window that is not full holds everything   *)
(* that matches.                                                           *)
(***************************************************************************)
EXTENDS Lists, FiniteSetTheorems, WellFoundedInduction, TLAPS

\* The list a handler belongs to.
WhoInv ==
    /\ at = "reload" => who \in Lists
    /\ at \in {"write", "fresh", "cursor"} => who \in Tapped
    /\ at = "bump" => who \in Tapped \union {None}

\* The two halves of the type invariant: Boolean variables, and the rest.
FlagsOK ==
    /\ counted \in BOOLEAN /\ unsaid \in BOOLEAN /\ quiet \in BOOLEAN
    /\ hasMore \in [Lists -> BOOLEAN]

StateOK ==
    /\ mirror \in [Articles -> States]
    /\ generation \in Nat /\ epoch \in Nat
    /\ work \in {"idle", "command", "drop"}
    /\ scope \in [Lists -> Scopes]
    /\ limit \in [Lists -> Nat \ 0..(PageSize - 1)]
    /\ rows \in [Lists -> [Articles -> States]]
    /\ seen \in [Lists -> 0..generation] /\ seenEpoch \in [Lists -> 0..epoch]
    /\ at \in {"idle", "reload", "write", "fresh", "bump", "cursor"}
    /\ who \in Lists \union {None}
    /\ ids \in SUBSET Articles
    /\ events \in 0..MaxEvents

IInv == FlagsOK /\ StateOK /\ WhoInv

-----------------------------------------------------------------------------
(* Windows. *)

\* A set of articles has a newest one.
LEMMA NewestOf ==
  ASSUME NEW T \in SUBSET Articles, T # {}
  PROVE  \E a \in T : \A b \in T : b <= a
<1> DEFINE ages == {n \in Nat : \E a \in T : a = Newest - n}
<1>1. \A a \in T : a \in Nat /\ Newest - a \in Nat /\ a = Newest - (Newest - a)
  BY ListsAssumption DEF Articles
<1>2. ages \subseteq Nat /\ ages # {} /\ \A a \in T : Newest - a \in ages
  BY <1>1
<1>3. \E x \in ages : \A y \in ages : ~(<<y, x>> \in OpToRel(<, Nat))
  <2> HIDE DEF ages
  <2>1. QED
    BY <1>2, NatLessThanWellFounded, WFMin
<1>4. PICK x \in ages : \A y \in ages : ~(y < x)
  BY <1>2, <1>3 DEF OpToRel
<1>5. PICK a \in T : a = Newest - x
  BY <1>4
<1>6. \A b \in T : ~(Newest - b < Newest - a)
  BY <1>1, <1>2, <1>4, <1>5, ListsAssumption
<1>7. QED
  BY <1>1, <1>6, ListsAssumption

\* Articles are finitely many.
LEMMA FiniteArticles ==
  ASSUME NEW S \in SUBSET Articles
  PROVE  IsFiniteSet(S) /\ Cardinality(S) \in Nat
<1>1. IsFiniteSet(Articles)
  BY ListsAssumption, FS_Interval DEF Articles
<1>2. IsFiniteSet(S)
  BY <1>1, FS_Subset
<1>3. QED
  BY <1>2, FS_CardinalityType

\* A window that is not full leaves nothing out.
LEMMA NotFullIsAll ==
  ASSUME NEW S \in SUBSET Articles, NEW n \in Nat, ~FullWindow(Window(S, n), n)
  PROVE  S \subseteq Window(S, n)
<1> SUFFICES ASSUME S \ Window(S, n) # {} PROVE FALSE
  OBVIOUS
<1>1. PICK a \in S \ Window(S, n) : \A b \in S \ Window(S, n) : b <= a
  BY NewestOf
<1> DEFINE newer == {b \in S : b > a}
<1>2. ~(Cardinality(newer) < n)
  BY <1>1 DEF Window
<1>3. newer \subseteq Window(S, n)
  <2>1. \A b \in S : b \in Int
    BY DEF Articles
  <2>2. QED
    BY <1>1, <2>1
<1>4. Window(S, n) \in SUBSET Articles
  BY DEF Window
<1> HIDE DEF newer
<1>5. Cardinality(newer) <= Cardinality(Window(S, n))
  BY <1>3, <1>4, FiniteArticles, FS_Subset
<1>6. newer \in SUBSET Articles
  BY <1>3, <1>4
<1>7. Cardinality(newer) \in Nat /\ Cardinality(Window(S, n)) \in Nat
  BY <1>4, <1>6, FiniteArticles
<1>8. QED
  BY <1>2, <1>5, <1>7 DEF FullWindow

-----------------------------------------------------------------------------
(* Reloads. *)

\* What a reload leaves in its list: the mirror's state of every row, and
\* nothing that matches unless "load more" is offered.
LEMMA ReloadShows ==
  ASSUME StateOK, NEW l \in Lists, NEW keep \in BOOLEAN, NEW s \in Scopes, NEW n \in Nat,
         NEW e, hasMore \in [Lists -> BOOLEAN],
         ReloadKeeping(l, keep, s, n, e)
  PROVE  /\ \A a \in Articles : rows'[l][a] # "absent" => rows'[l][a] = mirror[a]
         /\ Matching(s) \subseteq {a \in Articles : rows'[l][a] # "absent"} \/ hasMore'[l]
         /\ seenEpoch'[l] = e /\ scope'[l] = s /\ limit'[l] = n
         /\ \A k \in Lists : k # l => /\ rows'[k] = rows[k] /\ hasMore'[k] = hasMore[k]
                                      /\ seenEpoch'[k] = seenEpoch[k] /\ scope'[k] = scope[k]
                                      /\ limit'[k] = limit[k]
<1> DEFINE listed == Window(Matching(s), n)
           fresh == listed \union Kept(l, keep, e)
<1>1. /\ rows' = [rows EXCEPT ![l] =
                     [a \in Articles |-> IF a \in fresh THEN mirror[a] ELSE "absent"]]
      /\ hasMore' = [hasMore EXCEPT ![l] = FullWindow(listed, n)]
      /\ seenEpoch' = [seenEpoch EXCEPT ![l] = e]
      /\ scope' = [scope EXCEPT ![l] = s] /\ limit' = [limit EXCEPT ![l] = n]
  BY DEF ReloadKeeping
<1>2. Matching(s) \in SUBSET Articles /\ \A a \in Matching(s) : mirror[a] # "absent"
  BY DEF Matching, Held
<1>3. Matching(s) \subseteq listed \/ FullWindow(listed, n)
  BY <1>2, NotFullIsAll
<1>4. \A a \in Articles : rows'[l][a] = IF a \in fresh THEN mirror[a] ELSE "absent"
  <2> HIDE DEF fresh
  <2>1. QED
    BY <1>1 DEF StateOK
<1>5. hasMore'[l] = FullWindow(listed, n)
  <2> HIDE DEF listed
  <2>1. QED
    BY <1>1
<1>6. Matching(s) \subseteq {a \in Articles : rows'[l][a] # "absent"} \/ hasMore'[l]
  <2> HIDE DEF listed
  <2>1. QED
    BY <1>2, <1>3, <1>4, <1>5
<1>7. seenEpoch'[l] = e /\ scope'[l] = s /\ limit'[l] = n
  BY <1>1 DEF StateOK
<1>8. \A a \in Articles : rows'[l][a] # "absent" => rows'[l][a] = mirror[a]
  <2> HIDE DEF fresh
  <2>1. QED
    BY <1>4
<1>9. \A k \in Lists : k # l => /\ rows'[k] = rows[k] /\ hasMore'[k] = hasMore[k]
                                /\ seenEpoch'[k] = seenEpoch[k] /\ scope'[k] = scope[k]
                                /\ limit'[k] = limit[k]
  <2> HIDE DEF fresh, listed
  <2>1. QED
    BY <1>1 DEF StateOK
<1>10. QED
  BY <1>6, <1>7, <1>8, <1>9

\* A reload that keeps what is on screen, with no refresh since, loses only
\* articles the mirror lost.
LEMMA ReloadKeeps ==
  ASSUME StateOK, NEW l \in Lists, NEW s, NEW n, NEW e, e = seenEpoch[l],
         ReloadKeeping(l, TRUE, s, n, e), NEW a \in Articles,
         rows[l][a] # "absent", mirror[a] # "absent"
  PROVE  rows'[l][a] # "absent"
<1> DEFINE fresh == Window(Matching(s), n) \union Kept(l, TRUE, e)
<1>1. rows' = [rows EXCEPT ![l] =
                 [b \in Articles |-> IF b \in fresh THEN mirror[b] ELSE "absent"]]
  BY DEF ReloadKeeping
<1>2. a \in fresh
  BY DEF Kept, Shown, Held
<1> HIDE DEF fresh
<1>3. QED
  BY <1>1, <1>2 DEF StateOK

\* A reload keeps the types.
LEMMA ReloadTypes ==
  ASSUME FlagsOK, StateOK, NEW l \in Lists, NEW keep \in BOOLEAN, NEW s \in Scopes,
         NEW n \in Nat \ 0..(PageSize - 1), NEW e \in 0..epoch',
         epoch' \in {epoch, epoch + 1},
         ReloadKeeping(l, keep, s, n, e)
  PROVE  /\ rows' \in [Lists -> [Articles -> States]]
         /\ hasMore' \in [Lists -> BOOLEAN]
         /\ scope' \in [Lists -> Scopes] /\ limit' \in [Lists -> Nat \ 0..(PageSize - 1)]
         /\ seenEpoch' \in [Lists -> 0..epoch']
<1> DEFINE listed == Window(Matching(s), n)
           fresh == listed \union Kept(l, keep, e)
           shown == [a \in Articles |-> IF a \in fresh THEN mirror[a] ELSE "absent"]
<1>1. /\ rows' = [rows EXCEPT ![l] = shown]
      /\ hasMore' = [hasMore EXCEPT ![l] = FullWindow(listed, n)]
      /\ seenEpoch' = [seenEpoch EXCEPT ![l] = e]
      /\ scope' = [scope EXCEPT ![l] = s] /\ limit' = [limit EXCEPT ![l] = n]
  BY DEF ReloadKeeping
<1>2. shown \in [Articles -> States]
  <2> HIDE DEF fresh
  <2>1. QED
    BY DEF StateOK, States
<1>3. FullWindow(listed, n) \in BOOLEAN
  BY DEF FullWindow
<1> HIDE DEF shown, fresh, listed
<1>4. hasMore' \in [Lists -> BOOLEAN]
  BY <1>1, <1>3 DEF FlagsOK
<1>5. QED
  BY <1>1, <1>2, <1>4 DEF StateOK

-----------------------------------------------------------------------------
(* Types. *)

\* The parts make up the type invariant.
LEMMA TypeParts == FlagsOK /\ StateOK <=> TypeOK
  BY DEF FlagsOK, StateOK, TypeOK

\* The lists as they are constructed.
LEMMA InitTypes == Init => IInv
<1> SUFFICES ASSUME Init PROVE IInv
  OBVIOUS
<1>1. /\ counted = FALSE /\ unsaid = FALSE /\ quiet = FALSE
      /\ hasMore = [l \in Lists |->
                     FullWindow(Window(Matching(scope[l]), PageSize), PageSize)]
      /\ \A l \in Lists :
            FullWindow(Window(Matching(scope[l]), PageSize), PageSize) \in BOOLEAN
  BY DEF Init, FullWindow
<1>2. FlagsOK
  BY <1>1 DEF FlagsOK
<1>3. mirror \in [Articles -> States] /\ scope \in [Lists -> Scopes]
  BY DEF Init, States, Scopes
<1>4. rows \in [Lists -> [Articles -> States]]
  BY <1>3 DEF Init, States
<1>5. limit \in [Lists -> Nat \ 0..(PageSize - 1)]
  BY ListsAssumption DEF Init
<1>6. StateOK /\ WhoInv
  BY <1>3, <1>4, <1>5, ListsAssumption DEF Init, StateOK, WhoInv
<1>7. QED
  BY <1>2, <1>6 DEF IInv

\* The worker keeps the types.
LEMMA WorkerTypes ==
  ASSUME IInv, WorkerNext
  PROVE  IInv'
<1> USE ListsAssumption DEF shared, worker, models, qt, history, Event
<1>1. CASE StartCommand
  BY <1>1 DEF StartCommand, IInv, FlagsOK, StateOK, WhoInv
<1>2. ASSUME NEW a \in Articles, NEW s \in States, CommitCounted(a, s) PROVE IInv'
  BY <1>2 DEF CommitCounted, IInv, FlagsOK, StateOK, WhoInv
<1>3. ASSUME NEW a \in Articles, CommitUncounted(a) PROVE IInv'
  BY <1>3 DEF CommitUncounted, IInv, FlagsOK, StateOK, WhoInv, States
<1>4. ASSUME NEW tell \in BOOLEAN, FinishCommand(tell) PROVE IInv'
  <2>1. FlagsOK'
    BY <1>4 DEF FinishCommand, IInv, FlagsOK
  <2>2. StateOK' /\ WhoInv'
    BY <1>4 DEF FinishCommand, IInv, StateOK, WhoInv
  <2>3. QED
    BY <2>1, <2>2 DEF IInv
<1>5. CASE DropGuard
  <2>1. FlagsOK'
    BY <1>5 DEF DropGuard, IInv, FlagsOK
  <2>2. generation' \in {generation, generation + 1}
    BY <1>5 DEF DropGuard
  <2>3. generation' \in Nat /\ seen' \in [Lists -> 0..generation']
    BY <1>5, <2>2 DEF DropGuard, IInv, StateOK
  <2>4. StateOK' /\ WhoInv'
    BY <1>5, <2>3 DEF DropGuard, IInv, StateOK, WhoInv
  <2>5. QED
    BY <2>1, <2>4 DEF IInv
<1>6. QED
  BY <1>1, <1>2, <1>3, <1>4, <1>5 DEF WorkerNext

\* So do the handlers of the Qt thread.
LEMMA HandlerTypes ==
  ASSUME IInv, Handler
  PROVE  IInv'
<1> USE ListsAssumption DEF shared, worker, models, qt, history
<1>1. CASE PollReload
  <2>1. who \in Lists /\ scope[who] \in Scopes /\ limit[who] \in Nat \ 0..(PageSize - 1)
    BY <1>1 DEF PollReload, IInv, StateOK, WhoInv
  <2>2. ReloadKeeping(who, TRUE, scope[who], limit[who], epoch)
    BY <1>1 DEF PollReload
  <2>3. epoch' = epoch /\ epoch \in 0..epoch'
    BY <1>1 DEF PollReload, IInv, StateOK
  <2>4. /\ rows' \in [Lists -> [Articles -> States]] /\ hasMore' \in [Lists -> BOOLEAN]
        /\ scope' \in [Lists -> Scopes] /\ limit' \in [Lists -> Nat \ 0..(PageSize - 1)]
        /\ seenEpoch' \in [Lists -> 0..epoch']
    BY <2>1, <2>2, <2>3, ReloadTypes DEF IInv
  <2>5. QED
    BY <1>1, <2>4 DEF PollReload, IInv, FlagsOK, StateOK, WhoInv
<1>2. CASE MarkAllWrite
  BY <1>2 DEF MarkAllWrite, IInv, FlagsOK, StateOK, WhoInv, States
<1>3. CASE MarkAllFresh
  <2>1. who \in Lists /\ scope[who] \in Scopes
    BY <1>3 DEF MarkAllFresh, IInv, StateOK, WhoInv
  <2>2. ReloadKeeping(who, FALSE, scope[who], PageSize, epoch)
    BY <1>3 DEF MarkAllFresh, ReloadFresh
  <2>3. epoch' = epoch /\ epoch \in 0..epoch' /\ PageSize \in Nat \ 0..(PageSize - 1)
    BY <1>3 DEF MarkAllFresh, IInv, StateOK
  <2>4. /\ rows' \in [Lists -> [Articles -> States]] /\ hasMore' \in [Lists -> BOOLEAN]
        /\ scope' \in [Lists -> Scopes] /\ limit' \in [Lists -> Nat \ 0..(PageSize - 1)]
        /\ seenEpoch' \in [Lists -> 0..epoch']
    BY <2>1, <2>2, <2>3, ReloadTypes DEF IInv
  <2>5. QED
    BY <1>3, <2>4 DEF MarkAllFresh, IInv, FlagsOK, StateOK, WhoInv
<1>4. CASE Bump
  <2>1. generation' \in Nat /\ seen' \in [Lists -> 0..generation']
    BY <1>4 DEF Bump, IInv, StateOK
  <2>2. QED
    BY <1>4, <2>1 DEF Bump, IInv, FlagsOK, StateOK, WhoInv
<1>5. CASE MoveCursor
  BY <1>5 DEF MoveCursor, IInv, FlagsOK, StateOK, WhoInv
<1>6. QED
  BY <1>1, <1>2, <1>3, <1>4, <1>5 DEF Handler

\* And the reader's gestures.
LEMMA TapTypes ==
  ASSUME IInv, Tap
  PROVE  IInv'
<1> USE ListsAssumption DEF shared, worker, models, qt, history, Gesture, Event
<1>1. ASSUME NEW l \in Tapped, NEW A \in SUBSET Articles, NEW s \in {"unread", "read"},
             SetRead(l, A, s)
      PROVE  IInv'
  BY <1>1 DEF SetRead, IInv, FlagsOK, StateOK, WhoInv, States
<1>2. ASSUME NEW l \in Tapped, MarkAllRead(l) PROVE IInv'
  BY <1>2 DEF MarkAllRead, Matching, Held, IInv, FlagsOK, StateOK, WhoInv
<1>3. ASSUME NEW l \in Tapped, RequestSync(l) PROVE IInv'
  <2>1. l \in Lists /\ scope[l] \in Scopes
    BY DEF IInv, StateOK
  <2>2. ReloadKeeping(l, FALSE, scope[l], PageSize, epoch + 1)
    BY <1>3 DEF RequestSync, ReloadFresh
  <2>3. /\ epoch' = epoch + 1 /\ epoch' \in Nat /\ epoch + 1 \in 0..epoch'
        /\ PageSize \in Nat \ 0..(PageSize - 1)
    BY <1>3 DEF RequestSync, IInv, StateOK
  <2>4. /\ rows' \in [Lists -> [Articles -> States]] /\ hasMore' \in [Lists -> BOOLEAN]
        /\ scope' \in [Lists -> Scopes] /\ limit' \in [Lists -> Nat \ 0..(PageSize - 1)]
        /\ seenEpoch' \in [Lists -> 0..epoch']
    BY <2>1, <2>2, <2>3, ReloadTypes DEF IInv
  <2>5. QED
    BY <1>3, <2>3, <2>4 DEF RequestSync, IInv, FlagsOK, StateOK, WhoInv
<1>4. ASSUME NEW a \in Articles, NEW s \in {"unread", "read"}, ArticleMark(a, s) PROVE IInv'
  BY <1>4 DEF ArticleMark, IInv, FlagsOK, StateOK, WhoInv, States
<1>5. CASE FeedMarkRead
  BY <1>5 DEF FeedMarkRead, IInv, FlagsOK, StateOK, WhoInv, States
<1>6. QED
  BY <1>1, <1>2, <1>3, <1>4, <1>5 DEF Tap

\* And looking at a list.
LEMMA LookTypes ==
  ASSUME IInv, Look
  PROVE  IInv'
<1> USE ListsAssumption DEF shared, worker, models, qt, history
<1>1. ASSUME NEW l \in Lists, PollSync(l) PROVE IInv'
  BY <1>1 DEF PollSync, IInv, FlagsOK, StateOK, WhoInv
<1>2. ASSUME NEW l \in Lists, LoadMore(l) PROVE IInv'
  <2>1. scope[l] \in Scopes /\ limit[l] + PageSize \in Nat \ 0..(PageSize - 1)
    BY DEF IInv, StateOK
  <2>2. ReloadKeeping(l, TRUE, scope[l], limit[l] + PageSize, epoch)
    BY <1>2 DEF LoadMore
  <2>3. epoch' = epoch /\ epoch \in 0..epoch'
    BY <1>2 DEF LoadMore, IInv, StateOK
  <2>4. /\ rows' \in [Lists -> [Articles -> States]] /\ hasMore' \in [Lists -> BOOLEAN]
        /\ scope' \in [Lists -> Scopes] /\ limit' \in [Lists -> Nat \ 0..(PageSize - 1)]
        /\ seenEpoch' \in [Lists -> 0..epoch']
    BY <2>1, <2>2, <2>3, ReloadTypes DEF IInv
  <2>5. QED
    BY <1>2, <2>4 DEF LoadMore, IInv, FlagsOK, StateOK, WhoInv
<1>3. ASSUME NEW l \in Browse, NEW s \in Scopes, SetScope(l, s) PROVE IInv'
  <2>1. l \in Lists /\ PageSize \in Nat \ 0..(PageSize - 1)
    OBVIOUS
  <2>2. ReloadKeeping(l, FALSE, s, PageSize, epoch)
    BY <1>3 DEF SetScope, ReloadFresh
  <2>3. epoch' = epoch /\ epoch \in 0..epoch'
    BY <1>3 DEF SetScope, IInv, StateOK
  <2>4. /\ rows' \in [Lists -> [Articles -> States]] /\ hasMore' \in [Lists -> BOOLEAN]
        /\ scope' \in [Lists -> Scopes] /\ limit' \in [Lists -> Nat \ 0..(PageSize - 1)]
        /\ seenEpoch' \in [Lists -> 0..epoch']
    BY <2>1, <2>2, <2>3, ReloadTypes DEF IInv
  <2>5. QED
    BY <1>3, <2>4 DEF SetScope, IInv, FlagsOK, StateOK, WhoInv
<1>4. QED
  BY <1>1, <1>2, <1>3 DEF Look

\* Every step keeps the types.
LEMMA NextTypes == IInv /\ [Next]_vars => IInv'
<1> SUFFICES ASSUME IInv, [Next]_vars PROVE IInv'
  OBVIOUS
<1>1. CASE UNCHANGED vars
  BY <1>1 DEF vars, shared, worker, models, qt, history, IInv, FlagsOK, StateOK, WhoInv
<1>2. QED
  BY <1>1, WorkerTypes, HandlerTypes, TapTypes, LookTypes DEF Next

(* The types hold of every behaviour: no window shrinks below a page, no   *)
(* list has seen a generation that was not reached.                        *)
THEOREM TypeCorrect == Spec => []TypeOK
<1>1. IInv => TypeOK
  BY TypeParts DEF IInv
<1>2. QED
  BY <1>1, InitTypes, NextTypes, PTL DEF Spec

-----------------------------------------------------------------------------
(* Nothing is left untold. *)

\* Every step leaves each change with somebody who owes the bump.
LEMMA NextUntold ==
  ASSUME FlagsOK, NothingUntold, [Next]_vars
  PROVE  NothingUntold'
<1> USE DEF shared, worker, models, qt, history, NothingUntold, FlagsOK
<1>1. CASE WorkerNext
  BY <1>1 DEF WorkerNext, StartCommand, CommitCounted, CommitUncounted, FinishCommand, DropGuard
<1>2. CASE Handler
  BY <1>2 DEF Handler, PollReload, MarkAllWrite, MarkAllFresh, Bump, MoveCursor
<1>3. CASE Tap
  BY <1>3 DEF Tap, SetRead, MarkAllRead, RequestSync, ArticleMark, FeedMarkRead, Gesture
<1>4. CASE Look
  BY <1>4 DEF Look, PollSync, LoadMore, SetScope
<1>5. CASE UNCHANGED vars
  BY <1>5 DEF vars
<1>6. QED
  BY <1>1, <1>2, <1>3, <1>4, <1>5 DEF Next

(* Of the two threads that write the mirror, no interleaving leaves a      *)
(* counted change or a tap without the bump that tells it.                 *)
THEOREM NoneUntold == Spec => []NothingUntold
<1>1. Init => NothingUntold
  BY DEF Init, NothingUntold
<1>2. IInv => FlagsOK
  BY DEF IInv
<1>3. QED
  BY <1>1, <1>2, InitTypes, NextTypes, NextUntold, PTL DEF Spec

-----------------------------------------------------------------------------
(* A list that is caught up is current. *)

\* The claim for one list.
CaughtUp(l) ==
    (seen[l] = generation /\ ~(at = "reload" /\ who = l) /\ ~unsaid /\ ~quiet) => Current(l)

\* A reload makes its list current.
LEMMA ReloadMakesCurrent ==
  ASSUME IInv, NEW l \in Lists, NEW keep \in BOOLEAN, NEW s \in Scopes, NEW n \in Nat,
         ReloadKeeping(l, keep, s, n, epoch), UNCHANGED <<mirror, epoch>>
  PROVE  Current(l)'
<1>1. /\ \A a \in Articles : rows'[l][a] # "absent" => rows'[l][a] = mirror[a]
      /\ Matching(s) \subseteq {a \in Articles : rows'[l][a] # "absent"} \/ hasMore'[l]
      /\ seenEpoch'[l] = epoch /\ scope'[l] = s
  BY ReloadShows DEF IInv, FlagsOK
<1>2. Matching(s)' = Matching(s)
  BY DEF Matching, Held
<1>3. Matching(scope[l])' = Matching(s)
  BY <1>1, <1>2 DEF Matching, Held
<1>4. QED
  BY <1>1, <1>3 DEF Current, Shown

\* A reload of another list leaves it current.
LEMMA OtherReload ==
  ASSUME IInv, NEW l \in Lists, NEW k \in Lists, k # l, NEW keep \in BOOLEAN,
         NEW s \in Scopes, NEW n \in Nat, NEW e,
         ReloadKeeping(k, keep, s, n, e), UNCHANGED <<mirror, epoch>>, Current(l)
  PROVE  Current(l)'
<1>1. /\ rows'[l] = rows[l] /\ hasMore'[l] = hasMore[l]
      /\ seenEpoch'[l] = seenEpoch[l] /\ scope'[l] = scope[l]
  BY ReloadShows DEF IInv, FlagsOK
<1>2. Matching(scope[l])' = Matching(scope[l])
  BY <1>1 DEF Matching, Held
<1>3. QED
  BY <1>1, <1>2 DEF Current, Shown

\* So does a step that touches neither the mirror nor the list.
LEMMA StaysCurrent ==
  ASSUME NEW l \in Lists, Current(l),
         UNCHANGED <<mirror, epoch, scope, rows, hasMore, seenEpoch>>
  PROVE  Current(l)'
  BY DEF Current, Shown, Matching, Held

\* The worker, for a list the reader does not tap.
LEMMA WorkerCaughtUp ==
  ASSUME IInv, NEW l \in Lists \ Tapped, CaughtUp(l), WorkerNext
  PROVE  CaughtUp(l)'
<1> USE DEF shared, worker, models, qt, history
<1>1. CASE StartCommand \/ \E tell \in BOOLEAN : FinishCommand(tell)
  BY <1>1, StaysCurrent DEF StartCommand, FinishCommand, CaughtUp
<1>2. CASE \E a \in Articles, s \in States : CommitCounted(a, s)
  BY <1>2 DEF CommitCounted, CaughtUp
<1>3. CASE \E a \in Articles : CommitUncounted(a)
  BY <1>3 DEF CommitUncounted, CaughtUp
<1>4. CASE DropGuard
  <2>1. CASE counted
    <3>1. generation' = generation + 1 /\ seen' = seen
      BY <1>4, <2>1 DEF DropGuard
    <3>2. seen'[l] # generation'
      BY <3>1 DEF IInv, StateOK
    <3>3. QED
      BY <3>2 DEF CaughtUp
  <2>2. CASE ~counted
    BY <1>4, <2>2, StaysCurrent DEF DropGuard, CaughtUp
  <2>3. QED
    BY <2>1, <2>2
<1>5. QED
  BY <1>1, <1>2, <1>3, <1>4 DEF WorkerNext

\* The handlers.
LEMMA HandlerCaughtUp ==
  ASSUME IInv, NEW l \in Lists \ Tapped, CaughtUp(l), Handler
  PROVE  CaughtUp(l)'
<1> USE DEF shared, worker, models, qt, history
<1>1. CASE PollReload
  <2>1. /\ at = "reload" /\ who \in Lists /\ scope[who] \in Scopes /\ limit[who] \in Nat
    BY <1>1 DEF PollReload, IInv, StateOK, WhoInv
  <2>2. /\ ReloadKeeping(who, TRUE, scope[who], limit[who], epoch)
        /\ UNCHANGED <<mirror, generation, epoch, seen, unsaid, quiet>>
    BY <1>1 DEF PollReload
  <2>3. CASE who = l
    BY <2>1, <2>2, <2>3, ReloadMakesCurrent DEF CaughtUp
  <2>4. CASE who # l
    BY <2>1, <2>2, <2>4, OtherReload DEF CaughtUp
  <2>5. QED
    BY <2>3, <2>4
<1>2. CASE MarkAllWrite
  BY <1>2 DEF MarkAllWrite, CaughtUp
<1>3. CASE MarkAllFresh
  <2>1. /\ at = "fresh" /\ who \in Lists /\ who # l /\ scope[who] \in Scopes
        /\ PageSize \in Nat
    BY <1>3, ListsAssumption DEF MarkAllFresh, IInv, StateOK, WhoInv
  <2>2. /\ ReloadKeeping(who, FALSE, scope[who], PageSize, epoch)
        /\ UNCHANGED <<mirror, generation, epoch, seen, unsaid, quiet>>
    BY <1>3 DEF MarkAllFresh, ReloadFresh
  <2>3. QED
    BY <2>1, <2>2, OtherReload DEF CaughtUp
<1>4. CASE Bump
  <2>1. generation' = generation + 1 /\ seen' = seen
    BY <1>4 DEF Bump
  <2>2. seen'[l] # generation'
    BY <2>1 DEF IInv, StateOK
  <2>3. QED
    BY <2>2 DEF CaughtUp
<1>5. CASE MoveCursor
  <2>1. who \in Lists /\ who # l /\ at = "cursor"
    BY <1>5, ListsAssumption DEF MoveCursor, IInv, WhoInv
  <2>2. seen'[l] = seen[l]
    BY <1>5, <2>1 DEF MoveCursor, IInv, StateOK
  <2>3. UNCHANGED <<mirror, generation, epoch, scope, rows, hasMore, seenEpoch, unsaid, quiet>>
    BY <1>5 DEF MoveCursor
  <2>4. QED
    BY <2>1, <2>2, <2>3, StaysCurrent DEF CaughtUp
<1>6. QED
  BY <1>1, <1>2, <1>3, <1>4, <1>5 DEF Handler

\* The reader's gestures on other lists, and looking at any.
LEMMA QtCaughtUp ==
  ASSUME IInv, NEW l \in Lists \ Tapped, CaughtUp(l), Tap \/ Look
  PROVE  CaughtUp(l)'
<1> USE DEF shared, worker, models, qt, history, Gesture
<1>1. CASE Tap
  <2>1. CASE \E k \in Tapped : MarkAllRead(k)
    BY <2>1, StaysCurrent DEF MarkAllRead, CaughtUp
  <2>2. CASE unsaid' \/ quiet'
    BY <2>2 DEF CaughtUp
  <2>3. QED
    BY <1>1, <2>1, <2>2 DEF Tap, SetRead, RequestSync, ArticleMark, FeedMarkRead
<1>2. ASSUME NEW k \in Lists, PollSync(k) PROVE CaughtUp(l)'
  <2>1. CASE k = l
    BY <1>2, <2>1 DEF PollSync, CaughtUp
  <2>2. CASE k # l
    <3>1. seen'[l] = seen[l]
      BY <1>2, <2>2 DEF PollSync, IInv, StateOK
    <3>2. at = "idle" /\ UNCHANGED <<mirror, generation, epoch, scope, rows, hasMore, seenEpoch,
                                    unsaid, quiet>>
      BY <1>2 DEF PollSync
    <3>3. QED
      BY <3>1, <3>2, StaysCurrent DEF CaughtUp
  <2>3. QED
    BY <2>1, <2>2
<1>3. ASSUME NEW k \in Lists, NEW keep \in BOOLEAN, NEW s \in Scopes, NEW n \in Nat,
             ReloadKeeping(k, keep, s, n, epoch),
             UNCHANGED <<mirror, generation, epoch, seen, at, who, unsaid, quiet>>
      PROVE  CaughtUp(l)'
  <2>1. CASE k = l
    BY <1>3, <2>1, ReloadMakesCurrent DEF CaughtUp
  <2>2. CASE k # l
    BY <1>3, <2>2, OtherReload DEF CaughtUp
  <2>3. QED
    BY <2>1, <2>2
<1>4. ASSUME NEW k \in Lists, LoadMore(k) PROVE CaughtUp(l)'
  <2>1. scope[k] \in Scopes /\ limit[k] + PageSize \in Nat
    BY ListsAssumption DEF IInv, StateOK
  <2>2. /\ ReloadKeeping(k, TRUE, scope[k], limit[k] + PageSize, epoch)
        /\ UNCHANGED <<mirror, generation, epoch, seen, at, who, unsaid, quiet>>
    BY <1>4 DEF LoadMore
  <2>3. QED
    BY <1>3, <2>1, <2>2
<1>5. ASSUME NEW k \in Browse, NEW s \in Scopes, SetScope(k, s) PROVE CaughtUp(l)'
  <2>1. k \in Lists /\ PageSize \in Nat
    BY ListsAssumption
  <2>2. /\ ReloadKeeping(k, FALSE, s, PageSize, epoch)
        /\ UNCHANGED <<mirror, generation, epoch, seen, at, who, unsaid, quiet>>
    BY <1>5 DEF SetScope, ReloadFresh
  <2>3. QED
    BY <1>3, <2>1, <2>2
<1>6. QED
  BY <1>1, <1>2, <1>4, <1>5 DEF Look

(* pollSync's early return hides nothing from a list the reader is not     *)
(* tapping, for any number of lists, articles and taps elsewhere.          *)
THEOREM CaughtUpShowsTheMirror == Spec => []CaughtUpIsCurrent
<1>1. Init => CaughtUpIsCurrent
  <2> SUFFICES ASSUME Init, NEW l \in Lists PROVE Current(l)
    BY DEF CaughtUpIsCurrent
  <2> DEFINE listed == Window(Matching(scope[l]), PageSize)
  <2>1. \A a \in Articles : rows[l][a] = IF a \in listed THEN mirror[a] ELSE "absent"
    BY DEF Init
  <2>2. hasMore[l] = FullWindow(listed, PageSize) /\ seenEpoch[l] = epoch
    BY DEF Init
  <2>3. Matching(scope[l]) \in SUBSET Articles /\ \A a \in Matching(scope[l]) : mirror[a] # "absent"
    BY DEF Matching, Held
  <2>4. Matching(scope[l]) \subseteq listed \/ FullWindow(listed, PageSize)
    BY <2>3, NotFullIsAll, ListsAssumption
  <2> HIDE DEF listed
  <2>5. QED
    BY <2>1, <2>2, <2>3, <2>4 DEF Current, Shown
<1>2. ASSUME IInv, CaughtUpIsCurrent, [Next]_vars PROVE CaughtUpIsCurrent'
  <2> SUFFICES ASSUME NEW l \in Lists \ Tapped PROVE CaughtUp(l)'
    BY DEF CaughtUpIsCurrent, CaughtUp
  <2>1. CaughtUp(l)
    BY <1>2 DEF CaughtUpIsCurrent, CaughtUp
  <2>2. CASE UNCHANGED vars
    BY <2>1, <2>2, StaysCurrent DEF vars, shared, worker, models, qt, history, CaughtUp
  <2>3. QED
    BY <1>2, <2>1, <2>2, WorkerCaughtUp, HandlerCaughtUp, QtCaughtUp DEF Next
<1>3. QED
  BY <1>1, <1>2, InitTypes, NextTypes, PTL DEF Spec

-----------------------------------------------------------------------------
(* Rows stay. *)

\* What may take article a from list l in a step.
MayLeave(l, a) ==
    \/ mirror[a] = "absent" \/ epoch' # seenEpoch[l] \/ scope'[l] # scope[l]
    \/ at = "fresh" /\ who = l

(* reload never takes a row from the screen on its own account, for any    *)
(* interleaving of polls, taps, syncs and "load more".                     *)
THEOREM RowsDoNotJump == Spec => RowsStay
<1>1. ASSUME IInv, [Next]_vars,
             NEW l \in Lists, NEW a \in Articles,
             rows[l][a] # "absent", rows'[l][a] = "absent"
      PROVE  MayLeave(l, a)
  <2> USE DEF shared, worker, models, qt, history, Gesture
  <2>1. CASE rows' = rows
    BY <1>1, <2>1
  <2>2. ASSUME NEW k \in Lists, NEW s, NEW n,
               ReloadKeeping(k, TRUE, s, n, epoch), epoch' = epoch
        PROVE  MayLeave(l, a)
    <3>1. CASE k = l
      BY <1>1, <2>2, <3>1, ReloadKeeps DEF MayLeave, IInv
    <3>2. CASE k # l
      BY <1>1, <2>2, <3>2 DEF ReloadKeeping, IInv, StateOK
    <3>3. QED
      BY <3>1, <3>2
  <2>3. CASE PollReload
    BY <2>2, <2>3, <1>1 DEF PollReload, IInv, WhoInv
  <2>4. CASE MarkAllFresh
    <3>1. CASE who = l
      BY <2>4, <3>1 DEF MarkAllFresh, MayLeave
    <3>2. CASE who # l
      BY <1>1, <2>4, <3>2 DEF MarkAllFresh, ReloadFresh, ReloadKeeping, IInv, StateOK
    <3>3. QED
      BY <3>1, <3>2
  <2>5. ASSUME NEW k \in Tapped, NEW A \in SUBSET Articles, NEW s \in {"unread", "read"},
               SetRead(k, A, s)
        PROVE  MayLeave(l, a)
    BY <1>1, <2>5, ListsAssumption DEF SetRead, IInv, StateOK
  <2>6. ASSUME NEW k \in Tapped, RequestSync(k) PROVE MayLeave(l, a)
    BY <1>1, <2>6 DEF RequestSync, MayLeave, IInv, StateOK
  <2>7. ASSUME NEW k \in Lists, LoadMore(k) PROVE MayLeave(l, a)
    BY <2>2, <2>7 DEF LoadMore
  <2>8. ASSUME NEW k \in Browse, NEW s \in Scopes, SetScope(k, s) PROVE MayLeave(l, a)
    <3>1. CASE k = l
      BY <1>1, <2>8, <3>1 DEF SetScope, ReloadFresh, ReloadKeeping, IInv, StateOK, MayLeave
    <3>2. CASE k # l
      BY <1>1, <2>8, <3>2 DEF SetScope, ReloadFresh, ReloadKeeping, IInv, StateOK
    <3>3. QED
      BY <3>1, <3>2
  <2>9. \/ rows' = rows \/ PollReload \/ MarkAllFresh
        \/ \E k \in Tapped : \/ RequestSync(k)
                             \/ \E A \in SUBSET Articles, s \in {"unread", "read"} : SetRead(k, A, s)
        \/ \E k \in Lists : LoadMore(k)
        \/ \E k \in Browse, s \in Scopes : SetScope(k, s)
    BY <1>1 DEF Next, WorkerNext, Handler, Tap, Look, vars, StartCommand, CommitCounted,
       CommitUncounted, FinishCommand, DropGuard, PollSync, ArticleMark, FeedMarkRead, MarkAllRead,
       MarkAllWrite, Bump, MoveCursor
  <2>10. QED
    BY <2>1, <2>3, <2>4, <2>5, <2>6, <2>7, <2>8, <2>9
<1>2. IInv /\ [Next]_vars =>
        [\A l \in Lists, a \in Articles :
            (rows[l][a] # "absent" /\ rows'[l][a] = "absent")
                => \/ mirror[a] = "absent"
                   \/ epoch' # seenEpoch[l]
                   \/ scope'[l] # scope[l]
                   \/ at = "fresh" /\ who = l]_vars
  BY <1>1 DEF MayLeave
<1>3. QED
  BY <1>2, InitTypes, NextTypes, PTL DEF Spec, RowsStay
=============================================================================
