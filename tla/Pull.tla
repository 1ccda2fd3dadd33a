-------------------------------- MODULE Pull --------------------------------
(***************************************************************************)
(* The incremental pull (sync/pull.rs, sync/mod.rs): a window "changed     *)
(* after the cursor", read in pages by ascending id, while the server goes *)
(* on changing.  The next cursor is the Date of the first response less a  *)
(* skew, and is stored only when the whole pass has succeeded.             *)
(*                                                                         *)
(* Covered: changes at any moment of a pass, server transactions that      *)
(* become visible after the instant they are stamped with, passes that     *)
(* fail or are killed at any step, the page cap, entries that never        *)
(* validate, responses without a Date.  Abstracted: an entry is the number *)
(* of its latest change; reading a page and committing it are one step,    *)
(* since a kill between them is a pass that failed before the page.        *)
(***************************************************************************)
EXTENDS Integers, FiniteSets

CONSTANTS
    Entries,      \* entry ids
    Unusable,     \* entries the decoder rejects
    PageSize,     \* PAGE_SIZE
    MaxPages,     \* MAX_PAGES_PER_PASS
    Skew,         \* CURSOR_SKEW_SECS
    Lag,          \* how long a server transaction takes to become visible
    DateMissing,  \* whether a response may lack its Date
    None,         \* no cursor, no Date
    MaxTime,      \* bound: the server's clock
    MaxChanges,   \* bound: changes on the server
    MaxFails      \* bound: passes that fail

ASSUME ConstantsAssumption ==
    /\ IsFiniteSet(Entries) /\ Entries \subseteq Nat \ {0}
    /\ Unusable \subseteq Entries
    /\ {PageSize, MaxPages} \subseteq Nat \ {0}
    /\ {Skew, Lag, MaxTime, MaxChanges, MaxFails} \subseteq Nat
    /\ DateMissing \in BOOLEAN
    /\ None \notin Int

\* What CURSOR_SKEW_SECS is for: "transactions whose now() predates visibility".
ASSUME SkewCoversLag == Lag < Skew

VARIABLES
    \* the server
    clock,    \* its clock
    rev,      \* the latest visible change of each entry; 0: there is no entry
    changed,  \* the stamp of that change (changed_at)
    open,     \* the stamp of a change not visible yet, or None
    \* the device
    cursor,   \* sync_state.cursor_changed_after, or None
    merged,   \* the change of each entry the mirror took last
    \* the pass
    pc,       \* idle, pulling (in the page loop), pulled (the rest of the pass)
    after,    \* the last id read; 0: none yet
    anchor,   \* server_now: the Date the next cursor is made of, or None
    pages,    \* pages requested
    next,     \* PullOutcome.next_cursor, or None
    \* history and bounds
    began,    \* the server's clock when the pass read its first page, or None
    base,     \* the instant next was made of, or None
    ahead,    \* whether a cursor was stored with a base too late for its skew
    fails, changes

serverVars == <<clock, rev, changed, open, changes>>
passVars == <<pc, after, anchor, pages, next, began, base>>
vars == <<serverVars, cursor, merged, passVars, ahead, fails>>

Init ==
    /\ clock = 0
    /\ rev \in [Entries -> {0, 1}]
    /\ changed = [e \in Entries |-> 0]
    /\ open = [e \in Entries |-> None]
    /\ cursor = None
    /\ merged = [e \in Entries |-> 0]
    /\ pc = "idle"
    /\ after = 0
    /\ anchor = None
    /\ pages = 0
    /\ next = None
    /\ began = None /\ base = None
    /\ ahead = FALSE
    /\ fails = 0 /\ changes = 0

(***************************************************************************)
(* The server.                                                             *)
(***************************************************************************)

\* A transaction stamps its change with the clock it started at ...
Begin(e) ==
    /\ open[e] = None
    /\ changes < MaxChanges
    /\ changes' = changes + 1
    /\ open' = [open EXCEPT ![e] = clock]
    /\ UNCHANGED <<clock, rev, changed, cursor, merged, passVars, ahead, fails>>

\* ... and others see it when it commits.
Commit(e) ==
    /\ open[e] # None
    /\ rev' = [rev EXCEPT ![e] = @ + 1]
    /\ changed' = [changed EXCEPT ![e] = open[e]]
    /\ open' = [open EXCEPT ![e] = None]
    /\ UNCHANGED <<clock, changes, cursor, merged, passVars, ahead, fails>>

Tick ==
    /\ clock < MaxTime
    /\ \A e \in Entries : open[e] # None => clock < open[e] + Lag
    /\ clock' = clock + 1
    /\ UNCHANGED <<rev, changed, open, changes, cursor, merged, passVars, ahead, fails>>

(***************************************************************************)
(* The pass.                                                               *)
(***************************************************************************)

StartPass ==
    /\ pc = "idle"
    /\ pc' = "pulling"
    /\ UNCHANGED <<serverVars, cursor, merged, after, anchor, pages, next, began, base, ahead, fails>>

\* What a pass knows ends with it.
PassOver ==
    /\ pc' = "idle"
    /\ after' = 0
    /\ anchor' = None
    /\ pages' = 0
    /\ next' = None
    /\ began' = None
    /\ base' = None

\* EntriesQuery: a cursor that is not positive is not sent.
InWindow(e) == cursor = None \/ cursor <= 0 \/ changed[e] > cursor

\* What after_entry_id leaves of the window.
Window == {e \in Entries : rev[e] > 0 /\ e > after /\ InWindow(e)}

\* The server's answer: the lowest ids of the window, PageSize at most.
IsPage(P) ==
    /\ P \subseteq Window
    /\ \A e \in P, f \in Window : f < e => f \in P
    /\ \/ Cardinality(P) = PageSize
       \/ Cardinality(P) < PageSize /\ P = Window

\* The first Date any response of the pass carries.
Anchored(date) == IF anchor = None THEN date ELSE anchor

\* A pass dates itself by the Date or, without one, by the phone's clock.
Base(date, phone) == IF date = None THEN phone ELSE date

\* Mutant: no allowance for changes that show up late.
NextCursorUnskewed(date, phone) == Base(date, phone)

\* The cursor of a pass that read its whole window.
NextCursor(date, phone) == Base(date, phone) - Skew

\* Mutant: a page is short when few of its entries are usable.
LastPageSurvivors(P) == Cardinality(P \ Unusable) < PageSize

\* The loop ends on a short page, counted before anything is rejected.
LastPage(P) == Cardinality(P) < PageSize

\* Mutant: one page too many.
BelowCapOff == pages <= MaxPages
BelowCap == pages < MaxPages

\* One page: read, decoded and committed.
ReadPage(P, date, phone) ==
    /\ pc = "pulling"
    /\ BelowCap
    /\ IsPage(P)
    /\ pages' = pages + 1
    /\ began' = IF pages = 0 THEN clock ELSE began
    /\ anchor' = Anchored(date)
    /\ merged' = [e \in Entries |-> IF e \in P \ Unusable THEN rev[e] ELSE merged[e]]
    /\ \/ /\ LastPage(P)
          /\ pc' = "pulled"
          /\ next' = NextCursor(Anchored(date), phone)
          /\ base' = Base(Anchored(date), phone)
          /\ UNCHANGED after
       \/ /\ ~LastPage(P)
          /\ \E last \in P : (\A e \in P : e <= last) /\ after' = last
          /\ UNCHANGED <<pc, next, base>>
    /\ UNCHANGED <<serverVars, cursor, ahead, fails>>

\* A pass that reads too many pages stops, and its cursor stays.
StopAtCap ==
    /\ pc = "pulling"
    /\ ~BelowCap
    /\ pc' = "pulled"
    /\ next' = None
    /\ UNCHANGED <<serverVars, cursor, merged, after, anchor, pages, began, base, ahead, fails>>

\* The pass is dated so late that its skew no longer reaches back to all that may
\* have become visible since its first page.
TooLate == base >= began + Skew - Lag

\* The last step of sync, after the reconcile, the icons and the pruning.
FinishPass ==
    /\ pc = "pulled"
    /\ PassOver
    /\ cursor' = IF next = None THEN cursor ELSE next
    /\ ahead' = (ahead \/ (next # None /\ TooLate))
    /\ UNCHANGED <<serverVars, merged, fails>>

\* Any request or write of the pass fails, or the process dies: sync_state keeps
\* the old cursor, the pages already merged stay.
FailPass ==
    /\ pc # "idle"
    /\ fails < MaxFails
    /\ fails' = fails + 1
    /\ PassOver
    /\ UNCHANGED <<serverVars, cursor, merged, ahead>>

-----------------------------------------------------------------------------

Server == Tick \/ \E e \in Entries : Begin(e) \/ Commit(e)

\* What a response is dated by, and what the phone's clock may say when it comes.
DatesOfNow == {clock} \cup IF DateMissing THEN {None} ELSE {}
PhoneClocks == IF DateMissing THEN 0..MaxTime ELSE {clock}

Pass ==
    \/ StartPass
    \/ \E P \in SUBSET Entries, date \in DatesOfNow, phone \in PhoneClocks : ReadPage(P, date, phone)
    \/ StopAtCap
    \/ FinishPass

Next == Server \/ Pass \/ FailPass

Spec == Init /\ [][Next]_vars

\* The worker starts a pass every interval and every step of one ends; a server
\* transaction commits.  Only failures are left to luck, and bounded.
LiveSpec ==
    /\ Spec
    /\ WF_vars(Pass)
    /\ \A e \in Entries : WF_vars(Commit(e))

(***************************************************************************)
(* Properties.                                                             *)
(***************************************************************************)

\* The pass never exceeds its page cap (MAX_PAGES_PER_PASS); revisions, stamps and
\* cursors are numbers or absent.
TypeOK ==
    /\ clock \in Nat
    /\ rev \in [Entries -> Nat]
    /\ changed \in [Entries -> Nat]
    /\ open \in [Entries -> Nat \cup {None}]
    /\ cursor \in Int \cup {None}
    /\ merged \in [Entries -> Nat]
    /\ pc \in {"idle", "pulling", "pulled"}
    /\ after \in Nat
    /\ anchor \in Nat \cup {None}
    /\ pages \in 0..MaxPages
    /\ next \in Int \cup {None}
    /\ began \in Nat \cup {None} /\ base \in Nat \cup {None}
    /\ ahead \in BOOLEAN
    /\ fails \in Nat /\ changes \in Nat

Missing(e) == rev[e] # merged[e]

\* "Why no gaps" (pull.rs): whatever the mirror has not taken yet, and whatever
\* the server is about to make visible, lies after the cursor, so some later
\* pass asks for it.
Covered ==
    \A e \in Entries \ Unusable :
        /\ Missing(e) => InWindow(e)
        /\ open[e] # None /\ cursor # None => open[e] > cursor

\* Nothing is skipped for good, with and without a Date in the responses, unless a
\* late Date or a fast phone dated a pass later than its skew makes up for.
NoGap == ~ahead => Covered

\* "Anchor to FIRST response's Date: later pages follow mutations this pass won't
\* see; later clock would skip them" (pull.rs, entries_with_page_cap).
AnchoredAtFirst == anchor # None => anchor = began

UpToDate == \A e \in Entries \ Unusable : ~Missing(e)

\* A pass the page cap stopped; its cursor stays.
Capped == pc = "pulled" /\ next = None

\* A change is only ever late: over passes that fail now and then, the mirror
\* catches up with a server that stops changing, unless every pass runs into the
\* page cap or a cursor got ahead.  (entries_with_page_cap, sync.)
CatchesUp == []~ahead => []<>Capped \/ <>[]UpToDate

=============================================================================
