-------------------------------- MODULE Lists --------------------------------
(***************************************************************************)
(* How the entry lists learn that the mirror moved.                        *)
(*                                                                         *)
(* The worker and the Qt thread write the same SQLite file.  A change is   *)
(* told through one counter, SyncSignal.generation: whoever changed the    *)
(* mirror bumps it, and every list compares it, once per tick of the root  *)
(* window's timer, with the generation it last looked at.  The list the    *)
(* reader taps patches its own row and moves its cursor past its own bump, *)
(* so that it does not reload under the finger.                            *)
(*                                                                         *)
(* The worker runs between any two accesses of the Qt thread to the mirror *)
(* or to the counter, so a handler that makes several is several steps.    *)
(*                                                                         *)
(* Abstracted: a row is its article's read state; the starred, feed and    *)
(* category scopes are further filters of the same kind, and search (which *)
(* keeps no rows) is left out.  The spinner half of pollSync is in Worker. *)
(* `unsaid' and `quiet' are history variables.                             *)
(***************************************************************************)
EXTENDS Integers, FiniteSets

CONSTANTS
    Lists,        \* the entry models the root window polls
    Tapped,       \* those whose rows the reader taps
    Browse,       \* those whose scope changes
    Newest,       \* articles are 1..Newest, a larger one is newer
    PageSize,     \* PAGE_SIZE
    None,         \* no list
    MaxEvents     \* bound: what the worker commits and the user does

ASSUME ListsAssumption ==
    /\ Tapped \subseteq Lists /\ Browse \subseteq Lists
    /\ None \notin Lists
    /\ Newest \in Nat /\ PageSize \in Nat \ {0}
    /\ MaxEvents \in Nat

Articles == 1..Newest
States == {"absent", "unread", "read"}
Scopes == {"unread", "all"}

VARIABLES
    \* shared
    mirror,      \* [Articles -> States]: the entries table
    generation,  \* SyncSignal.generation
    epoch,       \* SyncSignal.refresh_epoch
    \* the worker
    work,        \* "idle", "command", or "drop": in CommandGuard::drop
    counted,     \* the running command's guard will bump: its report counts a change
    \* each EntryModel
    scope,       \* [Lists -> Scopes]
    limit,       \* [Lists -> Nat]: the window
    rows,        \* [Lists -> [Articles -> States]]: "absent" is not shown
    hasMore,     \* [Lists -> BOOLEAN]
    seen,        \* [Lists -> Nat]: seen_generation
    seenEpoch,   \* [Lists -> Nat]: seen_refresh_epoch
    \* the Qt thread
    at,          \* which access of a handler comes next
    who,         \* the list whose handler runs; None: another object's
    ids,         \* the articles "mark all as read" found
    \* history
    unsaid,      \* a counted change or a tap since the last bump
    quiet,       \* a change nobody will bump for, since the last bump
    events

shared == <<mirror, generation, epoch>>
worker == <<work, counted>>
models == <<scope, limit, rows, hasMore, seen, seenEpoch>>
qt == <<at, who, ids>>
history == <<unsaid, quiet>>
vars == <<shared, worker, models, qt, history, events>>

TypeOK ==
    /\ mirror \in [Articles -> States]
    /\ generation \in Nat /\ epoch \in Nat
    /\ work \in {"idle", "command", "drop"}
    /\ counted \in BOOLEAN
    /\ scope \in [Lists -> Scopes]
    /\ limit \in [Lists -> Nat \ 0..(PageSize - 1)]
    /\ rows \in [Lists -> [Articles -> States]]
    /\ hasMore \in [Lists -> BOOLEAN]
    /\ seen \in [Lists -> 0..generation] /\ seenEpoch \in [Lists -> 0..epoch]
    /\ at \in {"idle", "reload", "write", "fresh", "bump", "cursor"}
    /\ who \in Lists \union {None}
    /\ ids \in SUBSET Articles
    /\ unsaid \in BOOLEAN /\ quiet \in BOOLEAN
    /\ events \in 0..MaxEvents

------------------------------------------------------------------------------
(* What a list shows. *)

Shown(l) == {a \in Articles : rows[l][a] # "absent"}

Held == {a \in Articles : mirror[a] # "absent"}

\* The WHERE of list_entries.
Matching(s) == {a \in Held : s = "unread" => mirror[a] = "unread"}

\* ORDER BY published_at DESC LIMIT n.
Window(S, n) == {a \in S : Cardinality({b \in S : b > a}) < n}

\* Mutant: a window is full when it holds more than it may.
FullWindowMissed(listed, n) == Cardinality(listed) > n

\* A window the mirror filled completely may have more behind it.
FullWindow(listed, n) == Cardinality(listed) >= n

\* Mutant: what no longer matches goes.
KeptNone(l, keep, e) == {}

(* What is on screen stays unless the list starts over, here or because a  *)
(* refresh was asked for elsewhere.  A row the mirror lost is not kept.    *)
Kept(l, keep, e) ==
    IF keep /\ e = seenEpoch[l] THEN Shown(l) \intersect Held ELSE {}

(* reload_keeping of the rows matching scope s, n at most, at epoch e. *)
ReloadKeeping(l, keep, s, n, e) ==
    LET listed == Window(Matching(s), n)
        fresh == listed \union Kept(l, keep, e)
    IN  /\ rows' = [rows EXCEPT ![l] =
                       [a \in Articles |-> IF a \in fresh THEN mirror[a] ELSE "absent"]]
        /\ hasMore' = [hasMore EXCEPT ![l] = FullWindow(listed, n)]
        /\ seenEpoch' = [seenEpoch EXCEPT ![l] = e]
        /\ scope' = [scope EXCEPT ![l] = s]
        /\ limit' = [limit EXCEPT ![l] = n]

\* Mutant: the window is left as a model is constructed.
ReloadFreshUnfloored(l, s, e) == ReloadKeeping(l, FALSE, s, 0, e)

ReloadFresh(l, s, e) == ReloadKeeping(l, FALSE, s, PageSize, e)

Event == events < MaxEvents /\ events' = events + 1

------------------------------------------------------------------------------
(* The worker. *)

StartCommand ==
    /\ work = "idle"
    /\ work' = "command" /\ counted' = FALSE
    /\ UNCHANGED <<shared, models, qt, history, events>>

(* A write the command's report counts: a pulled or removed entry, a       *)
(* reconcile, an unsubscribed feed, a scraped body.                        *)
CommitCounted(a, s) ==
    /\ work = "command"
    /\ Event
    /\ mirror' = [mirror EXCEPT ![a] = s]
    /\ counted' = TRUE /\ unsaid' = TRUE
    /\ UNCHANGED <<generation, epoch, work, models, qt, quiet>>

(* A write no field of SyncReport that the worker looks at counts: feeds   *)
(* gone from the listing take their entries along, and retention prunes.   *)
CommitUncounted(a) ==
    /\ work = "command"
    /\ Event
    /\ mirror[a] # "absent"
    /\ mirror' = [mirror EXCEPT ![a] = "absent"]
    /\ quiet' = TRUE
    /\ UNCHANGED <<generation, epoch, work, counted, models, qt, unsaid>>

\* Mutant: only how the command ended is asked, not what it wrote before.
FinishCommandLast(tell) ==
    /\ work = "command"
    /\ IF tell THEN Event ELSE UNCHANGED events
    /\ work' = "drop"
    /\ counted' = tell
    /\ UNCHANGED <<shared, models, qt, history>>

(* The command ends.  A failed sync bumps whatever it wrote, and a flush   *)
(* when it confirmed or dropped an intent (both are `tell').               *)
FinishCommand(tell) ==
    /\ work = "command"
    /\ IF tell THEN Event ELSE UNCHANGED events
    /\ work' = "drop"
    /\ counted' = (counted \/ tell)
    /\ UNCHANGED <<shared, models, qt, history>>

(* CommandGuard::drop. *)
DropGuard ==
    /\ work = "drop"
    /\ work' = "idle" /\ counted' = FALSE
    /\ IF counted
       THEN /\ generation' = generation + 1
            /\ unsaid' = FALSE /\ quiet' = FALSE
       ELSE UNCHANGED <<generation, history>>
    /\ UNCHANGED <<mirror, epoch, models, qt, events>>

------------------------------------------------------------------------------
(* The Qt thread. *)

Gesture ==
    /\ at = "idle"
    /\ Event

\* Mutant: the generation is spent, and the reload does not come of it.
PollSyncSpends(l) ==
    /\ at = "idle"
    /\ seen[l] # generation
    /\ seen' = [seen EXCEPT ![l] = generation]
    /\ UNCHANGED <<shared, worker, scope, limit, rows, hasMore, seenEpoch, qt,
                   history, events>>

(* pollSync: the counter is read, and remembered, before the mirror. *)
PollSync(l) ==
    /\ at = "idle"
    /\ seen[l] # generation
    /\ seen' = [seen EXCEPT ![l] = generation]
    /\ at' = "reload" /\ who' = l
    /\ UNCHANGED <<shared, worker, scope, limit, rows, hasMore, seenEpoch, ids,
                   history, events>>

PollReload ==
    /\ at = "reload"
    /\ ReloadKeeping(who, TRUE, scope[who], limit[who], epoch)
    /\ at' = "idle" /\ who' = None
    /\ UNCHANGED <<shared, worker, seen, ids, history, events>>

(* setRead, setReadMany of the articles A: the intents and the columns in  *)
(* one transaction, the own rows patched.  A selected row may have left    *)
(* since; nothing is written to an entry the mirror lost.                  *)
SetRead(l, A, s) ==
    /\ Gesture
    /\ A # {}
    /\ mirror' = [a \in Articles |-> IF a \in A \intersect Held THEN s ELSE mirror[a]]
    /\ rows' = [rows EXCEPT ![l] =
                   [a \in Articles |-> IF a \in A \intersect Shown(l) THEN s ELSE rows[l][a]]]
    /\ unsaid' = TRUE
    /\ at' = "bump" /\ who' = l
    /\ UNCHANGED <<generation, epoch, worker, scope, limit, hasMore, seen,
                   seenEpoch, ids, quiet>>

(* ArticleModel::apply_local: the open article bumps, and has no cursor. *)
ArticleMark(a, s) ==
    /\ Gesture
    /\ mirror[a] # "absent"
    /\ mirror' = [mirror EXCEPT ![a] = s]
    /\ unsaid' = TRUE
    /\ at' = "bump" /\ who' = None
    /\ UNCHANGED <<generation, epoch, worker, models, ids, quiet>>

(* FeedModel::markFeedRead: reloads the feed list and bumps nothing. *)
FeedMarkRead ==
    /\ Gesture
    /\ mirror' = [a \in Articles |-> IF mirror[a] = "unread" THEN "read" ELSE mirror[a]]
    /\ quiet' = TRUE
    /\ UNCHANGED <<generation, epoch, worker, models, at, who, ids, unsaid>>

(* markAllRead: the ids are read, then written, then the list starts over. *)
MarkAllRead(l) ==
    /\ Gesture
    /\ ids' = Matching(scope[l])
    /\ at' = "write" /\ who' = l
    /\ UNCHANGED <<shared, worker, models, history>>

MarkAllWrite ==
    /\ at = "write"
    /\ mirror' = [a \in Articles |-> IF a \in ids \intersect Held THEN "read" ELSE mirror[a]]
    /\ ids' = {}
    /\ unsaid' = TRUE
    /\ at' = "fresh"
    /\ UNCHANGED <<generation, epoch, worker, models, who, quiet, events>>

MarkAllFresh ==
    /\ at = "fresh"
    /\ ReloadFresh(who, scope[who], epoch)
    /\ at' = "bump"
    /\ UNCHANGED <<shared, worker, seen, who, ids, history, events>>

(* requestSync: every list starts over.  The Sync it sends is a command. *)
RequestSync(l) ==
    /\ Gesture
    /\ epoch' = epoch + 1
    /\ ReloadFresh(l, scope[l], epoch + 1)
    /\ unsaid' = TRUE
    /\ at' = "bump" /\ who' = l
    /\ UNCHANGED <<mirror, generation, worker, seen, ids, quiet>>

(* announce_local_change: bump, *)
Bump ==
    /\ at = "bump"
    /\ generation' = generation + 1
    /\ unsaid' = FALSE /\ quiet' = FALSE
    /\ at' = IF who = None THEN "idle" ELSE "cursor"
    /\ UNCHANGED <<mirror, epoch, worker, models, who, ids, events>>

(* then move the own cursor past whatever the counter says by now. *)
MoveCursor ==
    /\ at = "cursor"
    /\ seen' = [seen EXCEPT ![who] = generation]
    /\ at' = "idle" /\ who' = None
    /\ UNCHANGED <<shared, worker, scope, limit, rows, hasMore, seenEpoch, ids,
                   history, events>>

LoadMore(l) ==
    /\ at = "idle"
    /\ hasMore[l]
    /\ ReloadKeeping(l, TRUE, scope[l], limit[l] + PageSize, epoch)
    /\ UNCHANGED <<shared, worker, seen, qt, history, events>>

SetScope(l, s) ==
    /\ at = "idle"
    /\ s # scope[l]
    /\ ReloadFresh(l, s, epoch)
    /\ UNCHANGED <<shared, worker, seen, qt, history, events>>

------------------------------------------------------------------------------

Init ==
    /\ mirror = [a \in Articles |-> IF a = Newest THEN "absent" ELSE "unread"]
    /\ generation = 0 /\ epoch = 0
    /\ work = "idle" /\ counted = FALSE
    /\ scope = [l \in Lists |-> "unread"]
    /\ limit = [l \in Lists |-> PageSize]
    /\ rows = [l \in Lists |-> [a \in Articles |->
                  IF a \in Window(Matching(scope[l]), PageSize)
                  THEN mirror[a] ELSE "absent"]]
    /\ hasMore = [l \in Lists |-> FullWindow(Window(Matching(scope[l]), PageSize), PageSize)]
    /\ seen = [l \in Lists |-> 0] /\ seenEpoch = [l \in Lists |-> 0]
    /\ at = "idle" /\ who = None /\ ids = {}
    /\ unsaid = FALSE /\ quiet = FALSE
    /\ events = 0

WorkerNext ==
    \/ StartCommand
    \/ \E a \in Articles, s \in States : CommitCounted(a, s)
    \/ \E a \in Articles : CommitUncounted(a)
    \/ \E tell \in BOOLEAN : FinishCommand(tell)
    \/ DropGuard

Handler == PollReload \/ MarkAllWrite \/ MarkAllFresh \/ Bump \/ MoveCursor

Tap ==
    \/ \E l \in Tapped :
          \/ \E A \in SUBSET Articles, s \in {"unread", "read"} : SetRead(l, A, s)
          \/ MarkAllRead(l)
          \/ RequestSync(l)
    \/ \E a \in Articles, s \in {"unread", "read"} : ArticleMark(a, s)
    \/ FeedMarkRead

Look ==
    \/ \E l \in Lists : PollSync(l) \/ LoadMore(l)
    \/ \E l \in Browse, s \in Scopes : SetScope(l, s)

Next == WorkerNext \/ Handler \/ Tap \/ Look

Spec == Init /\ [][Next]_vars

(* The worker finishes its command, a handler that runs returns, and the   *)
(* timer polls every list (the app is in front).                           *)
LiveSpec ==
    /\ Spec
    /\ WF_vars(\E tell \in BOOLEAN : FinishCommand(tell)) /\ WF_vars(DropGuard)
    /\ WF_vars(Handler)
    /\ \A l \in Lists : WF_vars(PollSync(l))

------------------------------------------------------------------------------
(* Properties. *)

(* A list shows the mirror: every row in its present state, and every      *)
(* matching article on screen or behind "load more".                       *)
Current(l) ==
    /\ \A a \in Shown(l) : rows[l][a] = mirror[a]
    /\ Matching(scope[l]) \subseteq Shown(l) \/ hasMore[l]
    /\ seenEpoch[l] = epoch

(* Every counted change and every tap is still owed a bump by somebody     *)
(* until it has been told (CommandGuard::drop, announce_local_change): no  *)
(* interleaving of the two threads leaves one untold.                      *)
NothingUntold ==
    unsaid => (work # "idle" /\ counted) \/ at \in {"fresh", "bump"}

(* pollSync's early return is sound for the lists the reader is not        *)
(* tapping: a list that looked at the present generation shows the mirror  *)
(* and has followed the last refresh, unless a change nobody announces has *)
(* come since.                                                             *)
CaughtUpIsCurrent ==
    \A l \in Lists \ Tapped :
        (seen[l] = generation /\ ~(at = "reload" /\ who = l) /\ ~unsaid /\ ~quiet)
            => Current(l)

(* Rows do not jump under the thumb (reload): a row leaves the screen only *)
(* when the mirror lost its article, or when its list starts over: a       *)
(* refresh asked for anywhere, another scope, or "mark all as read" here.  *)
RowsStay ==
    [][\A l \in Lists, a \in Articles :
          (rows[l][a] # "absent" /\ rows'[l][a] = "absent")
              => \/ mirror[a] = "absent"
                 \/ epoch' # seenEpoch[l]
                 \/ scope'[l] # scope[l]
                 \/ at = "fresh" /\ who = l]_vars

(* Once taps and syncs stop, every list the reader was not tapping comes   *)
(* to show the mirror for good, whatever the order of polls and bumps.     *)
EveryListHears ==
    \A l \in Lists \ Tapped : <>[](quiet \/ Current(l))

=============================================================================
