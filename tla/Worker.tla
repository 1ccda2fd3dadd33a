------------------------------- MODULE Worker -------------------------------
(***************************************************************************)
(* The worker thread's loop (vuo-shim, worker.rs) and what it shares with  *)
(* the Qt thread: a command channel, two deadlines and the spinner flag    *)
(* (context.rs, SyncSignal; models.rs, requestSync and pollSync; the poll  *)
(* timer of harbour-vuo.qml).                                              *)
(*                                                                         *)
(* Covered: commands that arrive at any point of one being served, the     *)
(* coalesced flush, the interval sync, networks the user keeps automatic   *)
(* work off, accounts that cannot be opened, minimising, stopping and      *)
(* being killed.  Abstracted: time is a tick, and both deadlines count     *)
(* down; the stamp of the last sync is any remainder of the interval; of   *)
(* the outbox only whether it holds something, and something no flush has  *)
(* read yet; what a command does to the mirror (see Outbox, Pull,          *)
(* Reconcile).  The worker's reads of the mirror succeed.                  *)
(***************************************************************************)
EXTENDS Integers, Sequences

CONSTANTS
    Debounce,     \* FLUSH_DEBOUNCE, in ticks
    AfterStart,   \* FLUSH_AFTER_START
    Soon,         \* the shortest wait for an automatic sync
    Interval,     \* the sync interval
    Manual,       \* whether the user may choose "Manual only"
    Unusable,     \* whether a mirror may fail to open, or a transport to be built
    None,         \* no deadline, no command, no age
    MaxGestures,  \* bound: what the user does
    MaxLaunches   \* bound: how often the app is started again

ASSUME ConstantsAssumption ==
    /\ {Debounce, AfterStart, Soon, Interval, MaxGestures, MaxLaunches} \subseteq Nat
    /\ AfterStart <= Debounce /\ Soon <= Interval
    /\ {Manual, Unusable} \subseteq BOOLEAN
    /\ None \notin Nat

Command(name, arg) == [do |-> name, arg |-> arg]
Ask(name) == Command(name, FALSE)

\* Commands that need an account.  "Other" stands for Unsubscribe, UpdateFeed,
\* FetchOriginal and TestConnection, which touch nothing modelled here.
Served == {"Sync", "Subscribe", "Other"}
Names == Served \cup {"FlushOutbox", "Configure", "SetSyncInterval", "SetWifiOnly", "Shutdown"}

VARIABLES
    \* the Qt thread
    ui,         \* where its handler stands
    active,     \* whether the app is in front
    watching,   \* _watchingCoverRefresh
    told,       \* seen_running
    shown,      \* the spinner on the screen
    account,    \* the account file: [timed, wifiOnly]
    \* shared
    queue,      \* the command channel
    running,    \* SyncSignal.running
    outbox,     \* empty, tried (some flush has read all of it) or untried
    \* the worker
    pc,         \* waiting, serving, clearing (CommandGuard::drop), stopped
    command,    \* the command being served
    client,     \* whether it has a client for the account's server ...
    db,         \* ... and its mirror open
    timed,      \* interval: TRUE, or "Manual only"
    wifiOnly,
    nextSync,   \* the deadlines: ticks to go, or None
    flushDue,
    \* the environment
    network,    \* wifi (or unknown), metered, offline
    \* history and bounds
    age,        \* ticks an idle worker has let the oldest untried intent wait, or None
    gestures, launches

screen == <<active, watching, told, shown>>
deadlines == <<nextSync, flushDue>>
settings == <<timed, wifiOnly>>
opened == <<client, db>>
worker == <<pc, command, opened, settings, deadlines>>
bounds == <<gestures, launches>>
vars == <<ui, screen, account, queue, running, outbox, worker, network, age, bounds>>

Timings == IF Manual THEN BOOLEAN ELSE {TRUE}
Opens == IF Unusable THEN BOOLEAN ELSE {TRUE}

\* What an account sends to the worker when its context is built.
AccountCommands(a) ==
    <<Ask("Configure"), Command("SetSyncInterval", a.timed), Command("SetWifiOnly", a.wifiOnly)>>

Init ==
    /\ account \in [timed : Timings, wifiOnly : BOOLEAN]
    /\ outbox \in {"empty", "untried"}
    /\ network \in {"wifi", "metered", "offline"}
    /\ ui = "idle"
    /\ active = TRUE /\ watching = FALSE /\ told = FALSE /\ shown = FALSE
    /\ queue = AccountCommands(account)
    /\ running = FALSE
    /\ pc = "waiting" /\ command = None /\ client = FALSE /\ db = FALSE
    /\ timed = FALSE /\ wifiOnly = FALSE
    /\ nextSync = None /\ flushDue = None
    /\ age = None
    /\ gestures = 0 /\ launches = 0

(***************************************************************************)
(* The Qt thread.                                                          *)
(***************************************************************************)

Gesture ==
    /\ ui = "idle"
    /\ gestures < MaxGestures
    /\ gestures' = gestures + 1
    /\ UNCHANGED launches

\* setRead and its like: the intent is written ...
Tap ==
    /\ Gesture
    /\ active
    /\ outbox' = "untried"
    /\ age' = IF outbox = "untried" /\ age # None THEN age ELSE 0
    /\ ui' = "tapped"
    /\ UNCHANGED <<screen, account, queue, running, worker, network>>

\* ... and a flush asked for.
SendFlush ==
    /\ ui = "tapped"
    /\ queue' = Append(queue, Ask("FlushOutbox"))
    /\ ui' = "idle"
    /\ UNCHANGED <<screen, account, running, outbox, worker, network, age, bounds>>

AskOther(name) ==
    /\ Gesture
    /\ active
    /\ queue' = Append(queue, Ask(name))
    /\ UNCHANGED <<ui, screen, account, running, outbox, worker, network, age>>

\* requestSync, from a list or from the cover: raise the flag ...
RequestSync ==
    /\ Gesture
    /\ running' = TRUE
    /\ ui' = "raised"
    /\ UNCHANGED <<screen, account, queue, outbox, worker, network, age>>

\* ... then send ...
SendSync ==
    /\ ui = "raised"
    /\ queue' = Append(queue, Ask("Sync"))
    /\ ui' = "sent"
    /\ UNCHANGED <<screen, account, running, outbox, worker, network, age, bounds>>

\* Mutant: QML is told, and nobody remembers that it was.
RecordSpinnerUntold ==
    /\ ui = "sent"
    /\ shown' = running
    /\ watching' = (watching \/ ~active)
    /\ ui' = "idle"
    /\ UNCHANGED <<active, told, account, queue, running, outbox, worker, network, age, bounds>>

\* ... then record what QML is told.  A refresh asked for on the cover keeps the
\* fast poll going.
RecordSpinner ==
    /\ ui = "sent"
    /\ told' = running
    /\ shown' = running
    /\ watching' = (watching \/ ~active)
    /\ ui' = "idle"
    /\ UNCHANGED <<active, account, queue, running, outbox, worker, network, age, bounds>>

\* Settings::store: the file first ...
SaveSettings(a, newAccount) ==
    /\ Gesture
    /\ active
    /\ account' = a
    /\ ui' = IF newAccount THEN "handingOver" ELSE "publishing"
    /\ UNCHANGED <<screen, queue, running, outbox, worker, network, age>>

\* Mutant: a new account is opened under the settings of the old one.
PublishSettingsOnce ==
    LET commands == AccountCommands(account)
    IN  /\ ui \in {"publishing", "handingOver"}
        /\ queue' = queue \o IF ui = "publishing" THEN Tail(commands) ELSE <<Head(commands)>>
        /\ ui' = "idle"
        /\ UNCHANGED <<screen, account, running, outbox, worker, network, age, bounds>>

\* ... then the worker: all of the account when its server or key changed and its
\* context could be rebuilt (the worker then hears the settings twice, to no effect).
PublishSettings ==
    LET commands == AccountCommands(account)
    IN  /\ ui \in {"publishing", "handingOver"}
        /\ queue' = queue \o IF ui = "publishing" THEN Tail(commands) ELSE commands
        /\ ui' = "idle"
        /\ UNCHANGED <<screen, account, running, outbox, worker, network, age, bounds>>

\* pollSync's transition test: QML re-reads the flag only when told that it changed.
SeeSpinner ==
    /\ told' = running
    /\ shown' = IF running # told THEN running ELSE shown

\* The poll timer runs in front, for a refresh from the cover, and at a quarter of
\* the interval, which "Manual only" does not have.
Polling == active \/ watching \/ account.timed

Poll ==
    /\ ui = "idle"
    /\ Polling
    /\ SeeSpinner
    /\ ui' = IF watching THEN "polled" ELSE ui
    /\ UNCHANGED <<active, watching, account, queue, running, outbox, worker, network, age, bounds>>

\* onTriggered goes on: a cover refresh that has ended needs no watching.
StopWatching ==
    /\ ui = "polled"
    /\ watching' = running
    /\ ui' = "idle"
    /\ UNCHANGED <<active, told, shown, account, queue, running, outbox, worker, network, age, bounds>>

Minimise ==
    /\ ui = "idle"
    /\ active
    /\ active' = FALSE
    /\ UNCHANGED <<ui, watching, told, shown, account, queue, running, outbox, worker, network, age, bounds>>

\* on_ActiveChanged polls once on the way in.
Activate ==
    /\ ui = "idle"
    /\ ~active
    /\ active' = TRUE
    /\ SeeSpinner
    /\ UNCHANGED <<ui, watching, account, queue, running, outbox, worker, network, age, bounds>>

\* Worker::drop: ask the thread to stop and join it.
Quit ==
    /\ ui = "idle"
    /\ queue' = Append(queue, Ask("Shutdown"))
    /\ ui' = "joining"
    /\ UNCHANGED <<screen, account, running, outbox, worker, network, age, bounds>>

Joined ==
    /\ ui = "joining"
    /\ pc = "stopped"
    /\ ui' = "gone"
    /\ UNCHANGED <<screen, account, queue, running, outbox, worker, network, age, bounds>>

\* The process dies ...
Kill ==
    /\ ui \notin {"gone"}
    /\ ui' = "gone"
    /\ pc' = "stopped"
    /\ UNCHANGED <<screen, account, queue, running, outbox, command, opened, settings, deadlines, network, age, bounds>>

\* ... and is started again.
Launch ==
    /\ ui = "gone"
    /\ launches < MaxLaunches
    /\ launches' = launches + 1
    /\ ui' = "idle"
    /\ active' = TRUE /\ watching' = FALSE /\ told' = FALSE /\ shown' = FALSE
    /\ queue' = AccountCommands(account)
    /\ running' = FALSE
    /\ pc' = "waiting" /\ command' = None /\ client' = FALSE /\ db' = FALSE
    /\ timed' = FALSE /\ wifiOnly' = FALSE
    /\ nextSync' = None /\ flushDue' = None
    /\ age' = None
    /\ UNCHANGED <<account, outbox, network, gestures>>

(***************************************************************************)
(* The worker.                                                             *)
(***************************************************************************)

\* Mutant: every request for a flush pushes the flush back.
ArmFlushRestarts == Debounce

\* arm_flush: the first request sets the deadline, later ones leave it.
ArmFlush == IF flushDue = None THEN Debounce ELSE flushDue

\* next_interval_after.
NextInterval == IF timed THEN Interval ELSE None

\* Mutant: an overdue sync keeps its negative remainder.
NextSyncDelaysUnfloored(t) == IF t THEN (-1)..Interval ELSE {None}

\* next_sync_delay: what is left of the interval since the last sync, but not less
\* than a short pause.
NextSyncDelays(t) == IF t THEN Soon..Interval ELSE {None}

\* The head of the channel is a command named so.
Taking(names) ==
    /\ pc = "waiting"
    /\ queue # <<>>
    /\ Head(queue).do \in names
    /\ queue' = Tail(queue)

\* A flush the UI asks for is only scheduled, account or not.
TakeFlush ==
    /\ Taking({"FlushOutbox"})
    /\ flushDue' = ArmFlush
    /\ UNCHANGED <<ui, screen, account, running, outbox, pc, command, opened, settings, nextSync, network, age, bounds>>

\* Shutdown: whatever is queued behind it is dropped, and the spinner lowered.
TakeShutdown ==
    /\ pc = "waiting"
    /\ queue # <<>> /\ Head(queue).do = "Shutdown"
    /\ queue' = <<>>
    /\ running' = FALSE
    /\ pc' = "stopped"
    /\ UNCHANGED <<ui, screen, account, outbox, command, opened, settings, deadlines, network, age, bounds>>

\* Configure: an account replaces the last one, whether or not its mirror opens and
\* its transport can be built; what the mirror still holds for the server is sent
\* soon.
TakeConfigure ==
    /\ Taking({"Configure"})
    /\ client' \in Opens /\ db' \in Opens
    /\ nextSync' \in NextSyncDelays(timed)
    /\ flushDue' = IF db' /\ outbox # "empty" THEN AfterStart ELSE None
    /\ age' = IF outbox = "untried" THEN 0 ELSE None
    /\ UNCHANGED <<ui, screen, account, running, outbox, pc, command, settings, network, bounds>>

TakeInterval ==
    /\ Taking({"SetSyncInterval"})
    /\ timed' = Head(queue).arg
    /\ nextSync' \in NextSyncDelays(timed')
    /\ UNCHANGED <<ui, screen, account, running, outbox, pc, command, opened, wifiOnly, flushDue, network, age, bounds>>

TakeWifiOnly ==
    /\ Taking({"SetWifiOnly"})
    /\ wifiOnly' = Head(queue).arg
    /\ UNCHANGED <<ui, screen, account, running, outbox, pc, command, opened, timed, deadlines, network, age, bounds>>

\* What a command, or work that falls due, is served with.
HasAccount == client /\ db

\* "No account is configured; dropping the command": before any guard is made.
DropCommand ==
    /\ Taking(Served)
    /\ ~HasAccount
    /\ UNCHANGED <<ui, screen, account, running, outbox, worker, network, age, bounds>>

\* A flush reads every intent there is.
ReadOutbox ==
    /\ outbox' = IF outbox = "untried" THEN "tried" ELSE outbox
    /\ age' = None

Serve(name) ==
    /\ pc' = "serving"
    /\ command' = name
    /\ \/ name = "Other" /\ UNCHANGED <<outbox, age, flushDue>>
       \/ name = "Subscribe" /\ UNCHANGED <<outbox, age, flushDue>>
       \/ name \in {"Sync", "FlushOutbox"} /\ ReadOutbox /\ flushDue' = None

TakeServed ==
    /\ Taking(Served)
    /\ HasAccount
    /\ Serve(Head(queue).do)
    /\ UNCHANGED <<ui, screen, account, running, opened, settings, nextSync, network, bounds>>

\* A sync or a flush falls due: the wait asks for a client only.
Due == client /\ (nextSync = 0 \/ flushDue = 0)
DueWork == IF nextSync = 0 THEN "Sync" ELSE "FlushOutbox"

\* Network::allows.
Allows == network = "wifi" \/ (network = "metered" /\ ~wifiOnly)

FallingDue == pc = "waiting" /\ queue = <<>> /\ Due

\* Mutant: whatever network there is will do.
StartDueWorkAnywhere ==
    /\ FallingDue
    /\ db
    /\ network # "offline"
    /\ running' = (running \/ DueWork = "Sync")
    /\ Serve(DueWork)
    /\ UNCHANGED <<ui, screen, account, queue, opened, settings, nextSync, network, bounds>>

StartDueWork ==
    /\ FallingDue
    /\ Allows
    /\ db
    /\ running' = (running \/ DueWork = "Sync")
    /\ Serve(DueWork)
    /\ UNCHANGED <<ui, screen, account, queue, opened, settings, nextSync, network, bounds>>

\* Without its mirror the loop drops the work all the same: the flag of a sync is
\* up by then, and its deadline stays passed.
DropDueWork ==
    /\ FallingDue
    /\ Allows
    /\ ~db
    /\ running' = (running \/ DueWork = "Sync")
    /\ flushDue' = IF DueWork = "FlushOutbox" THEN None ELSE flushDue
    /\ UNCHANGED <<ui, screen, account, queue, outbox, pc, command, opened, settings, nextSync, network, age, bounds>>

\* Mutant: a sync the network turned away is not scheduled again.
PostponeDueWorkForGood ==
    /\ FallingDue
    /\ ~Allows
    /\ flushDue' = None
    /\ nextSync' = IF DueWork = "Sync" THEN None ELSE nextSync
    /\ age' = None
    /\ UNCHANGED <<ui, screen, account, queue, running, outbox, pc, command, opened, settings, network, bounds>>

\* Not on this network: the flush is left to the next one, the sync to its interval.
PostponeDueWork ==
    /\ FallingDue
    /\ ~Allows
    /\ flushDue' = None
    /\ nextSync' = IF DueWork = "Sync" THEN NextInterval ELSE nextSync
    /\ age' = None
    /\ UNCHANGED <<ui, screen, account, queue, running, outbox, pc, command, opened, settings, network, bounds>>

\* Subscribe, the server having taken it: a whole sync follows.
SyncSubscribed ==
    /\ pc = "serving"
    /\ command = "Subscribe"
    /\ command' = "Subscribed"
    /\ ReadOutbox
    /\ UNCHANGED <<ui, screen, account, queue, running, pc, opened, settings, deadlines, network, bounds>>

\* Mutant: a sync may return before its guard is made.
EndCommandUnguarded ==
    /\ pc = "serving"
    /\ pc' \in IF command = "Sync" THEN {"clearing", "waiting"} ELSE {"waiting"}
    /\ nextSync' = IF command = "Sync" THEN NextInterval ELSE nextSync
    /\ command' = None
    /\ UNCHANGED <<ui, screen, account, queue, running, outbox, opened, settings, flushDue, network, age, bounds>>

\* The command ends, well or not; what was flushed may have been delivered.
EndCommand ==
    /\ pc = "serving"
    /\ outbox' \in {outbox} \cup IF command # "Subscribe" /\ command # "Other" /\ outbox = "tried" THEN {"empty"} ELSE {}
    /\ \/ command = "Sync" /\ pc' = "clearing" /\ nextSync' = NextInterval
       \/ command # "Sync" /\ pc' = "waiting" /\ UNCHANGED nextSync
    /\ command' = None
    /\ UNCHANGED <<ui, screen, account, queue, running, opened, settings, flushDue, network, age, bounds>>

\* CommandGuard::drop.
ClearSpinner ==
    /\ pc = "clearing"
    /\ running' = FALSE
    /\ pc' = "waiting"
    /\ UNCHANGED <<ui, screen, account, queue, outbox, command, opened, settings, deadlines, network, age, bounds>>

(***************************************************************************)
(* The environment.                                                        *)
(***************************************************************************)

Less(deadline) == IF deadline \in {None, 0} THEN deadline ELSE deadline - 1

\* Time passes, but not between a command's arrival at an idle worker, or a
\* deadline, and what they wake the worker for, but for a worker without its mirror,
\* which finds a sync due again and again; nor while the Qt thread is in a handler or
\* the worker lowers the flag.
Tick ==
    /\ ui \in {"idle", "joining"}
    /\ pc # "clearing"
    /\ pc = "waiting" => queue = <<>> /\ ~(Due /\ db)
    /\ nextSync' = Less(nextSync)
    /\ flushDue' = Less(flushDue)
    /\ age' = IF age # None /\ HasAccount /\ pc = "waiting" THEN age + 1 ELSE age
    /\ UNCHANGED <<ui, screen, account, queue, running, outbox, pc, command, opened, settings, network, bounds>>

Roam(n) ==
    /\ network' = n
    /\ UNCHANGED <<ui, screen, account, queue, running, outbox, worker, age, bounds>>

-----------------------------------------------------------------------------

Handler ==
    \/ SendFlush
    \/ SendSync
    \/ RecordSpinner
    \/ PublishSettings
    \/ StopWatching
    \/ Joined

User ==
    \/ Tap
    \/ \E name \in Served \ {"Sync"} : AskOther(name)
    \/ RequestSync
    \/ \E a \in [timed : Timings, wifiOnly : BOOLEAN], new \in BOOLEAN : SaveSettings(a, new)
    \/ Minimise
    \/ Activate
    \/ Quit
    \/ Kill
    \/ Launch

Loop ==
    \/ TakeFlush
    \/ TakeShutdown
    \/ TakeConfigure
    \/ TakeInterval
    \/ TakeWifiOnly
    \/ DropCommand
    \/ TakeServed
    \/ StartDueWork
    \/ DropDueWork
    \/ PostponeDueWork
    \/ SyncSubscribed
    \/ EndCommand
    \/ ClearSpinner

Environment ==
    \/ Tick
    \/ \E n \in {"wifi", "metered", "offline"} : Roam(n)

Next == Handler \/ User \/ Poll \/ Loop \/ Environment

Spec == Init /\ [][Next]_vars

\* Handlers return, requests end, timers tick, the worker's thread is scheduled; and
\* polls come oftener than refreshes, so that they do not for ever miss the time
\* between two.  What the user does, the process dying and the network changing are
\* left open.
LiveSpec ==
    /\ Spec
    /\ WF_vars(Handler) /\ WF_vars(Loop) /\ WF_vars(Tick)
    /\ WF_vars(Poll) /\ SF_vars(Poll /\ ~running)

(***************************************************************************)
(* Properties.                                                             *)
(***************************************************************************)

FlagsOK ==
    /\ active \in BOOLEAN /\ watching \in BOOLEAN /\ told \in BOOLEAN /\ shown \in BOOLEAN
    /\ account \in [timed : BOOLEAN, wifiOnly : BOOLEAN]
    /\ running \in BOOLEAN /\ client \in BOOLEAN /\ db \in BOOLEAN /\ timed \in BOOLEAN /\ wifiOnly \in BOOLEAN

StateOK ==
    /\ ui \in {"idle", "tapped", "raised", "sent", "publishing", "handingOver", "polled", "joining", "gone"}
    /\ queue \in Seq([do : Names, arg : BOOLEAN])
    /\ outbox \in {"empty", "tried", "untried"}
    /\ pc \in {"waiting", "serving", "clearing", "stopped"}
    /\ command \in Served \cup {"FlushOutbox", "Subscribed", None}
    /\ nextSync \in Nat \cup {None} /\ flushDue \in Nat \cup {None} /\ age \in Nat \cup {None}
    /\ network \in {"wifi", "metered", "offline"}
    /\ gestures \in Nat /\ launches \in Nat

\* The deadlines are never behind the clock, whatever stamp the last sync left
\* (next_sync_delay), and the flags stay flags.
TypeOK == FlagsOK /\ StateOK

\* "Intent never delayed more than this however steadily reader taps"
\* (FLUSH_DEBOUNCE): an idle worker lets no intent wait longer, unless the network
\* keeps it from sending.  However commands, deadlines and syncs interleave, no
\* request for a flush is forgotten.
PromptFlush == age # None => age <= Debounce

\* "Metered: nothing automatic goes out" (Network::allows): from the moment the
\* setting has been published, in whatever order it, an account and the work that
\* falls due reach the worker.
WifiOnlyKept ==
    [][pc = "waiting" /\ pc' = "serving" /\ queue' = queue /\ account.wifiOnly
            /\ ui \notin {"publishing", "handingOver", "gone"}
        => network = "wifi"]_vars

\* Settings::store, next_interval_after, next_sync_delay: whenever everything
\* published has been taken, the worker goes by the account file, and at all times
\* it has a sync ahead of it if and only if it has an interval, whatever was
\* postponed, finished or set in between.
GoesByTheFile ==
    /\ timed <=> nextSync # None
    /\ queue = <<>> /\ pc # "stopped" /\ ui \notin {"publishing", "handingOver"}
        => timed = account.timed /\ wifiOnly = account.wifiOnly

\* Whoever has to see to it that the flag is lowered: the handler that raised it, a
\* command in the channel, the sync being served, its guard, the worker's end.
Owner ==
    \/ ui = "raised"
    \/ \E i \in 1..Len(queue) : queue[i].do \in {"Sync", "Shutdown"}
    \/ pc = "serving" /\ command = "Sync"
    \/ pc \in {"clearing", "stopped"}

Owned == running => Owner

\* A refresh is about to be dropped for want of an account, or a sync that fell due
\* for want of a mirror.
DropsSync ==
    /\ pc = "waiting" /\ ~HasAccount
    /\ \/ queue # <<>> /\ Head(queue).do = "Sync"
       \/ queue = <<>> /\ client /\ nextSync = 0 /\ Allows

\* CommandGuard, requestSync, Shutdown: the duty to lower the flag is handed from
\* one to the next and never lost, whichever refreshes, syncs and stops cross, but
\* where a worker without an account drops a refresh, or one without a mirror the
\* sync that fell due ("dropping the command", worker.rs).
SpinnerHandedOn == [][Owned => Owned' \/ DropsSync]_vars

\* "Goes on next Wi-Fi or manual refresh" (Network::allows): once the network allows
\* it and goes on doing so, a flush reads every intent.
GoesOnNextWifi ==
    <>[](Allows /\ HasAccount /\ pc # "stopped") => (outbox = "untried" ~> outbox # "untried")

\* The spinner a refresh raised comes down again, whatever becomes of the refresh
\* (CommandGuard; requestSync, "else spinner never stops"; pollSync).
SpinnerEnds == shown ~> (~shown \/ ui = "gone")

=============================================================================
