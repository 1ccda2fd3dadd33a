------------------------------ MODULE Arrivals ------------------------------
(***************************************************************************)
(* The new-articles notification: the arrived flag a pull sets in the      *)
(* mirror, the Announcer that remembers what the notification says, and    *)
(* the root window that asks for a review when a poll saw the mirror move  *)
(* and whenever the app comes to the front or leaves it.                   *)
(*                                                                         *)
(* The worker commits between any two accesses of the Qt thread to the     *)
(* mirror.  Abstracted: titles and wording; when an article was created    *)
(* matters only against the cursor.  The home screen (lipstick) reports a  *)
(* close at once.  A refresh asked for during a pass is taken as asked     *)
(* after it.  `told', `repeat', `flags' and `lost' are history variables.  *)
(***************************************************************************)
EXTENDS Naturals, FiniteSets

CONSTANTS
    Articles,    \* what the server may come to hold
    Undated,     \* those it sends without a created_at
    Hideable,    \* those whose feeds may be hidden globally
    MaxEvents    \* bound: what the server, the worker and the user do

ASSUME ArrivalsAssumption ==
    /\ IsFiniteSet(Articles)
    /\ Undated \subseteq Articles /\ Hideable \subseteq Articles
    /\ MaxEvents \in Nat

States == {"absent", "unread", "read"}

VARIABLES
    \* the server and the worker
    created,    \* the articles the server has
    known,      \* those created before the mirror's cursor
    synced,     \* the mirror has a cursor
    pass,       \* "idle", "pull", "prune", and with the flag lowered "bump"
    window,     \* the articles that existed when the pass was answered first
    tell,       \* the guard will bump
    \* the mirror
    status,     \* [Articles -> States]
    arrived,    \* the entries flagged arrived = 1
    gone,       \* what it held and lost
    hidden,     \* the articles of feeds hidden globally; they stay so
    \* the Qt thread
    moved,      \* the generation is not the one the lists last looked at
    active,     \* Qt.application.active
    enabled,    \* accountSettings.notifyNewArticles
    timed,      \* a sync interval is set, not "Manual only"; it stays so
    watching,   \* _watchingCoverRefresh
    at,         \* which access of announceArrivals comes next
    found,      \* the arrivals it read
    showing,    \* Announcer.showing
    unread,     \* Announcer.unread
    home,       \* what the notification on the home screen says
    \* history
    flags,      \* [Articles -> Nat]: how often an article was flagged ...
    lost,       \* ... and lost when nothing would tell its return from news
    told,       \* announced while unread, and not read since
    repeat,     \* a banner popped up for nothing new
    events

worker == <<created, known, synced, pass, window, tell>>
mirror == <<status, arrived, gone, hidden>>
screen == <<at, found, showing, unread, home>>
timer == <<timed, watching>>
counted == <<flags, lost>>
history == <<told, repeat>>
vars == <<worker, mirror, counted, moved, active, enabled, timer, screen, history, events>>

Nothing == [ids |-> {}, total |-> 0]

TypeOK ==
    /\ created \in SUBSET Articles /\ known \in SUBSET created
    /\ window \in SUBSET created
    /\ synced \in BOOLEAN /\ tell \in BOOLEAN
    /\ pass \in {"idle", "pull", "prune", "bump"}
    /\ status \in [Articles -> States]
    /\ arrived \in SUBSET {a \in Articles : status[a] # "absent"}
    /\ gone \in SUBSET Articles /\ hidden \in SUBSET Articles
    /\ moved \in BOOLEAN /\ active \in BOOLEAN /\ enabled \in BOOLEAN
    /\ timed \in BOOLEAN /\ watching \in BOOLEAN
    /\ at \in {"idle", "review", "acknowledge", "count"}
    /\ found \in SUBSET Articles /\ showing \in SUBSET Articles
    /\ unread \in Nat
    /\ home \in [ids : SUBSET Articles, total : Nat]
    /\ flags \in [Articles -> Nat] /\ lost \in [Articles -> Nat]
    /\ told \in SUBSET Articles /\ repeat \in BOOLEAN
    /\ events \in 0..MaxEvents

Event == events < MaxEvents /\ events' = events + 1

------------------------------------------------------------------------------
(* The pull. *)

Create(a) ==
    /\ Event
    /\ a \notin created
    /\ created' = created \union {a}
    /\ UNCHANGED <<known, synced, pass, window, tell, mirror, counted, moved,
                   active, enabled, timer, screen, history>>

(* What a due sync and a refresh have in common. *)
StartPass ==
    /\ pass = "idle"
    /\ pass' = "pull" /\ window' = created /\ tell' = FALSE
    /\ UNCHANGED <<created, known, synced>>

(* The sync interval has passed. *)
SyncDue ==
    /\ timed
    /\ StartPass
    /\ UNCHANGED <<mirror, counted, moved, active, enabled, timer, screen,
                   history, events>>

(* requestSync, in front or from the cover, whose poll is then kept up; it *)
(* bumps for the lists to start over.                                      *)
Refresh ==
    /\ at = "idle"
    /\ StartPass
    /\ watching' = (watching \/ ~active)
    /\ moved' = TRUE
    /\ UNCHANGED <<mirror, counted, active, enabled, timed, screen, history,
                   events>>

\* Mutant: whatever is inserted is new.
ArrivalForInsert(a) == TRUE

(* arrival_for: not in the mirror's first pass, and not an entry created   *)
(* before the window, if it says when it was created.                      *)
ArrivalFor(a) == synced /\ (a \in Undated \/ a \notin known)

(* upsert_entry, the INSERT half. *)
Insert(a, s) ==
    LET news == ArrivalFor(a) /\ s = "unread"
    IN  /\ pass = "pull"
        /\ a \in created /\ status[a] = "absent"
        /\ a \in known => a \in gone
        /\ status' = [status EXCEPT ![a] = s]
        /\ arrived' = IF news THEN arrived \union {a} ELSE arrived
        /\ flags' = IF news THEN [flags EXCEPT ![a] = @ + 1] ELSE flags
        /\ UNCHANGED lost
        /\ gone' = gone \ {a}
        /\ tell' = TRUE
        /\ UNCHANGED <<created, known, synced, pass, window, hidden, moved,
                       active, enabled, timer, screen, history,
                       events>>

(* upsert_entry, the DO UPDATE half, which leaves the flag alone: another  *)
(* client read the article, or marked it unread again.                     *)
Update(a, s) ==
    /\ pass = "pull"
    /\ Event
    /\ status[a] \notin {"absent", s}
    /\ status' = [status EXCEPT ![a] = s]
    /\ told' = told \ {a}
    /\ tell' = TRUE
    /\ UNCHANGED <<created, known, synced, pass, window, arrived, gone,
                   hidden, counted, moved, active, enabled, timer,
                   screen, repeat>>

(* The whole window is in the mirror. *)
EndPull ==
    /\ pass = "pull"
    /\ \A a \in window : status[a] # "absent" \/ a \in gone
    /\ pass' = "prune"
    /\ UNCHANGED <<created, known, synced, window, tell, mirror, counted,
                   moved, active, enabled, timer, screen, history,
                   events>>

(* prune_entries: a read article published long ago, which the server may  *)
(* have stored only now.                                                   *)
Prune(a) ==
    /\ pass = "prune"
    /\ Event
    /\ status[a] = "read"
    /\ status' = [status EXCEPT ![a] = "absent"]
    /\ arrived' = arrived \ {a}
    /\ gone' = gone \union {a}
    /\ lost' = IF a \in known \ Undated THEN lost ELSE [lost EXCEPT ![a] = @ + 1]
    /\ UNCHANGED <<worker, flags, hidden, moved, active, enabled, timer, screen,
                   history>>

(* The cursor moves, up to its skew, and CommandGuard::drop lowers the     *)
(* flag ...                                                                *)
FinishPass(K) ==
    /\ pass = "prune"
    /\ known \subseteq K /\ K \subseteq window
    /\ known' = K /\ synced' = TRUE
    /\ pass' = "bump" /\ window' = {}
    /\ UNCHANGED <<created, tell, mirror, counted, moved, active, enabled,
                   timer, screen, history, events>>

FailPass ==
    /\ pass \in {"pull", "prune"}
    /\ Event
    /\ pass' = "bump" /\ window' = {} /\ tell' = TRUE
    /\ UNCHANGED <<created, known, synced, mirror, counted, moved, active,
                   enabled, timer, screen, history>>

(* ... then the bump, if there is anything to tell.                        *)
Bump ==
    /\ pass = "bump"
    /\ pass' = "idle" /\ tell' = FALSE
    /\ moved' = (moved \/ tell)
    /\ UNCHANGED <<created, known, synced, window, mirror, counted, active,
                   enabled, timer, screen, history, events>>

(* SyncSignal.running *)
Running == pass \in {"pull", "prune"}

------------------------------------------------------------------------------
(* The Announcer. *)

Withdraw ==
    /\ showing' = {} /\ unread' = 0
    /\ home' = IF showing = {} THEN home ELSE Nothing

\* Mutant: the same number of articles is the same news.
MovedByCount(ids, total) == Cardinality(ids) # Cardinality(showing)

\* Mutant: only what is new, or gone, is worth an update.
MovedByIds(ids, total) ==
    ids \ showing # {} \/ Cardinality(ids) # Cardinality(showing)

\* Whether the notification that is up says something else.
Moved(ids, total) ==
    ids \ showing # {} \/ Cardinality(ids) # Cardinality(showing) \/ total # unread

\* Mutant: every update pops up.
IsNewsAlways(ids) == TRUE

IsNews(ids) == ids \ showing # {}

(* Announcer::review, and what announceArrivals publishes. *)
Announce(ids, total) ==
    /\ showing' = ids /\ unread' = total
    /\ home' = IF Moved(ids, total) THEN [ids |-> ids, total |-> total] ELSE home
    /\ told' = told \union {a \in ids : status[a] = "unread"}
    /\ repeat' = (repeat \/ (Moved(ids, total) /\ IsNews(ids) /\ ids \subseteq told))

------------------------------------------------------------------------------
(* The root window. *)

(* arrivals *)
Arrived == {a \in arrived \ hidden : status[a] = "unread"}

\* Mutant: hidden feeds are subtracted instead of left out.
UnreadCountLess ==
    Cardinality({a \in Articles \ hidden : status[a] = "unread"}) - Cardinality(hidden)

(* unread_count *)
UnreadCount == Cardinality({a \in Articles \ hidden : status[a] = "unread"})

(* mirrorPoll's running: on the way out the interval is read again, and    *)
(* "Manual only" stops the timer unless the cover's refresh is watched.    *)
TimerRuns == active \/ watching \/ timed

\* Mutant: only a reader in front is told.
TickInFront ==
    /\ at = "idle" /\ TimerRuns
    /\ moved
    /\ moved' = FALSE
    /\ at' = IF active THEN "review" ELSE "idle"
    /\ UNCHANGED <<worker, mirror, counted, active, enabled, timer, found,
                   showing, unread, home, history, events>>

(* mirrorPoll's tick, when a list saw the mirror move. *)
Tick ==
    /\ at = "idle" /\ TimerRuns
    /\ moved
    /\ moved' = FALSE
    /\ at' = "review"
    /\ UNCHANGED <<worker, mirror, counted, active, enabled, timer, found,
                   showing, unread, home, history, events>>

(* The end of a tick that found nothing, or has told what it found.  A     *)
(* bump between its poll and its look at the flag is one right after it.   *)
StopWatching ==
    /\ at = "idle" /\ watching
    /\ ~moved
    /\ ~Running
    /\ watching' = FALSE
    /\ UNCHANGED <<worker, mirror, counted, moved, active, enabled, timed,
                   screen, history, events>>

(* on_ActiveChanged: the lists are polled on the way in, and the arrivals  *)
(* reviewed both ways.                                                     *)
ActiveChanged ==
    /\ at = "idle"
    /\ Event
    /\ active' = ~active
    /\ moved' = IF active' THEN FALSE ELSE moved
    /\ at' = "review"
    /\ UNCHANGED <<worker, mirror, counted, enabled, timer, found, showing,
                   unread, home, history>>

(* The Settings switch; on_ActiveChanged re-reads it on the way out. *)
SetNotify ==
    /\ at = "idle"
    /\ active
    /\ Event
    /\ enabled' = ~enabled
    /\ UNCHANGED <<worker, mirror, counted, moved, active, timer, screen,
                   history>>

(* The reader, in front, reads an article. *)
MarkRead(a) ==
    /\ at = "idle"
    /\ active
    /\ Event
    /\ status[a] = "unread"
    /\ status' = [status EXCEPT ![a] = "read"]
    /\ told' = told \ {a}
    /\ moved' = TRUE
    /\ UNCHANGED <<worker, arrived, gone, hidden, counted, active, enabled,
                   timer, screen, repeat>>

(* review in front: acknowledge_everything looks before it writes. *)
ReviewInFront ==
    /\ at = "review"
    /\ active
    /\ IF arrived = {}
       THEN Withdraw /\ at' = "idle"
       ELSE at' = "acknowledge" /\ UNCHANGED <<showing, unread, home>>
    /\ UNCHANGED <<worker, mirror, counted, moved, active, enabled, timer,
                   found, history, events>>

AcknowledgeAll ==
    /\ at = "acknowledge"
    /\ arrived' = {}
    /\ Withdraw
    /\ at' = "idle"
    /\ UNCHANGED <<worker, status, gone, hidden, counted, moved, active,
                   enabled, timer, found, history, events>>

(* review with the switch off: taken down, and left flagged. *)
ReviewOff ==
    /\ at = "review"
    /\ ~active /\ ~enabled
    /\ Withdraw
    /\ at' = "idle"
    /\ UNCHANGED <<worker, mirror, counted, moved, active, enabled, timer,
                   found, history, events>>

ReviewArrivals ==
    /\ at = "review"
    /\ ~active /\ enabled
    /\ found' = Arrived
    /\ at' = "count"
    /\ UNCHANGED <<worker, mirror, counted, moved, active, enabled, timer,
                   showing, unread, home, history, events>>

ReviewCount ==
    /\ at = "count"
    /\ IF found = {}
       THEN Withdraw /\ UNCHANGED history
       ELSE Announce(found, UnreadCount)
    /\ found' = {}
    /\ at' = "idle"
    /\ UNCHANGED <<worker, mirror, counted, moved, active, enabled, timer,
                   events>>

\* Mutant: a dismissal is taken for having seen everything.
DismissedAll ==
    /\ at = "idle"
    /\ home.ids # {}
    /\ Event
    /\ arrived' = {}
    /\ showing' = {} /\ unread' = 0 /\ home' = Nothing
    /\ UNCHANGED <<worker, status, gone, hidden, counted, moved, active,
                   enabled, timer, at, found, history>>

(* onClosed: exactly the covered articles are acknowledged. *)
Dismissed ==
    /\ at = "idle"
    /\ home.ids # {}
    /\ Event
    /\ arrived' = arrived \ showing
    /\ showing' = {} /\ unread' = 0 /\ home' = Nothing
    /\ UNCHANGED <<worker, status, gone, hidden, counted, moved, active,
                   enabled, timer, at, found, history>>

------------------------------------------------------------------------------

Init ==
    /\ created = {} /\ known = {} /\ window = {}
    /\ synced \in BOOLEAN
    /\ pass = "idle" /\ tell = FALSE
    /\ status = [a \in Articles |-> "absent"]
    /\ arrived = {} /\ gone = {} /\ hidden \in SUBSET Hideable
    /\ moved = FALSE /\ active = TRUE /\ enabled \in BOOLEAN
    /\ timed \in BOOLEAN /\ watching = FALSE
    /\ at = "idle" /\ found = {} /\ showing = {} /\ unread = 0
    /\ home = Nothing
    /\ flags = [a \in Articles |-> 0] /\ lost = [a \in Articles |-> 0]
    /\ told = {} /\ repeat = FALSE
    /\ events = 0

Pull ==
    \/ \E a \in Articles, s \in {"unread", "read"} : Insert(a, s) \/ Update(a, s)
    \/ \E a \in Articles : Create(a) \/ Prune(a)
    \/ SyncDue \/ EndPull \/ FailPass \/ Bump
    \/ \E K \in SUBSET Articles : FinishPass(K)

Review == ReviewInFront \/ AcknowledgeAll \/ ReviewOff \/ ReviewArrivals \/ ReviewCount

Timer == Tick \/ StopWatching

Reader ==
    \/ Refresh \/ ActiveChanged \/ SetNotify \/ Dismissed
    \/ \E a \in Articles : MarkRead(a)

Next == Pull \/ Review \/ Timer \/ Reader

Spec == Init /\ [][Next]_vars

(* A pass ends one way or the other, a handler that runs returns, and the  *)
(* timer ticks while it runs (TimerRuns).                                  *)
LiveSpec ==
    /\ Spec
    /\ WF_vars(\E a \in Articles : Insert(a, "unread"))
    /\ WF_vars(EndPull) /\ WF_vars(\E K \in SUBSET Articles : FinishPass(K))
    /\ WF_vars(Bump)
    /\ WF_vars(Review) /\ WF_vars(Tick)

------------------------------------------------------------------------------
(* Properties. *)

(* The notification says what the Announcer believes it says, whatever was *)
(* published, left alone or withdrawn since (Announcer::review compares    *)
(* counts, not sets): a dismissal acknowledges what the reader saw.        *)
HomeAgrees == at = "idle" => home = [ids |-> showing, total |-> unread]

(* Between reviews the notification is what the mirror says: nothing while *)
(* Vuo is in front or the switch is off, and once the last bump was seen   *)
(* exactly the arrivals and the unread total of that mirror, whatever was  *)
(* written while the review read the one and then the other.               *)
HomeIsCurrent ==
    at = "idle" /\ (active \/ (~moved /\ ~tell)) =>
        home = IF active \/ ~enabled \/ Arrived = {}
               THEN Nothing
               ELSE [ids |-> Arrived, total |-> UnreadCount]

(* A banner is for news: it never pops up over articles that were all      *)
(* announced before and not read since (notify.rs).                        *)
BannerIsNews == ~repeat

(* An article is new once: neither a failed pass, nor pruning and its      *)
(* return, flags it again (arrival_for, upsert_entry), unless retention    *)
(* took it while the cursor's overlap still held it, or the server never   *)
(* says when it was created.                                               *)
NewOnce == \A a \in Articles : flags[a] <= 1 + lost[a]

(* An article stops being new only because the reader has Vuo in front, or *)
(* dismissed a notification that covered it, or it left the mirror.        *)
AcknowledgedBySight ==
    [][\A a \in arrived \ arrived' :
          active \/ a \in home.ids \/ status'[a] = "absent"]_vars

(* With the switch on, a sync interval and Vuo not in front, what arrives  *)
(* is announced unless it is read, or the reader comes, first.             *)
AnnouncedInTheEnd ==
    \A a \in Articles :
        (a \in Arrived /\ ~active /\ enabled /\ timed)
            ~> (a \in home.ids \/ a \notin Arrived \/ active)

=============================================================================
