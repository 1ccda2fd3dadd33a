------------------------------- MODULE Outbox -------------------------------
(***************************************************************************)
(* The offline write path of Vuo: the outbox table, the flush that replays *)
(* it against Miniflux, and the page merge that must not undo what is      *)
(* still queued.                                                           *)
(*                                                                         *)
(* Three actors interleave.  The Qt thread writes an intent and the local  *)
(* column in one transaction, at any moment.  The worker thread runs one   *)
(* command at a time and never holds a transaction across a request, so    *)
(* every request is a window in which the user can tap again.  The server  *)
(* applies requests, is written by other clients, loses entries and is     *)
(* upgraded.                                                               *)
(*                                                                         *)
(* Covered: lost and ambiguous answers, requests that outlive the client's *)
(* patience, refusals of every class, a kill at any point, entries that    *)
(* disappear, servers older than the write floor.  Abstracted: queued_at   *)
(* (which intents share a chunk is left open), last_error, and every       *)
(* column of an entry but status and starred.                              *)
(***************************************************************************)
EXTENDS Errors, FiniteSets, FiniteSetsExt

CONSTANTS
    Entries,      \* entry ids
    Fields,       \* the fields an intent can concern: status, starred
    Values,       \* their values; a key uses two of them
    Read,         \* the value "mark all read" asks for
    None,         \* no row, no value
    MaxBatch,     \* MAX_IDS_PER_REQUEST
    Lingers,      \* whether a request the client gave up on may be applied later
    MaxAttempts,  \* bound: attempts saturates here
    MaxGestures,  \* bound: what the user does
    MaxOthers,    \* bound: writes of other clients
    MaxKills      \* bound: how often the process dies

ASSUME ConstantsAssumption ==
    /\ "status" \in Fields
    /\ Read \in Values
    /\ None \notin Values
    /\ MaxBatch \in Nat \ {0}
    /\ Lingers \in BOOLEAN
    /\ {MaxAttempts, MaxGestures, MaxOthers, MaxKills} \subseteq Nat

Keys == Entries \X Fields
KeysOf(E) == E \X Fields
StatusOf(E) == E \X {"status"}

Row == [value : Values, attempts : 0..MaxAttempts]
NoRow == [value |-> None, attempts |-> 0]
Request == [keys : SUBSET Keys, value : Values]

VARIABLES
    \* the mirror, a SQLite file shared by the Qt thread and the worker
    outbox,     \* [Keys -> Row or NoRow]: the outbox table
    mirror,     \* [Keys -> Values]: the status and starred columns
    held,       \* the entries the mirror holds
    \* the worker
    pc,         \* where its pass stands
    todo,       \* the intents this flush read and has not settled, by value
    batch,      \* the keys of the request in flight
    page,       \* the fetched page: a value per key, None outside it
    known,      \* the client's cached version: unknown, below or met the floor
    \* the server and the network
    server,     \* [Keys -> Values]
    live,       \* the entries the server has
    floorMet,   \* whether it applies absolute entry-state writes (2.3.2+)
    late,       \* requests still travelling after the client gave up on them
    \* history, never read by a guard of the program
    intent,     \* the user's latest intent that nobody refused
    accepted,   \* the value the server last took from a request of this device
    foreign,    \* keys written since by somebody else, or by a late request
    retoggled,  \* keys the user changed after the flush read them, before it settled them
    stale,      \* keys written elsewhere, or given up, since the last page about them
    \* bounds
    gestures, others, kills

mirrorVars == <<outbox, mirror, held>>
flushVars == <<todo, batch>>
serverVars == <<server, live, floorMet, late>>
history == <<intent, accepted, foreign, retoggled, stale>>
bounds == <<gestures, others, kills>>
vars == <<mirrorVars, pc, flushVars, page, known, serverVars, history, bounds>>

NoPage == [k \in Keys |-> None]
NothingToDo == [k \in Keys |-> None]

Init ==
    /\ outbox = [k \in Keys |-> NoRow]
    /\ \E v \in Values : server = [k \in Keys |-> v]
    /\ mirror = server
    /\ held = Entries
    /\ pc = "idle"
    /\ todo = NothingToDo
    /\ batch = {}
    /\ page = NoPage
    /\ known = "unknown"
    /\ live = Entries
    /\ floorMet \in BOOLEAN
    /\ late = {}
    /\ intent = [k \in Keys |-> None]
    /\ accepted = [k \in Keys |-> None]
    /\ foreign = {}
    /\ retoggled = {}
    /\ stale = {}
    /\ gestures = 0 /\ others = 0 /\ kills = 0

(***************************************************************************)
(* The Qt thread.                                                          *)
(***************************************************************************)

Pending(k) == outbox[k] # NoRow

\* outbox::queue: upsert the row with a fresh retry budget and write the column.
\* An entry the mirror lacks gets its row; the column update touches nothing.
Queue(K, v) ==
    /\ outbox' = [k \in Keys |-> IF k \in K THEN [value |-> v, attempts |-> 0] ELSE outbox[k]]
    /\ mirror' = [k \in Keys |-> IF k \in K /\ k[1] \in held THEN v ELSE mirror[k]]
    /\ intent' = [k \in Keys |-> IF k \in K THEN v ELSE intent[k]]
    /\ retoggled' = retoggled \cup {k \in K : todo[k] # None /\ outbox[k].value # v}
    /\ gestures' = gestures + 1
    /\ UNCHANGED <<held, pc, flushVars, page, known, serverVars, accepted, foreign, stale, others, kills>>

\* setRead, setStarred, toggleRead, toggleStarred: one entry, one field.
Tap(k, v) ==
    /\ gestures < MaxGestures
    /\ Queue({k}, v)

\* setReadMany, and "mark all read" of a view that spans feeds: every id of it,
\* read or not, gets its intent.
SetReadMany(E, v) ==
    /\ gestures < MaxGestures
    /\ Queue(StatusOf(E), v)

\* queue_mark_feed_read, queue_mark_category_read: the ids unread now, never the
\* server's bulk endpoint.  E is the feed or the category.
MarkAllRead(E) ==
    LET toMark == {k \in StatusOf(E \cap held) : mirror[k] # Read}
    IN  /\ gestures < MaxGestures
        /\ toMark # {}
        /\ Queue(toMark, Read)

(***************************************************************************)
(* The worker: outbox flush (sync/replay.rs).                              *)
(***************************************************************************)

\* flush reads every pending intent once; what is queued later waits for the
\* next flush.
StartFlush ==
    /\ pc = "idle"
    /\ pc' = "flushing"
    /\ todo' = [k \in Keys |-> outbox[k].value]
    /\ UNCHANGED <<mirrorVars, batch, page, known, serverVars, history, bounds>>

\* outbox::batches: intents that share field and value, MaxBatch at a time.
Batches ==
    {ids \in SUBSET {k \in Keys : todo[k] # None} :
        \E k \in ids :
            LET group == {l \in Keys : todo[l] = todo[k] /\ l[2] = k[2]}
            IN  ids \subseteq group /\ Cardinality(ids) = Min({MaxBatch, Cardinality(group)})}

\* Mutant: delete and charge by id, without the comparison.
UnchangedBlind(ids) == {k \in ids : Pending(k)}

\* The rows a batch may touch afterwards: those that still hold its value.
Unchanged(ids) == {k \in ids : Pending(k) /\ outbox[k].value = todo[k]}

\* outbox::confirm and outbox::discard: compare and delete.
ClearRows(ids) ==
    outbox' = [k \in Keys |-> IF k \in Unchanged(ids) THEN NoRow ELSE outbox[k]]

\* outbox::record_failure: the same comparison, the intent stays.
RecordFailure(ids) ==
    outbox' = [k \in Keys |->
                 IF k \in Unchanged(ids)
                 THEN [outbox[k] EXCEPT !.attempts = Min({@ + 1, MaxAttempts})]
                 ELSE outbox[k]]

NextBatch(ids) ==
    /\ pc' = "flushing"
    /\ todo' = [k \in Keys |-> IF k \in ids THEN None ELSE todo[k]]
    /\ batch' = {}
    /\ retoggled' = retoggled \ ids

Abandon ==
    /\ pc' = "idle"
    /\ todo' = NothingToDo
    /\ batch' = {}
    /\ retoggled' = {}

\* Any failure of update_entries, whether the write was sent or not: bad
\* credentials end the pass, a permanent rejection drops the batch, anything
\* else keeps it for a later flush.
Fail(ids, e) ==
    /\ \/ IsAuthFailure(e) /\ RecordFailure(ids) /\ Abandon /\ UNCHANGED <<intent, stale>>
       \/ /\ WouldDiscard(e)
          /\ ClearRows(ids)
          /\ NextBatch(ids)
          /\ intent' = [k \in Keys |-> IF k \in Unchanged(ids) THEN None ELSE intent[k]]
          /\ stale' = stale \cup Unchanged(ids)
       \/ /\ ~IsAuthFailure(e) /\ ~WouldDiscard(e)
          /\ RecordFailure(ids)
          /\ NextBatch(ids)
          /\ UNCHANGED <<intent, stale>>
    /\ UNCHANGED <<mirror, held, page, accepted, foreign, bounds>>

\* write_capable_version: a flush that knows no version asks before it writes.
LearnVersion ==
    /\ pc = "flushing" /\ Batches # {}
    /\ known = "unknown"
    /\ known' = IF floorMet THEN "met" ELSE "below"
    /\ UNCHANGED <<mirrorVars, pc, flushVars, page, serverVars, history, bounds>>

\* The question itself fails, and update_entries returns its error.
VersionUnavailable(ids, e) ==
    /\ pc = "flushing"
    /\ known = "unknown"
    /\ e.kind # "config"
    /\ Fail(ids, e)
    /\ UNCHANGED <<known, serverVars>>

\* refuse_entry_writes_before_floor: nothing is sent, the intents stay.
RefuseBelowFloor(ids) ==
    /\ pc = "flushing"
    /\ known = "below"
    /\ Fail(ids, Transport("config"))
    /\ UNCHANGED <<known, serverVars>>

\* Mutant: write while the version is not known yet.
SendBatchUnasked(ids) ==
    /\ pc = "flushing"
    /\ known # "below"
    /\ pc' = "sent"
    /\ batch' = ids
    /\ UNCHANGED <<mirrorVars, todo, page, known, serverVars, history, bounds>>

\* PUT /v1/entries leaves the device.
SendBatch(ids) ==
    /\ pc = "flushing"
    /\ known = "met"
    /\ pc' = "sent"
    /\ batch' = ids
    /\ UNCHANGED <<mirrorVars, todo, page, known, serverVars, history, bounds>>

\* Mutant: take a request that was sent for one that was answered.
ConfirmUnanswered ==
    /\ pc \in {"sent", "applied"}
    /\ ClearRows(batch)
    /\ NextBatch(batch)
    /\ UNCHANGED <<mirror, held, page, known, serverVars, intent, accepted, foreign, stale, bounds>>

\* The server answered success: clear the rows that still hold what was sent.
Confirm ==
    /\ pc = "applied"
    /\ ClearRows(batch)
    /\ NextBatch(batch)
    /\ UNCHANGED <<mirror, held, page, known, serverVars, intent, accepted, foreign, stale, bounds>>

\* No answer, or an error.  An applied request is never turned down, but its
\* answer can be lost; one given up on before it was applied may linger.
PutFails(e) ==
    /\ \/ pc = "sent"
       \/ pc = "applied" /\ ~Refusal(e)
    /\ e.kind # "config"
    /\ Fail(batch, e)
    /\ \/ UNCHANGED late
       \/ /\ Lingers /\ pc = "sent" /\ GaveUpWaiting(e) /\ late = {}
          /\ \E k \in batch : late' = {[keys |-> batch, value |-> todo[k]]}
    /\ UNCHANGED <<known, server, live, floorMet>>

\* The flush is done; a flush alone ends here, a sync pass goes on to pull.
EndFlush ==
    /\ pc = "flushing"
    /\ todo = NothingToDo
    /\ pc' \in {"idle", "pulling"}
    /\ UNCHANGED <<mirrorVars, flushVars, page, known, serverVars, history, bounds>>

(***************************************************************************)
(* The worker: pull (sync/pull.rs, db/store.rs).                           *)
(***************************************************************************)

\* Mutant: a version once learnt is never asked for again.
RefreshVersionOnce ==
    /\ pc = "pulling"
    /\ known = "unknown"
    /\ known' = IF floorMet THEN "met" ELSE "below"
    /\ UNCHANGED <<mirrorVars, pc, flushVars, page, serverVars, history, bounds>>

\* sync asks for the version when the recorded one is older than a day.
RefreshVersion ==
    /\ pc = "pulling"
    /\ known' = IF floorMet THEN "met" ELSE "below"
    /\ UNCHANGED <<mirrorVars, pc, flushVars, page, serverVars, history, bounds>>

\* One page of GET /v1/entries, about the entries E.
FetchPage(E) ==
    /\ pc = "pulling"
    /\ pc' = "merging"
    /\ page' = [k \in Keys |-> IF k[1] \in E THEN server[k] ELSE None]
    /\ stale' = stale \ KeysOf(E)
    /\ UNCHANGED <<mirrorVars, flushVars, known, serverVars, intent, accepted, foreign, retoggled, bounds>>

\* A page that is lost before it is merged has repaired nothing.
LosePage ==
    /\ page' = NoPage
    /\ stale' = stale \cup {k \in Keys : page[k] # None}

\* Mutant: the page always wins.
MergedServerWins(k) == page[k]

\* Mutant: what the mirror holds already is left as it is.
MergedInsertOnly(k) == IF k[1] \in held THEN mirror[k] ELSE page[k]

\* upsert_entry's conflict rule, per field: a pending intent keeps the local
\* value, everything else takes the server's.
Merged(k) == IF Pending(k) THEN outbox[k].value ELSE page[k]

\* Mutant: the merge clears the columns of entries the page does not list.
MergeEverything ==
    /\ pc = "merging"
    /\ pc' = "idle"
    /\ mirror' = [k \in Keys |-> Merged(k)]
    /\ held' = held \cup {e \in Entries : \A k \in KeysOf({e}) : page[k] # None}
    /\ page' = NoPage
    /\ UNCHANGED <<outbox, flushVars, known, serverVars, history, bounds>>

MergePage ==
    /\ pc = "merging"
    /\ pc' = "idle"
    /\ mirror' = [k \in Keys |-> IF page[k] # None THEN Merged(k) ELSE mirror[k]]
    /\ held' = held \cup {e \in Entries : \A k \in KeysOf({e}) : page[k] # None}
    /\ page' = NoPage
    /\ UNCHANGED <<outbox, flushVars, known, serverVars, history, bounds>>

\* delete_entry: the entry the server no longer has, and its intents with it.
DropEntry(e) ==
    /\ pc = "pulling"
    /\ e \in held \ live
    /\ held' = held \ {e}
    /\ outbox' = [k \in Keys |-> IF k[1] = e THEN NoRow ELSE outbox[k]]
    /\ intent' = [k \in Keys |-> IF k[1] = e THEN None ELSE intent[k]]
    /\ UNCHANGED <<mirror, pc, flushVars, page, known, serverVars, accepted, foreign, retoggled, stale, bounds>>

\* The pull fails or has nothing more to read.
EndPull ==
    /\ pc \in {"pulling", "merging"}
    /\ pc' = "idle"
    /\ LosePage
    /\ UNCHANGED <<mirrorVars, flushVars, known, serverVars, intent, accepted, foreign, retoggled, bounds>>

\* The process dies and starts again: only the database survives, and a request
\* in flight may or may not have left.
Kill ==
    /\ kills < MaxKills
    /\ kills' = kills + 1
    /\ Abandon
    /\ LosePage
    /\ known' = "unknown"
    /\ \/ UNCHANGED late
       \/ /\ Lingers /\ pc = "sent" /\ late = {}
          /\ \E k \in batch : late' = {[keys |-> batch, value |-> todo[k]]}
    /\ UNCHANGED <<mirrorVars, server, live, floorMet, intent, accepted, foreign, gestures, others>>

(***************************************************************************)
(* The server.                                                             *)
(***************************************************************************)

Written(K, v) == [k \in Keys |-> IF k \in K /\ k[1] \in live THEN v ELSE server[k]]

\* The absolute set.  Ids the server does not know are ignored.
ServerApply ==
    /\ pc = "sent"
    /\ pc' = "applied"
    /\ \E k \in batch :
          /\ server' = Written(batch, todo[k])
          /\ accepted' = [l \in Keys |-> IF l \in batch THEN todo[k] ELSE accepted[l]]
    /\ foreign' = foreign \ batch
    /\ stale' = stale \ batch
    /\ UNCHANGED <<mirrorVars, flushVars, page, known, live, floorMet, late, intent, retoggled, bounds>>

\* A request the client gave up on arrives after all.
LateApply(r) ==
    /\ server' = Written(r.keys, r.value)
    /\ late' = late \ {r}
    /\ foreign' = foreign \cup r.keys
    /\ stale' = stale \cup r.keys
    /\ UNCHANGED <<mirrorVars, pc, flushVars, page, known, live, floorMet, intent, accepted, retoggled, bounds>>

\* Another client, or the web interface, changes a field.
OtherWrite(k, v) ==
    /\ others < MaxOthers
    /\ others' = others + 1
    /\ k[1] \in live
    /\ server' = [server EXCEPT ![k] = v]
    /\ foreign' = foreign \cup {k}
    /\ stale' = stale \cup {k}
    /\ UNCHANGED <<mirrorVars, pc, flushVars, page, known, live, floorMet, late, intent, accepted, retoggled, gestures, kills>>

\* The server deletes an entry.  Its id is never used again.
ServerDelete(e) ==
    /\ others < MaxOthers
    /\ others' = others + 1
    /\ e \in live
    /\ live' = live \ {e}
    /\ UNCHANGED <<mirrorVars, pc, flushVars, page, known, server, floorMet, late, history, gestures, kills>>

\* The owner upgrades Miniflux past 2.3.2.
Upgrade ==
    /\ ~floorMet
    /\ floorMet' = TRUE
    /\ UNCHANGED <<mirrorVars, pc, flushVars, page, known, server, live, late, history, bounds>>

-----------------------------------------------------------------------------

Ui ==
    \/ \E k \in Keys, v \in Values : Tap(k, v)
    \/ \E E \in SUBSET Entries \ {{}} :
          \/ \E v \in Values : SetReadMany(E, v)
          \/ MarkAllRead(E)

Flush ==
    \/ StartFlush
    \/ LearnVersion
    \/ \E ids \in Batches :
          \/ \E e \in Errors : VersionUnavailable(ids, e)
          \/ RefuseBelowFloor(ids)
          \/ SendBatch(ids)
    \/ Confirm
    \/ \E e \in Errors : PutFails(e)
    \/ EndFlush

Pull ==
    \/ RefreshVersion
    \/ \E E \in SUBSET live : FetchPage(E)
    \/ MergePage
    \/ \E e \in Entries : DropEntry(e)
    \/ EndPull

Environment ==
    \/ ServerApply
    \/ \E r \in late : LateApply(r)
    \/ \E k \in Keys, v \in Values : OtherWrite(k, v)
    \/ \E e \in Entries : ServerDelete(e)
    \/ Upgrade
    \/ Kill

Next == Ui \/ Flush \/ Pull \/ Environment

Spec == Init /\ [][Next]_vars

\* The worker's loop is a timer away from its next pass and never parks for
\* good; every request ends, answered or timed out.  Beyond that only luck that
\* keeps recurring is assumed: a server that is asked again and again answers
\* in the end, for each key, and a pass that asks for the version happens.
Fairness ==
    /\ WF_vars(Flush \/ Pull \/ ServerApply)
    /\ SF_vars(LearnVersion)
    /\ SF_vars(EndFlush /\ pc' = "pulling")
    /\ SF_vars(RefreshVersion)
    /\ \A k \in Keys :
          /\ SF_vars(\E ids \in Batches : k \in ids /\ SendBatch(ids))
          /\ SF_vars(k \in batch /\ ServerApply)
          /\ SF_vars(k \in batch /\ Confirm)

LiveSpec == Spec /\ Fairness

(***************************************************************************)
(* Properties.                                                             *)
(***************************************************************************)

\* The tables hold rows, values and entries, the worker is at a point of its pass,
\* and no count goes negative.
TypeOK ==
    /\ outbox \in [Keys -> Row \cup {NoRow}]
    /\ mirror \in [Keys -> Values]
    /\ held \subseteq Entries
    /\ pc \in {"idle", "flushing", "sent", "applied", "pulling", "merging"}
    /\ todo \in [Keys -> Values \cup {None}]
    /\ batch \subseteq Keys
    /\ page \in [Keys -> Values \cup {None}]
    /\ known \in {"unknown", "below", "met"}
    /\ server \in [Keys -> Values]
    /\ live \subseteq Entries
    /\ floorMet \in BOOLEAN
    /\ late \subseteq Request
    /\ intent \in [Keys -> Values \cup {None}]
    /\ accepted \in [Keys -> Values \cup {None}]
    /\ foreign \subseteq Keys
    /\ retoggled \subseteq Keys
    /\ stale \subseteq Keys
    /\ gestures \in Nat /\ others \in Nat /\ kills \in Nat

\* An intent that is no longer queued and was not refused is what the server
\* took last from this device, and what the server still holds unless somebody
\* else wrote since: no re-tap during a request, kill or lost answer drops it.
\* (outbox::confirm, flush.)
SettledIsServed ==
    \A k \in Keys : intent[k] # None /\ ~Pending(k) =>
        /\ accepted[k] = intent[k]
        /\ k[1] \in live /\ k \notin foreign => server[k] = intent[k]

\* The reader sees their own latest choice: while it is queued, and after it
\* was delivered, no page fetched before or during the tap puts an older value
\* back, unless somebody else really changed the field.  (upsert_entry, and
\* flush before pull in sync.)
MirrorShowsIntent ==
    \A k \in Keys : k[1] \in held /\ intent[k] # None /\ (Pending(k) \/ k \notin foreign)
        => mirror[k] = intent[k]

\* With nothing queued for a field the reader sees the server's value, unless it
\* was changed elsewhere, or an intent for it was given up (discard leaves the
\* column it wrote, replay.rs), since the last page about it: one page repairs
\* either, and nothing else this device does, in whatever order taps, requests,
\* lost answers, pages and kills come, sets the two apart.  (upsert_entry, flush.)
MirrorAgrees ==
    \A k \in Keys :
        k[1] \in held \cap live /\ ~Pending(k) /\ k \notin stale /\ page[k] = None
            => mirror[k] = server[k]

\* No entry-state write is ever in flight to a server older than 2.3.2, which
\* would answer it with the 400 that discards the user's intents.
\* (update_entries, write_capable_version.)
NoWriteBelowFloor == pc \in {"sent", "applied"} => floorMet

\* The write path keeps the promise of DesiredState: an intent leaves the queue
\* only delivered or openly refused.
Promise == INSTANCE DesiredState WITH
    intent <- intent,
    queued <- {k \in Keys : Pending(k)},
    accepted <- accepted

ImplementsDesiredState == Promise!Spec

\* With a server that can take it, every intent leaves the queue in the end.
\* (The flush and the loop that repeats it.)
Delivered == \A k \in Keys : (Pending(k) /\ floorMet) ~> ~Pending(k)

\* "Row re-toggled in flight is untried new intent; old failure isn't its"
\* (outbox.rs, record_failure): only intents the flush really tried are charged
\* with its failures.  A row tapped away and back during the request refutes it.
FailureIsItsOwn ==
    [][\A k \in Keys : Pending(k) /\ Pending(k)' /\ outbox'[k].attempts > outbox[k].attempts
          => k \notin retoggled]_vars

\* "Failed fetch propagates (transient): intent stays queued, next flush
\* retries" (client.rs, write_capable_version): nothing is dropped by a flush
\* that has sent nothing.
UnsentIsNeverDropped ==
    [][pc = "flushing" => \A k \in Keys : Pending(k) => Pending(k)']_vars

=============================================================================
