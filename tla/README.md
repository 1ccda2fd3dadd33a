# Vuo: a TLA+ verification project

Vuo is an offline-first Miniflux reader for Sailfish OS. A Qt/QML front end shows
a *mirror*: a SQLite file the app reads and writes with no network. One worker
thread keeps the mirror and a Miniflux server in step. The user may tap at any
moment, the process may be killed at any moment, the server has other clients,
and the network comes and goes. What can go wrong lies between these four, and
that is what is modelled here: the offline write path, the incremental pull, the
detection of deletions, the feeds and their icons, the loop that schedules them
all, and how the lists and the new-articles notification follow the mirror.

Paths below are relative to the repository; `core` is `crates/vuo-core/src`,
`shim` is `crates/vuo-shim/src`.

## 1. Inventory

| Part | State | Operations | What makes it correct |
|---|---|---|---|
| Outbox (`core/db/outbox.rs`) | one row per (entry, field): the desired value, `attempts` | `queue`, `queue_mark_feed_read`, `queue_mark_category_read`, `pending`, `batches`, `confirm`, `record_failure`, `discard` | an intent leaves only delivered or refused; a re-tap during a request survives |
| Flush (`core/sync/replay.rs`) | the intents it read at its start | batch, send, classify the failure, settle | rejected ≠ retried; nothing lost to a kill or to a lost answer |
| Error classes (`core/error.rs`) | none | `is_auth_failure`, `is_permanently_rejected`, `is_transient` | only a real rejection discards |
| API client (`core/api/client.rs`) | cached server version | `update_entries` behind a version floor, listings | no entry write to a server below 2.3.2 |
| Entry pull (`core/sync/pull.rs`, `mod.rs`) | cursor in `sync_state` | paged window, page cap, next cursor | nothing skipped, everything arrives |
| Reconcile (`core/sync/pull.rs`) | `last_full_reconcile_at` | counters, paged id listing, guard, delete | no live entry deleted; deleted ones leave |
| Mirror (`core/db/store.rs`) | entries, feeds, categories, icons | `upsert_entry`, `delete_entry`, `prune_entries` | the reader's choice is never overwritten by an older page |
| Taxonomy (`core/sync/pull.rs`) | feeds, categories | replaced by listings; missing feeds deleted with their intents | a bad listing destroys nothing |
| Icons (`core/sync/mod.rs`, `api/icon.rs`) | icon bytes, failure counts | at most 8 fetches a pass | failing icons do not starve others |
| Worker (`shim/worker.rs`) | command channel, `next_sync`, `flush_due`, account, settings | a loop over commands and deadlines | flushes are prompt; settings are obeyed; the spinner ends |
| Context (`shim/context.rs`) | `SyncSignal`: generation, running, refresh epoch, notice, fetch outcome | build, refresh, shared worker | what the worker posts reaches the screen |
| List and article models (`shim/models.rs`, `article.rs`) | rows, window, `seen_generation`, `seen_refresh_epoch`, `seen_running` | taps, `requestSync`, `pollSync`, `loadMore`, `setScope` | a list that looked shows the mirror; rows do not jump under the thumb |
| Settings (`shim/settings.rs`) | the account file | `store`: file, then context, then worker | the worker ends up with what the file says |
| Network policy (`core/net.rs`) | none | `Network::allows` | automatic work stays off excluded networks |
| Root window (`qml/harbour-vuo.qml`) | the poll timer, `_watchingCoverRefresh` | poll, activate, cover refresh | a poll comes while there is something to see |
| Arrivals (`shim/arrivals.rs`, `core/notify.rs`) | the `arrived` flag, the ids and the total the notification states | review, acknowledge, dismiss, withdraw | an article is new once; what is up is what the Announcer believes; what arrives is announced in the end |
| Content transform, search, redaction, wire types, transport, migrations, QML pages | – | pure functions, parsing, I/O, layout | not state machines of this program |

**How they interact.** The Qt thread writes an intent and the local column in one
transaction, then sends `FlushOutbox` down the channel. The worker only *arms* a
deadline; when that falls due, or a sync does, it flushes. A sync runs, in order:
flush, version, taxonomy, entries, counters and reconcile, icons, prune, and only
then stores `sync_state`. No transaction is held across a request, so each
request is a window for the Qt thread. The worker reports back through
`SyncSignal`, which QML polls.

**What is hard.** Requests that carry values the user has since changed; answers
lost after the server has acted; a server that changes while it is paged through;
a count used as a guard; two deadlines and a queue in one loop; flags raised in
one thread and recorded later in another. `PROJECT.json` lists these hazards at
their lines, each with the property that would catch it.

## 2. Modules

| Module | Models | Uses |
|---|---|---|
| `Errors` | `error.rs` and what the flush makes of it | |
| `DesiredState` | the promise of the write path, abstractly | |
| `Subscriptions` | the promise about feeds, abstractly | |
| `Outbox` | outbox, flush, version gate, page merge, server, network | `Errors`, `DesiredState` (refined) |
| `Pull` | cursor, window, pages, cap, a server whose commits show late | |
| `Reconcile` | counters, paged listing, guard, deletion, record | |
| `Worker` | the loop, the channel, deadlines, network gate, spinner, the Qt thread's side | |
| `Lists` | the generation counter, the refresh epoch, and the entry lists that follow them | |
| `Arrivals` | the `arrived` flag, the Announcer, the notification, the root window's reviews | |
| `Feeds` | taxonomy pull, feed edits and removals, icons | `Subscriptions` (refined) |
| `OutboxProofs`, `PullProofs`, `ReconcileProofs`, `WorkerProofs`, `ListsProofs`, `ArrivalsProofs`, `FeedsProofs` | the theorems | the module of that name |
| `MCOutbox`, `MCPull`, `MCReconcile`, `MCWorker`, `MCLists`, `MCArrivals`, `MCFeeds` | instances for TLC; each extends its component, so that TLC evaluates the named assumptions | the module of that name |

### Outbox

State: the `outbox` table and the `mirror`'s two columns, per key (entry, field);
`todo`, the intents this flush read; `batch`, the request in flight; `page`, the
fetched page; `known`, the client's version cache; the server. `intent`,
`accepted`, `foreign`, `retoggled` and `stale` are history: no guard of the program
reads them. `stale` are the keys changed elsewhere, or given up by a discard, since
the last page about them.

- `Tap`, `SetReadMany`, `MarkAllRead` are one transaction each (`Queue`): row
  with a fresh retry budget, and column.
- `StartFlush`, `SendBatch`, `ServerApply`, `Confirm`/`PutFails`, `EndFlush` split
  the flush where the code lets go of the database. `Batches` leaves open which
  intents share a chunk (the code orders by `queued_at`), and `Unchanged` is the
  `AND desired = ?` of `confirm`, `discard` and `record_failure`.
- `LearnVersion`, `VersionUnavailable`, `RefuseBelowFloor` are
  `write_capable_version` and the floor, asked inside `update_entries`;
  `RefreshVersion` is the pull's own question, after the 24 h TTL.
- `FetchPage`/`MergePage` are separate, so a tap can fall between them;
  `Merged` is the `CASE WHEN EXISTS(outbox)` of `upsert_entry`.
- `Kill` keeps only the database. With `Lingers`, a request the client gave up on
  may be applied later (`LateApply`).

### Pull

`rev` counts the visible changes of an entry, `merged` what the mirror took. A
server transaction is `Begin`, which stamps it with the clock, and `Commit`,
which makes it visible, at most `Lag` later. `ReadPage` is one turn of
`entries_with_page_cap`'s loop: the page after the last id, the first `Date` seen,
the merge without the entries that do not validate, and the end on a page that
was short *before* they were rejected. `FinishPass` is the `set_sync_state` at the
end of `sync`; `FailPass` is any `?` before it, or a kill. `DateMissing` lets a
response come without a `Date`, in which case the phone's clock, which may say
anything, stands in. `base` and `ahead` are history: what dated the pass, and whether
a cursor was ever stored that was dated so late (`TooLate`) that its skew no longer
reaches back to all that may have become visible since the first page.

### Reconcile

The server's ids are listed from the highest down, by offset, a page at a time,
while it inserts and deletes. The total counted is the first page's. `Whole` is
the guard; `DeleteStale` is the one transaction that removes the rest of the
mirror; `Abort` covers a mismatch, a missing total and a listing that passes
`MaxOffset`. The counters ask only whether some feed has *more* entries here than
there. `LateIds` lets an id become visible after higher ones. A server that does not
list its ids (before 2.3.2, `has_entry_ids_endpoint`) is never reconciled with; until
its `Upgrade` the only word of a deletion is the status "removed" that servers before
2.3.0 send, which `PullEntries` may drop an entry on. Versions 2.3.0 and 2.3.1 give
none, and what they delete stays until the upgrade.

### Worker

Time is a tick; both deadlines count down. Taking a command, serving it, ending
it and lowering the flag are separate steps, and so are the steps of the Qt
handlers that write shared state more than once: the intent and the send
(`Tap`, `SendFlush`), raising the flag, sending and recording (`RequestSync`,
`SendSync`, `RecordSpinner`), the account file and the messages
(`SaveSettings`, `PublishSettings`), the poll and the reading of the flag after it
(`Poll`, `StopWatching`). Of the outbox the loop sees only whether it is empty,
and whether some flush has read all of it. The account is two things, the `client`
and the mirror `db`, set apart by `TakeConfigure` because either may fail: work falls
due for a client alone (`Due`), and is served only with both (`HasAccount`). `Tick` waits for whatever a command at
an idle worker or a deadline wakes up: the thread's own latency counts as none.

### Lists

The worker commits while the Qt thread is anywhere between two of its accesses to
the mirror or to `SyncSignal`, so a handler that makes several is several steps:
`PollSync` (read and remember the counter) and `PollReload`; `SetRead`, `Bump` and
`MoveCursor`; `MarkAllRead`, `MarkAllWrite`, `MarkAllFresh` and the same two.
`ReloadKeeping` is one read of the mirror: the window of what matches, joined with
what is on screen unless the list starts over. `Tapped` are the lists the reader
taps, `Browse` those whose scope changes; the rest only watch. A commit the report
counts (`CommitCounted`) is owed a bump; feeds deleted by the taxonomy and pruned
articles (`CommitUncounted`), and `FeedModel::markFeedRead` (`FeedMarkRead`), are
not. `unsaid` and `quiet` remember which kind has happened since the last bump.

### Arrivals

A pass is `SyncDue` or the reader's `Refresh`, `Insert`/`Update` in any order,
`EndPull`, `Prune`, and `FinishPass` or `FailPass`, with which the guard lowers the
flag; `Bump` follows. When an article was created matters
only against the cursor, so `known` is the set created before it; `FinishPass`
moves it to any part of the window, which is what the cursor's skew leaves open.
`Undated` are the articles the server sends without a date of creation, which
`arrival_for` announces whenever they are inserted. The poll timer runs in front, with
a sync interval (`timed`), or while a refresh from the cover is watched (`watching`);
`StopWatching` is the end of such a watch.
`announceArrivals` is split at each query: `ReviewInFront` and `AcknowledgeAll`,
`ReviewArrivals` and `ReviewCount`. `home` is what the notification on the home
screen says; `showing` and `unread` are what the Announcer remembers of it.
`flags`, `lost`, `told` and `repeat` are history.

### Feeds

The server's feeds and the mirror's are functions from ids to rows (title,
category, icon). A pass asks for the categories, then the feeds, stores both,
deletes what is gone, pulls entries, lists the icons it lacks and asks for them
one by one; the server moves at any point between. An edit is `UpdateFeed`,
`PutFeed`, `PatchMirror`; a removal `Unsubscribe`, `DeleteOnServer`, `ForgetFeed`.
`StopCommand` is a failed request, a lost answer (the server has acted and the
mirror has not) or a kill, at any step. Subscribing is a server event followed by
a pass, which is what `Command::Subscribe` is. `BadIcons` are the icons
`decode_icon` refuses. `dropped` and `had` are history.

`Subscriptions` says what is promised without passes, listings or requests: the phone
shows columns the server has said of a feed, in whatever order it learns of them,
forgets only feeds the server no longer has, and none comes back. `Feeds` implements
it with the columns of a row as what is shown and `had` as what was said. Storing a
listing and patching the mirror are `Show`, deleting what is gone and `ForgetFeed` are
`Forget`, and everything between them is the server's business or a stutter.

## 3. Runs

Deadlock is checked in every passing run.

| Run | Checks | Bounds |
|---|---|---|
| `outbox` | `TypeOK`, `SettledIsServed`, `MirrorShowsIntent`, `MirrorAgrees`, `NoWriteBelowFloor`, `ImplementsDesiredState` | two entries, one field, batches of two, two gestures, one foreign write or deletion, one kill, one lingering request; entries symmetric |
| `outbox_live` | `Delivered` | one entry with both fields, batches of one, two gestures, one kill |
| `pull` | `TypeOK`, `NoGap`, `CatchesUp` | three entries, one of them never usable, pages of one, a cap of three pages, one change, one failing pass, clock up to 4, skew 3 over a lag of 1, responses with and without a `Date` |
| `reconcile` | `TypeOK`, `SparesLive`, `RecordedMeansClean`, `GhostsLeave` | four ids in two feeds, pages of two, two inserts a listing, one failure, a server that lists ids from the start or after an upgrade |
| `worker` | `TypeOK`, `PromptFlush`, `GoesByTheFile`, `WifiOnlyKept`, `SpinnerHandedOn` | two gestures, one restart, three networks, with "Manual only" and accounts of which the mirror, the transport or both do not open |
| `worker_live` | `GoesOnNextWifi`, `SpinnerEnds` | two gestures, no restart, an interval set, accounts that open |
| `lists` | `TypeOK`, `NothingUntold`, `CaughtUpIsCurrent`, `RowsStay`, `EveryListHears` | a tapped list and a watching one, two articles of which one arrives later, pages of one, three commits or gestures |
| `arrivals` | `TypeOK`, `HomeAgrees`, `HomeIsCurrent`, `BannerIsNews`, `NewOnce`, `AcknowledgedBySight`, `AnnouncedInTheEnd` | two articles, one undated, one perhaps hidden, with and without a sync interval, any number of passes and refreshes, five other events |
| `feeds` | `TypeOK`, `NoOrphanFeed`, `DroppedIsGone`, `MirrorNeverAhead`, `Converges`, `IconsSettle`, `ImplementsSubscriptions` | two feed ids, two titles, two categories, a good and a bad icon, one icon request a pass (the code: 8), given up after two (the code: 3), any number of passes, three other events |
| `outbox_version`, `reconcile_torn`, `worker_manual` | one property each, violated | see section 6 |

**Why the bounds are enough.** An intent is disturbed by at most one other value
at one time, so two gestures on a key, in every order with a request, a kill and a
late request, show every way a row can differ from what was sent; a second entry
makes batches of which only a part was re-tapped. Batches of one in `outbox_live`
make one flush send several. Pages of one with three entries make full, empty and
unusable pages, and a window that exactly meets the cap; a change beside the three
entries' own is one that a stored cursor has to cover, and a skew two above the lag
leaves room for a phone's clock that is ahead without being too far ahead. Two pages of two ids
make every shift of the offset by one insertion or deletion. For the loop, a
window of two ticks and an interval of three let a flush, a sync and a start-up
flush fall due in each order; the worker's channel is unbounded, but two gestures
with a restart and a settings change already put five commands in it. In `lists`,
pages of one make the window full, one short and extended, and three events put a
commit, a tap and an unannounced change in every order around a poll. In
`arrivals`, five events are two articles, leaving, one of them read elsewhere, and a
dismissal or a return: the case where the number of new articles stays and the
articles do not; or one article, read, pruned and back. In `feeds`, one request a pass makes two feeds compete for it, and
three events are a subscription, its edit or removal elsewhere, and a failure or a
second subscription. What these
instances cannot show, all safety properties except those of the violated runs,
is proved for every size (section 5).

**The properties.**
`SettledIsServed`: an intent that left the queue unrefused is what the server
took last from this device, and still holds unless somebody else wrote.
`MirrorShowsIntent`: the reader sees that intent, whichever page was fetched when.
`MirrorAgrees`: with nothing queued the reader sees the server's value, unless it was
changed elsewhere or its intent discarded since the last page about it; one page
repairs either.
`NoWriteBelowFloor`: no write in flight to a server that would answer it with the
400 that discards. `ImplementsDesiredState`: the refinement. `Delivered`: every
intent leaves in the end. `NoGap`: whatever the mirror lacks, or the server is
about to show, lies after the cursor, unless a cursor was dated too late for its skew.
`CatchesUp`: the mirror is complete in the end, unless every pass meets the page cap
or a cursor was dated too late. `SparesLive`: the reconcile deletes no
entry the server has. `RecordedMeansClean`: a run is recorded only if nothing
foreign was left. `GhostsLeave`: deleted entries go, once the server lists its ids. `PromptFlush`: an idle worker
lets no intent wait beyond the debounce window. `WifiOnlyKept`: nothing automatic
starts off Wi-Fi once the setting is published. `GoesByTheFile`: once the channel is
empty the worker has the account file's settings, and it always has a sync ahead if
and only if it has an interval. `SpinnerHandedOn`: the duty to lower a raised flag
passes from one holder to the next and is lost by two steps only, a refresh dropped for
want of an account and a due sync dropped for want of its mirror. `GoesOnNextWifi`: a flush turned
away is made up for. `SpinnerEnds`: every spinner comes down. `NothingUntold`: a
change somebody should announce is announced, or somebody is on the way to it.
`CaughtUpIsCurrent`: a list that returns early from its poll shows the mirror and
has followed the last refresh. `RowsStay`: rows leave only when the reader asked
or the mirror lost them. `EveryListHears`: every list looks at every bump.
`HomeAgrees`: what is on the home screen is what the Announcer remembers, although
it decides by lengths whether to publish. `HomeIsCurrent`: nothing is up while the
reader looks or with the switch off, and once the last bump was seen the notification
has the mirror's arrivals and its unread total, though the two are read apart.
`BannerIsNews`: no banner repeats. `NewOnce`: nothing is flagged
twice, but where pruning left no trace of it. `AcknowledgedBySight`: the flag goes only
with the reader's knowledge. `AnnouncedInTheEnd`: with a sync interval, what arrives
behind the app is announced. `NoOrphanFeed`: the
foreign key of `feeds.category_id` never fails a pass. `DroppedIsGone`: only feeds
the server no longer has are deleted, and nothing of them comes back.
`MirrorNeverAhead`: no edit shows that the server did not take. `Converges`: the
mirror gets the server's feeds and their named categories. `IconsSettle`: every
icon arrives or is given up. `ImplementsSubscriptions`: the refinement.

Each property has a mutant in `PROJECT.json`: a plausible slip in one definition
(a comparison dropped, a deadline that restarts, a guard on the wrong count) that
TLC must catch with that property. The mutated forms stand beside the definitions
they change.

## 4. Fairness

- `Outbox`: weak fairness of the worker and of requests, since the loop is always
  a timer away from its next pass and every request ends, answered or timed out.
  Strong fairness of single lucky outcomes (the version is told, a request with
  this key is sent, applied and confirmed): a server asked for ever answers some
  time. Users, other clients, upgrades and kills are not assumed.
- `Pull`: weak fairness of the pass and of each server transaction's commit.
  Failures are bounded by `MaxFails`; a pass that fails for ever catches up with
  nothing.
- `Reconcile`: weak fairness of the pass and of the interval elapsing, which is
  what makes the interval a backstop for counts that agree by accident. A pass that
  still goes by an older recorded version starts no reconcile; the record expires
  after a day and the question is answered some time, so such passes do not recur for
  ever. That a server is ever upgraded is not assumed: `GhostsLeave` speaks of those
  that list their ids.
- `Worker`: weak fairness of a Qt handler's next step, of the loop, of time, of the
  poll timer; and strong fairness of a poll that finds the flag down, because
  polls (1.5 s in front, a quarter of the interval behind) come oftener than
  refreshes, so they do not miss the time between two for ever.
- `Lists`: weak fairness of the end of a command, of a Qt handler's next step, and of
  each list's poll: the timer polls every model at every tick while the app is in
  front.
- `Arrivals`: weak fairness of the pass, of the review's steps, and of the tick that
  sees the mirror moved, which is enabled only where the timer runs (`TimerRuns`): in
  front, with a sync interval, or while a refresh from the cover is watched. Under
  "Manual only" a refresh still pulls behind the app, from the cover or begun in front,
  and its last bump may find no timer (section 6, item 12); `AnnouncedInTheEnd` is
  therefore stated with an interval.
- `Feeds`: weak fairness of the pass and of a command's steps: passes recur and every
  request ends. Failures are events and so finite; servers and users owe nothing.

## 5. What is proved

All for every value of the constants that the named assumptions of the modules
allow; the bounds on gestures, kills, time and failures are arbitrary naturals, so
they bound nothing.

| Theorem | Says | Under |
|---|---|---|
| `OutboxProofs!TypeCorrect`, `Settled`, `TapsSurvivePulls`, `MirrorInStep`, `FloorRespected` | `TypeOK`, `SettledIsServed`, `MirrorShowsIntent`, `MirrorAgrees`, `NoWriteBelowFloor` hold always | – |
| `OutboxProofs!KeepsThePromise` | `Spec => ImplementsDesiredState` | – |
| `PullProofs!TypeCorrect`, `NothingSkipped` | `TypeOK`, `NoGap` | `Lag < Skew` |
| `PullProofs!DatedSkipsNothing`, `FirstAnchor` | `Covered` (`NoGap` without its excuse), `AnchoredAtFirst` | every response is dated; `Lag < Skew` |
| `ReconcileProofs!TypeCorrect`, `RecordsAreServed` | `TypeOK`; a recorded run left only entries the server had at some moment of its listing | – |
| `ReconcileProofs!LiveEntriesSpared`, `RecordsAreTrue` | `SparesLive`, `RecordedMeansClean` | ids appear in order; a listing sees at most a page of inserts |
| `WorkerProofs!TypeCorrect`, `FlushesPromptly`, `GoesByAccountFile`, `WifiOnlyHolds`, `SpinnerPassedOn` | `TypeOK`, `PromptFlush`, `GoesByTheFile`, `WifiOnlyKept`, `SpinnerHandedOn` | – |
| `WorkerProofs!NoSpinnerLeft` | a spinner on the screen has a poll to take it down, and its flag somebody to lower it (`Tethered`) | every account opens |
| `ListsProofs!TypeCorrect`, `NoneUntold`, `CaughtUpShowsTheMirror`, `RowsDoNotJump` | `TypeOK`, `NothingUntold`, `CaughtUpIsCurrent`, `RowsStay` | – |
| `ArrivalsProofs!TypeCorrect`, `AnnouncerAgrees`, `HomeIsUpToDate`, `BannersAreNews`, `FlaggedOnce`, `OnlySightAcknowledges` | `TypeOK`, `HomeAgrees`, `HomeIsCurrent`, `BannerIsNews`, `NewOnce`, `AcknowledgedBySight` | finitely many articles |
| `FeedsProofs!TypeCorrect`, `FeedsHaveCategories`, `OnlyTheGoneAreDropped`, `NeverAhead` | `TypeOK`, `NoOrphanFeed`, `DroppedIsGone`, `MirrorNeverAhead` | – |
| `FeedsProofs!KeepsSubscriptions` | `Spec => ImplementsSubscriptions` | – |

Each rests on an inductive strengthening:

- **Outbox.** `SettledIsServed` is not inductive: a confirm could clear a row whose
  value the server never took. `FlushInv` says that what a flush read is still
  queued, and that a request asks one value of all its keys; `QueueInv` that a row
  holds the latest intent; `ServerInv` that an applied batch was accepted with its
  own values. Then compare-and-delete clears only rows whose intent is the accepted
  value. `MirrorShowsIntent` needs `PageInv`: the page in hand agrees with every
  settled intent nobody overrode, true because the worker runs one command at a
  time and so no request of this device settles while a page is in hand.
  `MirrorAgrees` needs `AgreeInv`, which extends it to what the worker has in hand: a
  page not yet merged, and an answer not yet acted on, are what the server holds
  unless the key is stale. A confirm can then drop a row without parting mirror and
  server, because `FlushInv` ties the row it drops to the value that was sent.
- **Pull.** `NoGap` speaks of the stored cursor, but a cursor is stored long after it
  was made. `WalkedPast` says of a pass in progress that every entry below its
  last id is merged or was changed after the anchor less the skew. An open
  transaction is at most `Lag < Skew` old, so it too will lie after that. A pass
  without a `Date` is dated by `base`; the invariant carries `TooLate` along until the
  cursor is stored, which is where `ahead` records it. A dated pass is dated by its
  first page, and `TooLate` is impossible.
- **Reconcile.** With ids in order and at most a page of inserts, the new ids all
  lie in the first page's worth of offsets, so later pages show only ids that were
  there at the start (`PagesAreOld`). Hence `seen` is a subset of `before`, the
  declared total is the size of `before`, and equal counts mean equal sets
  (`WholeIsAll`). Without either assumption the guard is no longer enough:
  `reconcile_torn`. What is left then is `SeenInv`: a listing shows ids that were there
  at the start or came while it was read, so what a recorded run keeps was served.
- **Worker.** `Armed`: whatever waits for a flush has a deadline within the window,
  or a request for one in the channel, or a handler about to send one, or a start
  of the account ahead of it. `Known`: for either setting, the last word on it in the
  channel, or else the worker's own copy, is what the account file says, so an empty
  channel means agreement. `Scheduled`: a sync is ahead exactly when there is an
  interval. `SpinnerHandedOn` is a fact about single steps (`DutyStep`, one case per
  action). That nothing is dropped where accounts open needs `Opened`: the worker
  has its account, client and mirror, or the next command is the one that brings it.
- **Lists.** `CaughtUpIsCurrent` needs the types (a window is at least a page), that a
  handler in progress knows its list, and `NothingUntold`: between a commit and its
  bump a list may well be behind. A reload then makes its list current because a
  window that is not full holds all that matches, which is a fact about the n newest
  of a finite set and is proved as such; every other step leaves mirror and rows
  alone, or owes a bump.
- **Arrivals.** `ScreenInv`: home screen and Announcer agree after every single step; an
  update that is left out has the same articles, because a subset of the same size
  is the set. `CurrentInv`: while no bump is owed or unseen, what a review has read is
  what the mirror holds; a pull that changes either sets `tell` first, and what
  retention takes was read. `OnceInv`: an article that is not in the mirror, and would be
  news if it came, was lost (`lost`) as often as it was flagged.
  `NewsInv`: what was announced, is unread and still flagged is covered by what is
  up, or the switch is off, or the reader is in front; the switch moves only in
  front, where everything is acknowledged first.
- **Feeds.** A pass deletes by a listing it read some steps earlier. `DroppedIsGone` is
  inductive with: ids are never given out twice, whatever a listing holds was given
  out, and a feed missing from the listing in hand though the mirror has it is gone
  from the server, unless the listing is empty and will be refused.
  `MirrorNeverAhead` needs the same of the columns: a listing, and a patch the server
  took, say only what the server had. With both invariants every step maps to a step
  of `Subscriptions` or to a stutter (`StepRefines`): a write needs `SaidInv` for
  `Show`, a deletion `FeedsInv` for `Forget`.

## 6. Disagreements found

Three are runs that TLC must find violated.

1. `outbox_version`: the version question inside `update_entries` fails with a 400,
   and `flush` takes that for a rejection of the write: the batch is discarded
   though nothing was sent. `client.rs:326` says the intent stays queued.
2. `reconcile_torn`: the guard compares counts. A deletion that shifts an unseen
   live id past the offset, and an id that becomes visible late below those already
   listed, cancel out, and the live entry is deleted with its intents.
3. `worker_manual`: with "Manual only", a flush turned away by the network loses its
   deadline and nothing arms it again, though `net.rs:57` promises the next Wi-Fi.

The others are smaller, and a property above says around them what does hold.

4. `record_failure` compares values only, so a row tapped away and back during the
   request is charged with the old failure, which `outbox.rs:341` rules out
   (`FailureIsItsOwn` of `Outbox`). The count is informative only.
5. The anchor of the cursor is the first `Date` *seen*, which may be a later page's;
   `pull.rs:256` says the first response's (`AnchoredAtFirst` of `Pull`, proved for
   dated responses). Without a `Date` the phone's clock stands in, and `NoGap` says how
   late it may be.
6. A refresh sent to a worker whose account could not be opened is dropped before
   its guard exists (`worker.rs:696`), and the spinner stays up. With a client but no
   mirror (`Database::open` failed) an automatic sync does the same: it falls due, since
   the wait asks only for the client (`worker.rs:546`), raises the flag (`worker.rs:591`)
   and is dropped. Its deadline stays passed, so the loop spins until an interval or
   account is set, which the comment at `worker.rs:543` ("Only served account has work
   that can fall due") means to rule out. `SpinnerHandedOn` shows that these are the only
   such steps; `SpinnerEnds` is checked, and `NoSpinnerLeft` proved, for accounts that
   open.
7. `announce_local_change` moves the tapped list's cursor to whatever the counter
   says, past bumps that list has not polled: it shows those changes only at the
   next bump. `CaughtUpIsCurrent` speaks of the lists that are not tapped.
8. Feeds deleted by the taxonomy, renames, pruning, and `FeedModel::markFeedRead`
   change the mirror without a bump, though `context.rs:507` calls the generation a
   "Counter worker bumps whenever it changes mirror". `CaughtUpIsCurrent` excuses
   such a change until the next bump.
9. `pull.rs:137` says of an empty feed listing "No feeds genuinely → nothing local to
   delete anyway". After the last feed is unsubscribed elsewhere there is: the mirror
   keeps that feed for good. `Converges` excuses a server without feeds.
10. `clear_icon_failures` (`store.rs:1045`) is described as for "server reports new
    icon", but only a stored icon calls it: a feed given up three times never gets a
    new one, and failed connections count too. `IconsSettle` takes a feed given up
    for settled.
11. `arrival_for` (`pull.rs:171`) says that the creation date gives a returning entry
    away. Retention goes by the date of publication (`store.rs:396`), so an old
    article of a feed just subscribed to can be pruned within the cursor's overlap,
    and comes back as new if it is marked unread elsewhere in that minute; and one
    without a creation date is news at every return, which the code accepts
    (`pull.rs:176`). `NewOnce` allows one more flag for each such loss, and for no other.
12. `settings.rs:472` says of "Manual only" that a "Refresh from cover's own action not
    covered and needn't be: root window keeps fast poll for that one sync". The watch ends
    on the flag, which the worker lowers before its last bump (`worker.rs:357-365`): a tick
    in between finds no bump, stops the timer (`harbour-vuo.qml:181`), and what the
    refresh brought is announced only when the app comes back. The same goes for a refresh
    begun in front and then minimised, which nobody watches. Without the interval in its
    premise, `AnnouncedInTheEnd` fails in the `arrivals` instance that way.

## 7. What is only model-checked, and what is not modelled

Liveness (`Delivered`, `CatchesUp`, `GhostsLeave`, `GoesOnNextWifi`,
`SpinnerEnds`, `EveryListHears`, `AnnouncedInTheEnd`, `Converges`, `IconsSettle`) is
outside the prover's reach and stays with TLC on the instances above. `SpinnerEnds`
is checked with an interval set: under "Manual only" a minimised app does not poll,
and its spinner waits for the app to come back. `AnnouncedInTheEnd` is stated with an
interval for the same reason.

The models run the components apart. In `Outbox` a sync's pull fetches any pages
in any order; in `Reconcile` the pull is any set of live entries; in `Worker` the
outbox is three values; in `Lists` a command commits any states; in `Feeds` the
intents that go with a feed's entries are left out (`DropEntry` of `Outbox` has
them). Reads and writes of the mirror succeed: a failing SQLite is not modelled.
In `Arrivals` the home screen reports a close at once, hidden feeds stay hidden, the
sync interval stays as it is, a refresh asked for during a pass is one asked for after
it, and there is no restart; an entry leaves the mirror only by retention.

Not modelled:

- the notice slot and the fetch-outcome slot of `SyncSignal`: one value each, taken
  and put back in two steps; a lost one costs a status line, as `context.rs:605`
  says. `FetchOriginal`'s verdict on a scraped body;
- `publish_rows` (how a difference of rows is told to Qt) and search: functions of
  rows and text;
- text (content, redaction), wire decoding beyond "usable or not", TLS, redirects and
  limits beyond their error class, migrations, the allocator, QML layout, and the
  parsing of `/proc` behind the network's kind: pure functions, I/O or layout.

## 8. Plan

Done, in this order: `Errors`, `DesiredState`, `Outbox`, `Pull`, `Reconcile`,
`Worker`, because a lost tap, a skipped or a wrongly deleted entry is the worst the
app can do, and the loop decides whether any of it happens in time; then `Lists`,
`Arrivals` and `Feeds`, which decide what the reader sees of it; the proofs of all
their safety properties; and `Subscriptions` with the second refinement.

To do:

1. `Sync`: `Outbox`, `Pull` and `Feeds` as one pass in the order of `sync`, for what
   spans them: which page repairs a discarded intent's column (`MirrorAgrees` says that
   any page does); a reconcile, or the removal of a feed, and a re-tap of an entry it
   deletes.
2. The notice slot, with the pages that drain it.
3. A guard on the reconcile that would be enough without the two assumptions of
   `LiveEntriesSpared`, stated and proved beside `Whole`.
