------------------------------ MODULE Reconcile ------------------------------
(***************************************************************************)
(* Deletions: what the mirror does about entries the server no longer has  *)
(* (sync/pull.rs, diverging_feeds and reconcile; sync/mod.rs).  A deleted  *)
(* entry leaves no trace a cursor could see, so the worker now and then    *)
(* lists every id the server holds and deletes the rest of the mirror.     *)
(*                                                                         *)
(* Covered: the listing is read page by page, by offset, from a server     *)
(* that inserts and deletes meanwhile; totals that are missing; listings   *)
(* that never end; passes that fail or are killed between the deletion and *)
(* the record of it; counts that hide a deletion.  Abstracted: an entry is *)
(* its id; its queued intents leave the mirror with it.  A server is one   *)
(* that lists ids (from 2.3.2) or not, and is only ever upgraded: a pass   *)
(* that still goes by an older version of it, as recorded at most a day    *)
(* ago, is one that starts no reconcile.                                   *)
(***************************************************************************)
EXTENDS Integers, FiniteSets

CONSTANTS
    Ids,         \* entry ids
    InitialIds,  \* those the server starts with
    FeedOf,      \* the feed of each entry
    Page,        \* the server's cap on a page of ids
    MaxOffset,   \* where the listing is given up
    LateIds,     \* whether an id may become visible after higher ones
    None,        \* no total
    MaxInserts,  \* what the server inserts during one listing, at most
    MaxFails     \* bound: passes that fail, listings without a total

ASSUME ConstantsAssumption ==
    /\ IsFiniteSet(Ids) /\ Ids \subseteq Nat
    /\ InitialIds \subseteq Ids
    /\ {Page, MaxOffset, MaxInserts, MaxFails} \subseteq Nat
    /\ Page > 0
    /\ LateIds \in BOOLEAN
    /\ None \notin Nat

VARIABLES
    \* the server
    live,      \* the ids it holds
    used,      \* the ids it ever held: none comes back
    listsIds,  \* has_entry_ids_endpoint
    \* the device
    local,   \* the ids the mirror holds
    due,     \* whether last_full_reconcile_at is an interval old
    \* the pass
    pc,      \* idle, listing, listed, done (the rest of the pass)
    offset,
    total,   \* declared_total, or None
    seen,    \* the ids listed
    clean,   \* Reconcile.completed
    \* history and bounds
    before,  \* the ids the server held when the listing began
    fresh,   \* the ids that became visible since
    fails

serverVars == <<live, used, listsIds>>
listing == <<offset, total, seen, before>>
vars == <<serverVars, local, due, pc, listing, clean, fresh, fails>>

Init ==
    /\ live = InitialIds
    /\ used = InitialIds
    /\ listsIds \in BOOLEAN
    /\ local \in SUBSET InitialIds
    /\ due = TRUE
    /\ pc = "idle"
    /\ offset = 0 /\ total = None /\ seen = {} /\ before = {}
    /\ clean = FALSE
    /\ fresh = {}
    /\ fails = 0

(***************************************************************************)
(* The server.                                                             *)
(***************************************************************************)

\* Ids are handed out in ascending order; transactions that commit out of order
\* make one visible late.  During one listing not more than MaxInserts appear.
Insert(i) ==
    /\ i \notin used
    /\ LateIds \/ \A j \in used : j < i
    /\ pc = "listing" => Cardinality(fresh) < MaxInserts
    /\ live' = live \cup {i}
    /\ used' = used \cup {i}
    /\ fresh' = IF pc = "listing" THEN fresh \cup {i} ELSE fresh
    /\ UNCHANGED <<listsIds, local, due, pc, listing, clean, fails>>

Delete(i) ==
    /\ i \in live
    /\ live' = live \ {i}
    /\ UNCHANGED <<used, listsIds, local, due, pc, listing, clean, fresh, fails>>

Upgrade ==
    /\ ~listsIds
    /\ listsIds' = TRUE
    /\ UNCHANGED <<live, used, local, due, pc, listing, clean, fresh, fails>>

(***************************************************************************)
(* The rest of the device.                                                 *)
(***************************************************************************)

\* The entry pull that precedes the reconcile in every pass.  Of servers that list
\* no ids, those before 2.3.0 report a deletion (the status "removed"), to a pull
\* whose cursor still sees it.
PullEntries(I, R) ==
    /\ pc = "idle"
    /\ I \subseteq live
    /\ R \subseteq local \ live
    /\ R # {} => ~listsIds
    /\ local' = (local \cup I) \ R
    /\ UNCHANGED <<serverVars, due, pc, listing, clean, fresh, fails>>

\* Retention forgets entries the server still has.
Prune(I) ==
    /\ pc \in {"idle", "done"}
    /\ I \subseteq local
    /\ local' = local \ I
    /\ UNCHANGED <<serverVars, due, pc, listing, clean, fresh, fails>>

\* reconcile_interval_secs have passed.
Elapse ==
    /\ ~due
    /\ due' = TRUE
    /\ UNCHANGED <<serverVars, local, pc, listing, clean, fresh, fails>>

(***************************************************************************)
(* The reconcile.                                                          *)
(***************************************************************************)

InFeed(I, f) == {i \in I : FeedOf[i] = f}

\* diverging_feeds: only a feed of which the mirror holds more counts.
Diverging == \E i \in local :
    Cardinality(InFeed(local, FeedOf[i])) > Cardinality(InFeed(live, FeedOf[i]))

\* Mutant: no backstop, only the counts are trusted.
StartReconcileOnDivergence ==
    /\ pc = "idle"
    /\ listsIds
    /\ Diverging
    /\ pc' = "listing"
    /\ UNCHANGED <<serverVars, local, due, listing, clean, fresh, fails>>

\* Only of a server that lists its ids.  The counters are asked only when no
\* reconcile is due, and may not answer.
StartReconcile ==
    /\ pc = "idle"
    /\ listsIds
    /\ due \/ Diverging
    /\ pc' = "listing"
    /\ UNCHANGED <<serverVars, local, due, listing, clean, fresh, fails>>

\* One page of GET /v1/entries/ids: from the offset, the highest ids first.
Above(i) == {j \in live : j > i}
ListedPage == {i \in live : Cardinality(Above(i)) \in offset..(offset + Page - 1)}

\* Mutant: the ids of an earlier listing linger.
ListingOverKeepsSeen ==
    /\ offset' = 0 /\ total' = None /\ before' = {}
    /\ fresh' = {}
    /\ UNCHANGED seen

\* What the pass knew of the listing goes with it.
ListingOver ==
    /\ offset' = 0 /\ total' = None /\ seen' = {} /\ before' = {}
    /\ fresh' = {}

\* declared is the total the page carries; only the first one's counts.
ListPage(declared) ==
    /\ pc = "listing"
    /\ fails' = IF declared = None THEN fails + 1 ELSE fails
    /\ \/ /\ Cardinality(ListedPage) < Page
          /\ pc' = "listed"
          /\ UNCHANGED offset
       \/ /\ Cardinality(ListedPage) >= Page
          /\ offset' = offset + Page
          /\ pc' = IF offset + Page > MaxOffset THEN "endless" ELSE "listing"
    /\ seen' = seen \cup ListedPage
    /\ total' = IF offset = 0 THEN declared ELSE total
    /\ before' = IF offset = 0 THEN live ELSE before
    /\ fresh' = IF offset = 0 THEN {} ELSE fresh
    /\ UNCHANGED <<serverVars, local, due, clean>>

\* Mutant: any declared total will do.
WholeUnchecked == total # None

\* The guard: a total was declared, and as many ids were listed.
Whole == total # None /\ Cardinality(seen) = total

\* Whatever the listing misses is deleted, in one transaction ...
DeleteStale ==
    /\ pc = "listed"
    /\ Whole
    /\ local' = local \cap seen
    /\ clean' = TRUE
    /\ pc' = "done"
    /\ UNCHANGED <<serverVars, due, listing, fresh, fails>>

\* ... or, when the listing was torn, had no total or never ended, nothing is.
Abort ==
    /\ (pc = "listed" /\ ~Whole) \/ pc = "endless"
    /\ pc' = "done"
    /\ UNCHANGED <<serverVars, local, due, listing, clean, fresh, fails>>

\* Mutant: every attempt counts as run.
FinishPassAlways ==
    /\ pc = "done"
    /\ pc' = "idle"
    /\ due' = FALSE
    /\ clean' = FALSE
    /\ ListingOver
    /\ UNCHANGED <<serverVars, local, fails>>

\* set_sync_state: a completed reconcile counts as run, an aborted one does not.
FinishPass ==
    /\ pc = "done"
    /\ pc' = "idle"
    /\ due' = IF clean THEN FALSE ELSE due
    /\ clean' = FALSE
    /\ ListingOver
    /\ UNCHANGED <<serverVars, local, fails>>

\* A request or a later step of the pass fails, or the process dies.
FailPass ==
    /\ pc # "idle"
    /\ fails < MaxFails
    /\ fails' = fails + 1
    /\ pc' = "idle"
    /\ clean' = FALSE
    /\ ListingOver
    /\ UNCHANGED <<serverVars, local, due>>

-----------------------------------------------------------------------------

Server == Upgrade \/ \E i \in Ids : Insert(i) \/ Delete(i)

Totals == {Cardinality(live)} \cup IF fails < MaxFails THEN {None} ELSE {}

Pass ==
    \/ StartReconcile
    \/ \E declared \in Totals : ListPage(declared)
    \/ DeleteStale
    \/ Abort
    \/ FinishPass

Next ==
    \/ Server
    \/ \E I \in SUBSET Ids, R \in SUBSET (local \ live) : PullEntries(I, R)
    \/ \E I \in SUBSET Ids : Prune(I)
    \/ Elapse
    \/ Pass
    \/ FailPass

Spec == Init /\ [][Next]_vars

\* The interval elapses and the worker runs its passes, now and then with a version
\* the server has just given.  The server changes and passes fail only finitely often.
LiveSpec == Spec /\ WF_vars(Pass) /\ WF_vars(Elapse)

(***************************************************************************)
(* Properties.                                                             *)
(***************************************************************************)

\* The mirror holds only ids the server has used, and an idle worker remembers
\* nothing of its last listing (reconcile).
TypeOK ==
    /\ live \subseteq used /\ used \subseteq Ids
    /\ listsIds \in BOOLEAN
    /\ local \subseteq used
    /\ due \in BOOLEAN
    /\ pc \in {"idle", "listing", "listed", "endless", "done"}
    /\ offset \in Nat
    /\ total \in Nat \cup {None}
    /\ seen \subseteq Ids
    /\ clean \in BOOLEAN
    /\ pc = "idle" => seen = {} /\ ~clean
    /\ pc # "idle" => listsIds
    /\ before \subseteq Ids
    /\ fresh \subseteq Ids
    /\ fails \in Nat

\* "Correctness guard" (pull.rs, reconcile): whatever the server inserts and
\* deletes while it is listed, the reconcile deletes no entry that it still has,
\* and with it the intents queued for it.
SparesLive == [][DeleteStale => (local \ local') \cap live = {}]_vars

\* "Aborted reconcile deletes nothing, must NOT be recorded as run" (pull.rs,
\* Reconcile): once a run is recorded, every entry of the mirror was on the server
\* when its listing began.
RecordedMeansClean == [][due /\ ~due' => local' \subseteq before]_vars

\* An entry the server has deleted leaves the mirror in the end, whichever passes
\* fail and whatever the counts hide (sync: the interval is the backstop): once the
\* server lists its ids, and also what it deleted before.
GhostsLeave == \A i \in Ids : (i \in local \ live /\ listsIds) ~> i \notin local

=============================================================================
