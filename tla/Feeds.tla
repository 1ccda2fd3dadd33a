-------------------------------- MODULE Feeds --------------------------------
(***************************************************************************)
(* Feeds, categories and icons: what the mirror holds of them, the         *)
(* taxonomy step of a sync pass that replaces it by the server's listings, *)
(* the icon step that fetches a few missing icons, and the two commands    *)
(* that edit a feed on the server first and in the mirror second.          *)
(*                                                                         *)
(* The worker runs one command at a time.  Every request is a step of its  *)
(* own, other clients change the server between any two of them, and a     *)
(* failed request or the death of the process ends the command where it    *)
(* stands.  A proxy may answer the feed listing with a cached empty body.  *)
(*                                                                         *)
(* Abstracted: of a feed's columns the title, the category and the icon    *)
(* (the others are written together with these); of its entries whether    *)
(* there are any; of an icon whether it decodes; a feed without one is    *)
(* never asked for it, and left out.  The reconcile has a module of its    *)
(* own and does nothing here.  Miniflux never reuses a feed's id.          *)
(* `dropped' and `had' are history variables.                              *)
(***************************************************************************)
EXTENDS Naturals, FiniteSets

CONSTANTS
    MaxFeed,     \* feeds are 1..MaxFeed, in the order of their ids
    Titles,
    Categories,
    Icons,       \* icon ids
    BadIcons,    \* those whose bytes never decode
    PerPass,     \* icons_per_pass
    GiveUp,      \* the failures after which an icon is not asked for again
    None,        \* no feed
    MaxEvents    \* bound: what other clients, the network and the user do

Feed == [title : Titles, category : Categories, icon : Icons]

ASSUME FeedsAssumption ==
    /\ MaxFeed \in Nat /\ PerPass \in Nat \ {0} /\ GiveUp \in Nat \ {0}
    /\ BadIcons \subseteq Icons
    /\ None \notin Feed \union Titles \union Categories \union Icons
    /\ Titles # {} /\ Categories # {}
    /\ MaxEvents \in Nat

FeedIds == 1..MaxFeed
Listing == [FeedIds -> Feed \union {None}]
EmptyListing == [f \in FeedIds |-> None]
Present(t) == {f \in FeedIds : t[f] # None}

(* FeedPatch: None is a field the user did not touch. *)
Patch == [title : Titles \union {None}, category : Categories \union {None}]
NoPatch == [title |-> None, category |-> None]

VARIABLES
    \* the server
    served,      \* the feeds it has
    categories,  \* its categories
    used,        \* the feed ids it has given out
    \* the mirror
    feeds,       \* the feeds table
    groups,      \* the ids in the categories table
    named,       \* those with the server's title; the rest are placeholders
    entries,     \* the feeds with entries in the entries table
    icons,       \* the ids in the icons table
    failures,    \* [FeedIds -> Nat]: icon_failures
    \* the worker
    pc,          \* the step of the command that comes next
    listed,      \* the categories the pass was answered
    listing,     \* the feeds it was answered
    wanted,      \* the feeds whose icon it still asks for
    target,      \* the feed the command edits or removes
    patch,       \* the command's FeedPatch
    \* history
    dropped,     \* the feeds deleted from the mirror
    had,         \* [FeedIds -> what the server ever held of the feed]
    events

server == <<served, categories, used>>
tables == <<feeds, groups, named, entries>>
iconTables == <<icons, failures>>
answers == <<listed, listing, wanted>>
command == <<target, patch>>
vars == <<server, tables, iconTables, pc, answers, command, dropped, had, events>>

Steps == {"idle", "categories", "feeds", "store", "delete", "entries", "icons",
          "put", "patch", "remove", "forget"}

(* The mirror's categories are rows before they are named, and a feed is   *)
(* never asked for its icon once it was given up.                          *)
TypeOK ==
    /\ served \in Listing /\ feeds \in Listing /\ listing \in Listing
    /\ categories \in SUBSET Categories /\ listed \in SUBSET Categories
    /\ groups \in SUBSET Categories /\ named \in SUBSET groups
    /\ used \in SUBSET FeedIds /\ entries \in SUBSET FeedIds
    /\ icons \in SUBSET (Icons \ BadIcons)
    /\ failures \in [FeedIds -> 0..GiveUp]
    /\ pc \in Steps
    /\ wanted \in SUBSET FeedIds
    /\ target \in FeedIds \union {None} /\ patch \in Patch
    /\ dropped \in SUBSET FeedIds
    /\ had \in [FeedIds -> SUBSET (Titles \union Categories \union Icons)]
    /\ events \in 0..MaxEvents

Event == events < MaxEvents /\ events' = events + 1

------------------------------------------------------------------------------
(* The server. *)

Serve(f, row) ==
    /\ served' = [served EXCEPT ![f] = row]
    /\ had' = [had EXCEPT ![f] = @ \union {row.title, row.category, row.icon}]

(* Another client, or create_feed of Command::Subscribe, whose pass is the *)
(* next StartPass.  The category may be a new one.                         *)
OtherSubscribes(f, row) ==
    /\ Event
    /\ f \notin used
    /\ Serve(f, row)
    /\ categories' = categories \union {row.category}
    /\ used' = used \union {f}
    /\ UNCHANGED <<tables, iconTables, pc, answers, command, dropped>>

(* Another client renames or moves it, or Miniflux finds another icon. *)
OtherEdits(f, row) ==
    /\ Event
    /\ served[f] \notin {None, row}
    /\ Serve(f, row)
    /\ categories' = categories \union {row.category}
    /\ UNCHANGED <<used, tables, iconTables, pc, answers, command, dropped>>

OtherUnsubscribes(f) ==
    /\ Event
    /\ served[f] # None
    /\ served' = [served EXCEPT ![f] = None]
    /\ UNCHANGED <<categories, used, tables, iconTables, pc, answers, command, dropped, had>>

------------------------------------------------------------------------------
(* A sync pass: taxonomy, entries, icons. *)

StartPass ==
    /\ pc = "idle"
    /\ pc' = "categories"
    /\ UNCHANGED <<server, tables, iconTables, answers, command, dropped, had, events>>

(* The listings are two requests, one after the other. *)
ListCategories ==
    /\ pc = "categories"
    /\ listed' = categories
    /\ pc' = "feeds"
    /\ UNCHANGED <<server, tables, iconTables, listing, wanted, command, dropped, had, events>>

ListFeeds ==
    /\ pc = "feeds"
    /\ listing' = served
    /\ pc' = "store"
    /\ UNCHANGED <<server, tables, iconTables, listed, wanted, command, dropped, had, events>>

(* A proxy's cached []. *)
ListNoFeeds ==
    /\ pc = "feeds"
    /\ Event
    /\ listing' = EmptyListing
    /\ pc' = "store"
    /\ UNCHANGED <<server, tables, iconTables, listed, wanted, command, dropped, had>>

\* Mutant: every category of a feed is taken to have been listed.
PlaceholdersListed(t) == {}

(* The categories upsert_feed inserts lest the foreign key fail. *)
Placeholders(t) == {t[f].category : f \in Present(t)}

\* Mutant: the feeds already in the mirror keep the columns they have.
UpsertedOnce(t) == [f \in FeedIds |-> IF feeds[f] = None THEN t[f] ELSE feeds[f]]

\* Mutant: the listing takes the table's place.
UpsertedReplace(t) == t

(* upsert_feed: ON CONFLICT DO UPDATE; icon_failures is not among the      *)
(* columns updated.                                                        *)
Upserted(t) == [f \in FeedIds |-> IF t[f] = None THEN feeds[f] ELSE t[f]]

StoreTaxonomy ==
    /\ pc = "store"
    /\ feeds' = Upserted(listing)
    /\ groups' = groups \union listed \union Placeholders(listing)
    /\ named' = named \union listed
    /\ pc' = "delete"
    /\ UNCHANGED <<server, entries, iconTables, answers, command, dropped, had, events>>

\* Mutant: no listing is refused.
RefusesListingNever == FALSE

(* An empty listing is not read as a mass unsubscribe. *)
RefusesListing == Present(listing) = {} /\ Present(feeds) # {}

(* delete_feed of each of F, with its entries and its icon_failures. *)
DeleteFeeds(F) ==
    /\ feeds' = [f \in FeedIds |-> IF f \in F THEN None ELSE feeds[f]]
    /\ entries' = entries \ F
    /\ failures' = [f \in FeedIds |-> IF f \in F THEN 0 ELSE failures[f]]
    /\ dropped' = dropped \union F

DeleteGone ==
    /\ pc = "delete"
    /\ DeleteFeeds(IF RefusesListing THEN {} ELSE Present(feeds) \ Present(listing))
    /\ listed' = {} /\ listing' = EmptyListing
    /\ pc' = "entries"
    /\ UNCHANGED <<server, groups, named, icons, wanted, command, had, events>>

(* A page with the first entries of a feed the server has; the mirror      *)
(* need not have listed the feed.                                          *)
PullEntries(f) ==
    /\ pc = "entries"
    /\ served[f] # None /\ f \notin entries
    /\ entries' = entries \union {f}
    /\ UNCHANGED <<server, feeds, groups, named, iconTables, pc, answers, command,
                   dropped, had, events>>

------------------------------------------------------------------------------
(* fetch_icons. *)

Missing == {f \in Present(feeds) : feeds[f].icon \notin icons}

\* Mutant: no feed is given up.
MissingIconsAlways ==
    {f \in Missing : Cardinality({g \in Missing : failures[g] < failures[f]}) < PerPass}

\* Mutant: the first of them by id, given up or not.
MissingIconsById ==
    {f \in Missing : /\ Cardinality({g \in Missing : g < f}) < PerPass
                     /\ failures[f] < GiveUp}

(* feeds_missing_icons: ORDER BY icon_failures, id LIMIT n. *)
MissingIcons ==
    LET asked == {f \in Missing : failures[f] < GiveUp}
        Before(g, f) == failures[g] < failures[f] \/ (failures[g] = failures[f] /\ g < f)
    IN  {f \in asked : Cardinality({g \in asked : Before(g, f)}) < PerPass}

(* The pull is over; icons are asked for one by one. *)
ListMissingIcons ==
    /\ pc = "entries"
    /\ wanted' = MissingIcons
    /\ pc' = "icons"
    /\ UNCHANGED <<server, tables, iconTables, listed, listing, command, dropped, had, events>>

(* The icon of the feed; None, an error, when the feed is gone. *)
ServedIcon(f) == IF served[f] = None THEN None ELSE served[f].icon

(* decode_icon accepts the bytes.  They are stored under the id the server *)
(* has now, whatever the mirror's row says.                                *)
StoreIcon(f) ==
    /\ ServedIcon(f) \in Icons \ BadIcons
    /\ icons' = icons \union {ServedIcon(f)}
    /\ failures' = [failures EXCEPT ![f] = 0]
    /\ UNCHANGED events

RecordIconFailure(f) ==
    /\ failures' = [failures EXCEPT ![f] = @ + 1]
    /\ UNCHANGED icons

(* No feed, or bytes that do not decode. *)
RejectIcon(f) ==
    /\ ServedIcon(f) \in BadIcons \union {None}
    /\ RecordIconFailure(f)
    /\ UNCHANGED events

(* The request failed on the way. *)
LoseIcon(f) ==
    /\ Event
    /\ RecordIconFailure(f)

FetchIcon(f) ==
    /\ pc = "icons"
    /\ f \in wanted
    /\ StoreIcon(f) \/ RejectIcon(f) \/ LoseIcon(f)
    /\ wanted' = wanted \ {f}
    /\ UNCHANGED <<server, tables, pc, listed, listing, command, dropped, had>>

FinishPass ==
    /\ pc = "icons"
    /\ wanted = {}
    /\ pc' = "idle"
    /\ UNCHANGED <<server, tables, iconTables, answers, command, dropped, had, events>>

------------------------------------------------------------------------------
(* Editing and removing a feed: the server first, the mirror second. *)

(* The page shows a feed the mirror has, or had when the page was opened.  *)
Offered == Present(feeds) \union dropped

(* The end of a command. *)
Done == pc' = "idle" /\ target' = None /\ patch' = NoPatch

UpdateFeed(f, p) ==
    /\ pc = "idle"
    /\ Event
    /\ f \in Offered
    /\ p # NoPatch /\ p.category \in groups \union {None}
    /\ target' = f /\ patch' = p
    /\ pc' = "put"
    /\ UNCHANGED <<server, tables, iconTables, answers, dropped, had>>

Patched(row, p) ==
    [row EXCEPT !.title = IF p.title = None THEN @ ELSE p.title,
                !.category = IF p.category = None THEN @ ELSE p.category]

(* PUT /v1/feeds/{id}. *)
AcceptPut ==
    /\ served[target] # None
    /\ Serve(target, Patched(served[target], patch))
    /\ pc' = "patch"
    /\ UNCHANGED command

RefusePut ==
    /\ served[target] = None
    /\ Done
    /\ UNCHANGED <<served, had>>

\* Mutant: the answer is not looked at.
PutFeedUnchecked ==
    /\ pc = "put"
    /\ \/ AcceptPut
       \/ served[target] = None /\ pc' = "patch" /\ UNCHANGED <<served, had, command>>
    /\ UNCHANGED <<categories, used, tables, iconTables, answers, dropped, events>>

PutFeed ==
    /\ pc = "put"
    /\ AcceptPut \/ RefusePut
    /\ UNCHANGED <<categories, used, tables, iconTables, answers, dropped, events>>

(* apply_feed_patch: UPDATEs, which touch nothing where the row is gone. *)
PatchMirror ==
    /\ pc = "patch"
    /\ feeds' = IF feeds[target] = None THEN feeds
                ELSE [feeds EXCEPT ![target] = Patched(@, patch)]
    /\ groups' = groups \union ({patch.category} \ {None})
    /\ Done
    /\ UNCHANGED <<server, named, entries, iconTables, answers, dropped, had, events>>

Unsubscribe(f) ==
    /\ pc = "idle"
    /\ Event
    /\ f \in Offered
    /\ target' = f /\ patch' = NoPatch
    /\ pc' = "remove"
    /\ UNCHANGED <<server, tables, iconTables, answers, dropped, had>>

(* DELETE /v1/feeds/{id}: a feed already gone is an error. *)
DeleteOnServer ==
    /\ pc = "remove"
    /\ IF served[target] = None THEN Done ELSE pc' = "forget" /\ UNCHANGED command
    /\ served' = [served EXCEPT ![target] = None]
    /\ UNCHANGED <<categories, used, tables, iconTables, answers, dropped, had, events>>

ForgetFeed ==
    /\ pc = "forget"
    /\ DeleteFeeds({target})
    /\ Done
    /\ UNCHANGED <<server, groups, named, icons, answers, had, events>>

(* A request fails, its answer is lost, or the process dies. *)
StopCommand ==
    /\ pc # "idle"
    /\ Event
    /\ Done
    /\ listed' = {} /\ listing' = EmptyListing /\ wanted' = {}
    /\ UNCHANGED <<server, tables, iconTables, dropped, had>>

------------------------------------------------------------------------------

(* A phone without a mirror. *)
Init ==
    /\ served = EmptyListing /\ feeds = EmptyListing /\ listing = EmptyListing
    /\ categories = {} /\ listed = {} /\ groups = {} /\ named = {}
    /\ used = {} /\ entries = {} /\ icons = {} /\ wanted = {} /\ dropped = {}
    /\ failures = [f \in FeedIds |-> 0]
    /\ pc = "idle" /\ target = None /\ patch = NoPatch
    /\ had = [f \in FeedIds |-> {}]
    /\ events = 0

Others ==
    \E f \in FeedIds :
        \/ \E row \in Feed : OtherSubscribes(f, row) \/ OtherEdits(f, row)
        \/ OtherUnsubscribes(f)

PassStep ==
    \/ StartPass \/ ListCategories \/ ListFeeds \/ StoreTaxonomy \/ DeleteGone
    \/ ListMissingIcons \/ FinishPass
    \/ \E f \in FeedIds : FetchIcon(f)

CommandStep == PutFeed \/ PatchMirror \/ DeleteOnServer \/ ForgetFeed

Next ==
    \/ Others
    \/ PassStep \/ ListNoFeeds
    \/ \E f \in FeedIds : PullEntries(f)
    \/ \E f \in FeedIds : Unsubscribe(f) \/ \E p \in Patch : UpdateFeed(f, p)
    \/ CommandStep
    \/ StopCommand

Spec == Init /\ [][Next]_vars

(* Passes recur (the interval, a refresh), and a command that has begun    *)
(* goes on: block_on returns within the transport's timeout.               *)
LiveSpec == Spec /\ WF_vars(PassStep) /\ WF_vars(CommandStep)

------------------------------------------------------------------------------

(* Every feed the mirror holds is in a category the mirror holds, though   *)
(* the two are listed by different requests and a category may be made in  *)
(* between: the foreign key of feeds.category_id never fails a pass.       *)
NoOrphanFeed == \A f \in Present(feeds) : feeds[f].category \in groups

(* A feed the mirror deleted, with its entries and the intents on them, is *)
(* one the user had unsubscribed from; nothing of it comes back, from a    *)
(* listing read earlier or a page read later.  A cached empty listing      *)
(* deletes nothing.                                                        *)
DroppedIsGone ==
    \A f \in dropped : served[f] = None /\ feeds[f] = None /\ f \notin entries

(* What the mirror says of a feed, the server once said: an edit shows     *)
(* only after it was accepted, and a refused one never shows.              *)
MirrorNeverAhead ==
    \A f \in Present(feeds) :
        {feeds[f].title, feeds[f].category, feeds[f].icon} \subseteq had[f]

(* The taxonomy step, the edits and the removals keep the promise of       *)
(* Subscriptions, step by step: a feed leaves the mirror only through      *)
(* delete_feed, its entries with it, and only once the server has dropped  *)
(* it; what a row then shows, or an edit, the server said before.          *)
Columns == Titles \union Categories \union Icons
ColumnsOf(row) == IF row = None THEN {} ELSE {row.title, row.category, row.icon}

Promise == INSTANCE Subscriptions WITH
    Ids <- FeedIds,
    remote <- Present(served),
    given <- used,
    said <- had,
    shown <- [f \in FeedIds |-> ColumnsOf(feeds[f])],
    forgotten <- dropped

ImplementsSubscriptions == Promise!Spec

(* When the changes end the mirror has the server's feeds, each in a       *)
(* category with its name, unless the server has no feed at all: then the  *)
(* refused listing keeps what was there.                                   *)
Converges ==
    <>[](\/ Present(served) = {}
         \/ feeds = served /\ \A f \in Present(feeds) : feeds[f].category \in named)

(* No feed waits for ever behind the ones whose icon cannot be had: its    *)
(* icon arrives, or it was asked for GiveUp times in vain.                 *)
IconsSettle ==
    <>[](\A f \in Present(feeds) :
            feeds[f].icon \in icons \/ failures[f] = GiveUp)

=============================================================================
