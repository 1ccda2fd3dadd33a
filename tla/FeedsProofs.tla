----------------------------- MODULE FeedsProofs -----------------------------
(***************************************************************************)
(* Feeds, categories and icons, proved for any number of feeds, titles,    *)
(* categories and icons, any batch of icons and any bound of failures.     *)
(*                                                                         *)
(* The argument: a listing is only in hand between the request and the     *)
(* deletion, and while it is, a feed the mirror has and a listing that is  *)
(* not empty lacks is gone for good, because the server gives an id out    *)
(* once and the mirror learns of feeds from listings alone.  An edit in    *)
(* hand after its PUT is one the server has held.  With both, every step   *)
(* is one of Subscriptions.                                                *)
(***************************************************************************)
EXTENDS Feeds, TLAPS

\* A feed in the icon batch has not been given up.
WantedInv == \A f \in wanted : failures[f] < GiveUp

\* A command edits a feed the server once gave out.
TargetInv == pc \in {"put", "patch", "remove", "forget"} => target \in used

Types == TypeOK /\ WantedInv /\ TargetInv

\* What is known of a feed is known of an id the server gave out.
IdsInv ==
    /\ \A f \in FeedIds \ used : served[f] = None /\ feeds[f] = None /\ listing[f] = None
    /\ dropped \subseteq used
    /\ pc = "forget" => served[target] = None

\* What the listing in hand leaves out.
ListingInv ==
    /\ pc \notin {"store", "delete"} => listing = EmptyListing
    /\ \A f \in dropped : listing[f] = None
    /\ \A f \in FeedIds :
          (feeds[f] # None /\ listing[f] = None /\ Present(listing) # {}) => served[f] = None

\* The row's columns are among the values of h.
Said(h, row) == {row.title, row.category, row.icon} \subseteq h

SaidInv ==
    /\ \A f \in FeedIds :
          /\ served[f] # None => Said(had[f], served[f])
          /\ feeds[f] # None => Said(had[f], feeds[f])
          /\ listing[f] # None => Said(had[f], listing[f])
    /\ pc = "patch" => {patch.title, patch.category} \ {None} \subseteq had[target]

FeedsInv == Types /\ IdsInv /\ ListingInv /\ DroppedIsGone

-----------------------------------------------------------------------------

\* Present is a set of feed ids.
LEMMA PresentIsFeeds ==
  ASSUME NEW t, NEW f
  PROVE  f \in Present(t) <=> f \in FeedIds /\ t[f] # None
  BY DEF Present

\* An edited row is a row, and its columns are the edit's or its own.
LEMMA PatchedRow ==
  ASSUME NEW row \in Feed, NEW p \in Patch
  PROVE  /\ Patched(row, p) \in Feed
         /\ Patched(row, p).title = IF p.title = None THEN row.title ELSE p.title
         /\ Patched(row, p).category = IF p.category = None THEN row.category ELSE p.category
         /\ Patched(row, p).icon = row.icon
  BY FeedsAssumption DEF Patched, Feed, Patch

\* The batch holds feeds that were not given up.
LEMMA BatchNotGivenUp ==
  ASSUME NEW f \in MissingIcons
  PROVE  f \in FeedIds /\ failures[f] < GiveUp
  BY DEF MissingIcons, Missing, Present

\* What an icon request may find is an icon of the server's, or nothing.
LEMMA ServedIconType ==
  ASSUME TypeOK, NEW f \in FeedIds
  PROVE  ServedIcon(f) \in Icons \union {None}
  BY DEF TypeOK, Listing, ServedIcon, Feed

-----------------------------------------------------------------------------
(* Types. *)

\* A phone without a mirror is well-typed.
LEMMA InitTypes == Init => Types
<1> SUFFICES ASSUME Init PROVE Types
  OBVIOUS
<1>1. EmptyListing \in Listing /\ NoPatch \in Patch
  BY DEF EmptyListing, Listing, NoPatch, Patch
<1>2. QED
  BY <1>1, FeedsAssumption DEF Init, Types, TypeOK, WantedInv, TargetInv, Steps

\* The server's own steps keep the types.
LEMMA OthersTypes ==
  ASSUME Types, Others
  PROVE  Types'
<1>1. PICK f \in FeedIds : \/ \E row \in Feed : OtherSubscribes(f, row) \/ OtherEdits(f, row)
                           \/ OtherUnsubscribes(f)
  BY DEF Others
<1>2. CASE OtherUnsubscribes(f)
  BY <1>2, FeedsAssumption DEF OtherUnsubscribes, Event, Types, TypeOK, WantedInv, TargetInv,
     Listing, tables, iconTables, answers, command
<1>3. ASSUME NEW row \in Feed, OtherSubscribes(f, row) \/ OtherEdits(f, row)
      PROVE  Types'
  <2>1. row.title \in Titles /\ row.category \in Categories /\ row.icon \in Icons
    BY DEF Feed
  <2>2. served' \in Listing
    BY <1>3 DEF OtherSubscribes, OtherEdits, Serve, Types, TypeOK, Listing
  <2>3. had' \in [FeedIds -> SUBSET (Titles \union Categories \union Icons)]
    BY <1>3, <2>1 DEF OtherSubscribes, OtherEdits, Serve, Types, TypeOK
  <2>4. /\ categories' \in SUBSET Categories /\ used' \in SUBSET FeedIds
        /\ used \subseteq used' /\ events' \in 0..MaxEvents
    BY <1>3, <2>1, FeedsAssumption DEF OtherSubscribes, OtherEdits, Event, Types, TypeOK
  <2>5. UNCHANGED <<tables, iconTables, pc, answers, command, dropped>>
    BY <1>3 DEF OtherSubscribes, OtherEdits
  <2>6. QED
    BY <2>2, <2>3, <2>4, <2>5 
    DEF Types, TypeOK, WantedInv, TargetInv, tables, iconTables, answers, command
<1>4. QED
  BY <1>1, <1>2, <1>3

\* So do the listings and the transaction that stores them.
LEMMA TaxonomyTypes ==
  ASSUME Types,
         StartPass \/ ListCategories \/ ListFeeds \/ ListNoFeeds \/ StoreTaxonomy
  PROVE  Types'
<1> USE DEF server, tables, iconTables, answers, command
<1>1. CASE StartPass
  BY <1>1 DEF StartPass, Types, TypeOK, WantedInv, TargetInv, Steps
<1>2. CASE ListCategories
  BY <1>2 DEF ListCategories, Types, TypeOK, WantedInv, TargetInv, Steps
<1>3. CASE ListFeeds
  BY <1>3 DEF ListFeeds, Types, TypeOK, WantedInv, TargetInv, Steps
<1>4. CASE ListNoFeeds
  <2>1. EmptyListing \in Listing
    BY DEF EmptyListing, Listing
  <2>2. QED
    BY <1>4, <2>1, FeedsAssumption DEF ListNoFeeds, Event, Types, TypeOK, WantedInv, TargetInv, Steps
<1>5. CASE StoreTaxonomy
  <2>1. Upserted(listing) \in Listing
    BY DEF Upserted, Types, TypeOK, Listing
  <2>2. Placeholders(listing) \in SUBSET Categories
    BY DEF Placeholders, Present, Types, TypeOK, Listing, Feed
  <2>3. QED
    BY <1>5, <2>1, <2>2 DEF StoreTaxonomy, Types, TypeOK, WantedInv, TargetInv, Steps
<1>6. QED
  BY <1>1, <1>2, <1>3, <1>4, <1>5

\* And the deletion of feeds, in a pass or on demand.
LEMMA DeleteTypes ==
  ASSUME Types, DeleteGone \/ ForgetFeed
  PROVE  Types'
<1>1. EmptyListing \in Listing /\ NoPatch \in Patch
  BY DEF EmptyListing, Listing, NoPatch, Patch
<1>2. ASSUME NEW F, DeleteFeeds(F)
      PROVE  /\ feeds' \in Listing /\ entries' \in SUBSET FeedIds
             /\ failures' \in [FeedIds -> 0..GiveUp]
             /\ \A f \in FeedIds : failures[f] < GiveUp => failures'[f] < GiveUp
  BY <1>2, FeedsAssumption DEF DeleteFeeds, Types, TypeOK, Listing
<1>3. CASE DeleteGone
  <2>1. DeleteFeeds(IF RefusesListing THEN {} ELSE Present(feeds) \ Present(listing))
    BY <1>3 DEF DeleteGone
  <2>2. dropped' \in SUBSET FeedIds
    BY <2>1 DEF DeleteFeeds, Types, TypeOK, Present
  <2>3. QED
    BY <1>1, <1>2, <1>3, <2>1, <2>2
    DEF DeleteGone, Types, TypeOK, WantedInv, TargetInv, Steps, server, answers, command
<1>4. CASE ForgetFeed
  <2>1. DeleteFeeds({target})
    BY <1>4 DEF ForgetFeed
  <2>2. dropped' \in SUBSET FeedIds
    BY <1>4, <2>1 DEF ForgetFeed, DeleteFeeds, Types, TypeOK, TargetInv
  <2>3. QED
    BY <1>1, <1>2, <1>4, <2>1, <2>2
    DEF ForgetFeed, Done, Types, TypeOK, WantedInv, TargetInv, Steps, server, answers, command
<1>5. QED
  BY <1>3, <1>4

\* And the entries and the icons.
LEMMA IconTypes ==
  ASSUME Types,
         \/ \E f \in FeedIds : PullEntries(f) \/ FetchIcon(f)
         \/ ListMissingIcons \/ FinishPass
  PROVE  Types'
<1> USE DEF server, tables, iconTables, answers, command
<1>1. ASSUME NEW f \in FeedIds, PullEntries(f) PROVE Types'
  BY <1>1 DEF PullEntries, Types, TypeOK, WantedInv, TargetInv
<1>2. ASSUME NEW f \in FeedIds, FetchIcon(f) PROVE Types'
  <2>1. f \in wanted /\ failures[f] < GiveUp /\ failures[f] \in Nat
    BY <1>2, FeedsAssumption DEF FetchIcon, Types, TypeOK, WantedInv
  <2>2. /\ icons' \in SUBSET (Icons \ BadIcons)
        /\ failures' \in [FeedIds -> 0..GiveUp]
        /\ \A g \in FeedIds : g # f => failures'[g] = failures[g]
        /\ events' \in 0..MaxEvents
    <3>1. CASE StoreIcon(f)
      BY <3>1, FeedsAssumption, ServedIconType DEF StoreIcon, Types, TypeOK
    <3>2. CASE RejectIcon(f) \/ LoseIcon(f)
      BY <2>1, <3>2, FeedsAssumption
      DEF RejectIcon, LoseIcon, RecordIconFailure, Event, Types, TypeOK
    <3>3. QED
      BY <1>2, <3>1, <3>2 DEF FetchIcon
  <2>3. /\ wanted' = wanted \ {f}
        /\ UNCHANGED <<server, tables, pc, listed, listing, command, dropped, had>>
    BY <1>2 DEF FetchIcon
  <2>4. TypeOK'
    BY <2>2, <2>3 DEF Types, TypeOK
  <2>5. WantedInv'
    BY <2>2, <2>3 DEF Types, TypeOK, WantedInv
  <2>6. QED
    BY <2>3, <2>4, <2>5 DEF Types, TargetInv
<1>3. CASE ListMissingIcons
  <2>1. MissingIcons \in SUBSET FeedIds /\ \A f \in MissingIcons : failures[f] < GiveUp
    BY BatchNotGivenUp
  <2>2. QED
    BY <1>3, <2>1 DEF ListMissingIcons, Types, TypeOK, WantedInv, TargetInv, Steps
<1>4. CASE FinishPass
  BY <1>4 DEF FinishPass, Types, TypeOK, WantedInv, TargetInv, Steps
<1>5. QED
  BY <1>1, <1>2, <1>3, <1>4

\* And the commands that edit a feed, those cut short included; of the feeds
\* offered to the user each was given out by the server.
LEMMA CommandTypes ==
  ASSUME Types, Offered \subseteq used,
         \/ \E f \in FeedIds : Unsubscribe(f) \/ \E p \in Patch : UpdateFeed(f, p)
         \/ PutFeed \/ PatchMirror \/ DeleteOnServer \/ StopCommand
  PROVE  Types'
<1> USE DEF server, tables, iconTables, answers, command
<1>0. EmptyListing \in Listing /\ NoPatch \in Patch
  BY DEF EmptyListing, Listing, NoPatch, Patch
<1>1. ASSUME NEW f \in FeedIds, Unsubscribe(f) PROVE Types'
  BY <1>0, <1>1, FeedsAssumption
  DEF Unsubscribe, Event, Types, TypeOK, WantedInv, TargetInv, Steps
<1>2. ASSUME NEW f \in FeedIds, NEW p \in Patch, UpdateFeed(f, p) PROVE Types'
  BY <1>2, FeedsAssumption DEF UpdateFeed, Event, Types, TypeOK, WantedInv, TargetInv, Steps
<1>3. CASE PutFeed
  <2>1. target \in FeedIds /\ patch \in Patch
    BY <1>3 DEF PutFeed, Types, TypeOK, TargetInv
  <2>2. CASE AcceptPut
    <3>1. Patched(served[target], patch) \in Feed
      BY <2>1, <2>2, PatchedRow DEF AcceptPut, Types, TypeOK, Listing
    <3> DEFINE row == Patched(served[target], patch)
    <3>2. row.title \in Titles /\ row.category \in Categories /\ row.icon \in Icons
      BY <3>1 DEF Feed
    <3>3. Serve(target, row)
      BY <2>2 DEF AcceptPut
    <3> HIDE DEF row
    <3>4. served' \in Listing
      BY <2>1, <3>1, <3>3 DEF Serve, Types, TypeOK, Listing, row
    <3>5. had' \in [FeedIds -> SUBSET (Titles \union Categories \union Icons)]
      BY <2>1, <3>2, <3>3 DEF Serve, Types, TypeOK
    <3>6. /\ pc' = "patch"
          /\ UNCHANGED <<command, categories, used, tables, iconTables, answers, dropped, events>>
      BY <1>3, <2>2 DEF PutFeed, AcceptPut
    <3>7. pc = "put"
      BY <1>3 DEF PutFeed
    <3>8. QED
      BY <3>4, <3>5, <3>6, <3>7 DEF Types, TypeOK, WantedInv, TargetInv, Steps
  <2>3. CASE RefusePut
    BY <1>0, <1>3, <2>3 DEF PutFeed, RefusePut, Done, Types, TypeOK, WantedInv, TargetInv, Steps
  <2>4. QED
    BY <1>3, <2>2, <2>3 DEF PutFeed
<1>4. CASE PatchMirror
  <2>1. feeds' \in Listing
    BY <1>4, PatchedRow DEF PatchMirror, Types, TypeOK, TargetInv, Listing
  <2>2. groups' \in SUBSET Categories /\ groups \subseteq groups'
    BY <1>4 DEF PatchMirror, Types, TypeOK, Patch
  <2>3. QED
    BY <1>0, <1>4, <2>1, <2>2
    DEF PatchMirror, Done, Types, TypeOK, WantedInv, TargetInv, Steps
<1>5. CASE DeleteOnServer
  <2>1. served' \in Listing
    BY <1>5 DEF DeleteOnServer, Types, TypeOK, Listing
  <2>2. QED
    BY <1>0, <1>5, <2>1
    DEF DeleteOnServer, Done, Types, TypeOK, WantedInv, TargetInv, Steps
<1>6. CASE StopCommand
  BY <1>0, <1>6, FeedsAssumption
  DEF StopCommand, Done, Event, Types, TypeOK, WantedInv, TargetInv, Steps
<1>7. QED
  BY <1>1, <1>2, <1>3, <1>4, <1>5, <1>6

\* What the user is offered, the server gave out.
LEMMA OfferedIsUsed ==
  ASSUME IdsInv
  PROVE  Offered \subseteq used
  BY PresentIsFeeds DEF IdsInv, Offered

\* Every step keeps the types.
LEMMA NextTypes ==
  ASSUME Types, IdsInv, [Next]_vars
  PROVE  Types'
<1>1. CASE UNCHANGED vars
  BY <1>1 DEF vars, server, tables, iconTables, answers, command, Types, TypeOK, WantedInv,
     TargetInv
<1>2. CASE Next
  BY <1>2, OfferedIsUsed, OthersTypes, TaxonomyTypes, DeleteTypes, IconTypes, CommandTypes
  DEF Next, PassStep, CommandStep
<1>3. QED
  BY <1>1, <1>2

-----------------------------------------------------------------------------
(* What is deleted is gone. *)

\* Nothing is listed or dropped at the start.
LEMMA InitFeeds == Init => FeedsInv
  BY InitTypes DEF Init, FeedsInv, IdsInv, ListingInv, DroppedIsGone, EmptyListing, Present

\* A step that touches neither the feeds nor a listing nor what is dropped.
LEMMA QuietFeeds ==
  ASSUME FeedsInv, UNCHANGED <<served, used, feeds, listing, dropped, entries>>,
         pc' \in {"store", "delete"} <=> pc \in {"store", "delete"},
         pc' # "forget"
  PROVE  IdsInv' /\ ListingInv' /\ DroppedIsGone'
  BY DEF FeedsInv, IdsInv, ListingInv, DroppedIsGone, Present

\* Other clients: an id is given out once.
LEMMA OthersFeeds ==
  ASSUME FeedsInv, Others
  PROVE  IdsInv' /\ ListingInv' /\ DroppedIsGone'
<1> USE DEF FeedsInv, Types, TypeOK, Listing, tables, iconTables, answers, command
<1>1. PICK f \in FeedIds : \/ \E row \in Feed : OtherSubscribes(f, row) \/ OtherEdits(f, row)
                           \/ OtherUnsubscribes(f)
  BY DEF Others
<1>2. CASE OtherUnsubscribes(f)
  BY <1>2 DEF OtherUnsubscribes, IdsInv, ListingInv, DroppedIsGone, Present
<1>3. ASSUME NEW row \in Feed, OtherSubscribes(f, row)
      PROVE  IdsInv' /\ ListingInv' /\ DroppedIsGone'
  <2>1. /\ f \notin used /\ used' = used \union {f}
        /\ \A g \in FeedIds : g # f => served'[g] = served[g]
        /\ UNCHANGED <<feeds, listing, dropped, entries, pc, target>>
    BY <1>3 DEF OtherSubscribes, Serve
  <2>2. IdsInv'
    BY <2>1 DEF IdsInv, TargetInv
  <2>3. ListingInv'
    BY <2>1 DEF IdsInv, ListingInv, Present
  <2>4. DroppedIsGone'
    BY <2>1 DEF IdsInv, DroppedIsGone
  <2>5. QED
    BY <2>2, <2>3, <2>4
<1>4. ASSUME NEW row \in Feed, OtherEdits(f, row)
      PROVE  IdsInv' /\ ListingInv' /\ DroppedIsGone'
  BY <1>4 DEF OtherEdits, Serve, IdsInv, ListingInv, DroppedIsGone, Present
<1>5. QED
  BY <1>1, <1>2, <1>3, <1>4

\* A pass: the listing comes in hand, is stored, and goes with the deletion.
LEMMA PassFeeds ==
  ASSUME FeedsInv, Types',
         \/ PassStep \/ ListNoFeeds
         \/ \E f \in FeedIds : PullEntries(f)
  PROVE  IdsInv' /\ ListingInv' /\ DroppedIsGone'
<1> USE DEF server, tables, iconTables, answers, command
<1>1. CASE StartPass \/ ListCategories \/ ListMissingIcons \/ FinishPass
  BY <1>1, QuietFeeds DEF StartPass, ListCategories, ListMissingIcons, FinishPass
<1>2. CASE ListFeeds
  BY <1>2 DEF ListFeeds, FeedsInv, IdsInv, ListingInv, DroppedIsGone, Present
<1>3. CASE ListNoFeeds
  BY <1>3 DEF ListNoFeeds, FeedsInv, IdsInv, ListingInv, DroppedIsGone, Present, EmptyListing,
     Types, TypeOK
<1>4. CASE StoreTaxonomy
  <2>1. \A f \in FeedIds : feeds'[f] = IF listing[f] = None THEN feeds[f] ELSE listing[f]
    BY <1>4 DEF StoreTaxonomy, Upserted
  <2>2. /\ UNCHANGED <<served, used, listing, dropped, entries>>
        /\ pc' = "delete"
    BY <1>4 DEF StoreTaxonomy
  <2>3. QED
    BY <2>1, <2>2 DEF FeedsInv, IdsInv, ListingInv, DroppedIsGone, Present, Types, TypeOK
<1>5. CASE DeleteGone
  <2> DEFINE gone == IF RefusesListing THEN {} ELSE Present(feeds) \ Present(listing)
  <2>1. /\ \A f \in FeedIds : feeds'[f] = IF f \in gone THEN None ELSE feeds[f]
        /\ entries' = entries \ gone /\ dropped' = dropped \union gone
        /\ listing' = EmptyListing /\ pc' = "entries" /\ UNCHANGED <<served, used>>
    BY <1>5 DEF DeleteGone, DeleteFeeds
  <2>2. \A f \in gone : f \in FeedIds /\ served[f] = None /\ f \in used
    BY DEF RefusesListing, Present, FeedsInv, IdsInv, ListingInv
  <2> HIDE DEF gone
  <2>3. DroppedIsGone'
    BY <2>1, <2>2 DEF FeedsInv, DroppedIsGone, Types, TypeOK
  <2>4. ListingInv'
    BY <2>1 DEF ListingInv, EmptyListing, Present, Types, TypeOK
  <2>5. IdsInv'
    BY <2>1, <2>2 DEF FeedsInv, IdsInv, EmptyListing
  <2>6. QED
    BY <2>3, <2>4, <2>5
<1>6. ASSUME NEW f \in FeedIds, FetchIcon(f) PROVE IdsInv' /\ ListingInv' /\ DroppedIsGone'
  BY <1>6, QuietFeeds DEF FetchIcon
<1>7. ASSUME NEW f \in FeedIds, PullEntries(f) PROVE IdsInv' /\ ListingInv' /\ DroppedIsGone'
  BY <1>7 DEF PullEntries, FeedsInv, IdsInv, ListingInv, DroppedIsGone, Present
<1>8. QED
  BY <1>1, <1>2, <1>3, <1>4, <1>5, <1>6, <1>7 DEF PassStep

\* The commands: the mirror forgets a feed once the server has.
LEMMA CommandFeeds ==
  ASSUME FeedsInv, Types',
         \/ \E f \in FeedIds : Unsubscribe(f) \/ \E p \in Patch : UpdateFeed(f, p)
         \/ CommandStep \/ StopCommand
  PROVE  IdsInv' /\ ListingInv' /\ DroppedIsGone'
<1> USE DEF server, tables, iconTables, answers, command
<1>1. ASSUME NEW f \in FeedIds, Unsubscribe(f) \/ \E p \in Patch : UpdateFeed(f, p)
      PROVE  IdsInv' /\ ListingInv' /\ DroppedIsGone'
  BY <1>1, QuietFeeds DEF Unsubscribe, UpdateFeed
<1>2. CASE PutFeed
  <2>1. target \in used /\ target \in FeedIds /\ pc = "put"
    BY <1>2 DEF PutFeed, FeedsInv, Types, TypeOK, TargetInv
  <2>2. CASE AcceptPut
    BY <1>2, <2>1, <2>2
    DEF PutFeed, AcceptPut, Serve, FeedsInv, IdsInv, ListingInv, DroppedIsGone, Types, TypeOK,
        Listing, Present
  <2>3. CASE RefusePut
    BY <1>2, <2>3, QuietFeeds DEF PutFeed, RefusePut, Done
  <2>4. QED
    BY <1>2, <2>2, <2>3 DEF PutFeed
<1>3. CASE PatchMirror
  <2>1. \A f \in FeedIds : feeds'[f] # None => feeds[f] # None
    BY <1>3 DEF PatchMirror, FeedsInv, Types, TypeOK, Listing
  <2>2. /\ UNCHANGED <<served, used, listing, dropped, entries>>
        /\ pc' = "idle" /\ pc = "patch"
    BY <1>3 DEF PatchMirror, Done
  <2>3. QED
    BY <2>1, <2>2 DEF FeedsInv, IdsInv, ListingInv, DroppedIsGone, Present, Types, TypeOK
<1>4. CASE DeleteOnServer
  <2>1. target \in used /\ target \in FeedIds
    BY <1>4 DEF DeleteOnServer, FeedsInv, Types, TypeOK, TargetInv
  <2>2. \A f \in FeedIds : served'[f] = IF f = target THEN None ELSE served[f]
    BY <1>4 DEF DeleteOnServer, FeedsInv, Types, TypeOK, Listing
  <2>3. /\ UNCHANGED <<used, feeds, listing, dropped, entries>>
        /\ pc = "remove" /\ pc' \in {"idle", "forget"}
        /\ pc' = "forget" => target' = target
    BY <1>4 DEF DeleteOnServer, Done
  <2>4. QED
    BY <2>1, <2>2, <2>3 DEF FeedsInv, IdsInv, ListingInv, DroppedIsGone, Present, Types, TypeOK
<1>5. CASE ForgetFeed
  <2>1. target \in used /\ target \in FeedIds /\ served[target] = None
    BY <1>5 DEF ForgetFeed, FeedsInv, Types, TypeOK, TargetInv, IdsInv
  <2>2. /\ \A f \in FeedIds : feeds'[f] = IF f = target THEN None ELSE feeds[f]
        /\ entries' = entries \ {target} /\ dropped' = dropped \union {target}
        /\ UNCHANGED <<served, used, listing>> /\ pc = "forget" /\ pc' = "idle"
    BY <1>5 DEF ForgetFeed, DeleteFeeds, Done
  <2>3. listing = EmptyListing
    BY <2>2 DEF FeedsInv, ListingInv
  <2>4. QED
    BY <2>1, <2>2, <2>3
    DEF FeedsInv, IdsInv, ListingInv, DroppedIsGone, EmptyListing, Present, Types, TypeOK
<1>6. CASE StopCommand
  <2>1. /\ UNCHANGED <<served, used, feeds, dropped, entries>>
        /\ pc' = "idle" /\ listing' = EmptyListing
    BY <1>6 DEF StopCommand, Done
  <2>2. QED
    BY <2>1
    DEF FeedsInv, IdsInv, ListingInv, DroppedIsGone, EmptyListing, Present, Types, TypeOK
<1>7. QED
  BY <1>1, <1>2, <1>3, <1>4, <1>5, <1>6 DEF CommandStep

\* Every step keeps the invariant.
LEMMA NextFeeds == FeedsInv /\ [Next]_vars => FeedsInv'
<1> SUFFICES ASSUME FeedsInv, [Next]_vars PROVE FeedsInv'
  OBVIOUS
<1>1. Types'
  BY NextTypes DEF FeedsInv
<1>2. IdsInv' /\ ListingInv' /\ DroppedIsGone'
  <2>1. CASE UNCHANGED vars
    BY <2>1 DEF vars, server, tables, iconTables, answers, command, FeedsInv, IdsInv, ListingInv,
       DroppedIsGone, Present
  <2>2. CASE Next
    BY <1>1, <2>2, OthersFeeds, PassFeeds, CommandFeeds DEF Next
  <2>3. QED
    BY <2>1, <2>2
<1>3. QED
  BY <1>1, <1>2 DEF FeedsInv

(* The types hold of every behaviour; failures never exceed the bound at   *)
(* which feeds_missing_icons gives a feed up.                              *)
THEOREM TypeCorrect == Spec => []TypeOK
<1>1. FeedsInv => TypeOK
  BY DEF FeedsInv, Types
<1>2. QED
  BY <1>1, InitFeeds, NextFeeds, PTL DEF Spec

(* The taxonomy and Unsubscribe delete only feeds the user unsubscribed    *)
(* from, and nothing brings one back.                                      *)
THEOREM OnlyTheGoneAreDropped == Spec => []DroppedIsGone
<1>1. FeedsInv => DroppedIsGone
  BY DEF FeedsInv
<1>2. QED
  BY <1>1, InitFeeds, NextFeeds, PTL DEF Spec

-----------------------------------------------------------------------------
(* Categories. *)

(* No pass, edit or removal leaves a feed in a category the mirror lacks,  *)
(* though upsert_feed and apply_feed_patch meet ones that were not listed. *)
THEOREM FeedsHaveCategories == Spec => []NoOrphanFeed
<1>1. Init => NoOrphanFeed
  BY DEF Init, NoOrphanFeed, EmptyListing, Present
<1>2. ASSUME FeedsInv, NoOrphanFeed, [Next]_vars
      PROVE  NoOrphanFeed'
  <2>1. CASE UNCHANGED <<feeds, groups>>
    BY <1>2, <2>1 DEF NoOrphanFeed, Present
  <2>2. CASE StoreTaxonomy
    <3>1. \A f \in FeedIds : feeds'[f] = IF listing[f] = None THEN feeds[f] ELSE listing[f]
      BY <2>2 DEF StoreTaxonomy, Upserted
    <3>2. groups' = groups \union listed \union Placeholders(listing)
      BY <2>2 DEF StoreTaxonomy
    <3>3. \A f \in FeedIds : listing[f] # None => listing[f].category \in Placeholders(listing)
      BY DEF Placeholders, Present
    <3>4. QED
      BY <1>2, <3>1, <3>2, <3>3 DEF NoOrphanFeed, Present
  <2>3. ASSUME NEW F, DeleteFeeds(F), UNCHANGED groups
        PROVE  NoOrphanFeed'
    BY <1>2, <2>3 DEF DeleteFeeds, NoOrphanFeed, Present
  <2>4. CASE PatchMirror
    <3>1. target \in FeedIds /\ patch \in Patch
      BY <1>2, <2>4 DEF PatchMirror, FeedsInv, Types, TypeOK, TargetInv
    <3>2. groups' = groups \union ({patch.category} \ {None})
      BY <2>4 DEF PatchMirror
    <3>3. CASE feeds[target] = None
      BY <1>2, <2>4, <3>2, <3>3 DEF PatchMirror, NoOrphanFeed, Present
    <3>4. CASE feeds[target] # None
      <4>1. feeds[target] \in Feed
        BY <1>2, <3>1, <3>4 DEF FeedsInv, Types, TypeOK, Listing
      <4>2. /\ feeds' = [feeds EXCEPT ![target] = Patched(@, patch)]
            /\ feeds \in Listing
        BY <1>2, <2>4, <3>4 DEF PatchMirror, FeedsInv, Types, TypeOK
      <4>3. Patched(feeds[target], patch).category \in groups'
        BY <1>2, <3>1, <3>2, <3>4, <4>1, PatchedRow DEF NoOrphanFeed, Present
      <4>4. QED
        BY <1>2, <3>1, <3>2, <4>2, <4>3 DEF NoOrphanFeed, Present, Listing
    <3>5. QED
      BY <3>3, <3>4
  <2>5. DeleteGone => \E F : DeleteFeeds(F) /\ UNCHANGED groups
    BY DEF DeleteGone
  <2>6. ForgetFeed => \E F : DeleteFeeds(F) /\ UNCHANGED groups
    BY DEF ForgetFeed
  <2>7. \/ UNCHANGED <<feeds, groups>> \/ StoreTaxonomy \/ DeleteGone \/ PatchMirror
        \/ ForgetFeed
    BY <1>2 DEF Next, Others, PassStep, CommandStep, vars, server, tables, iconTables, answers,
       command, OtherSubscribes, OtherEdits, OtherUnsubscribes, StartPass, ListCategories,
       ListFeeds, ListNoFeeds, PullEntries, ListMissingIcons, FetchIcon, FinishPass, UpdateFeed,
       PutFeed, Unsubscribe, DeleteOnServer, StopCommand
  <2>8. QED
    BY <2>1, <2>2, <2>3, <2>4, <2>5, <2>6, <2>7
<1>3. QED
  BY <1>1, <1>2, InitFeeds, NextFeeds, PTL DEF Spec

-----------------------------------------------------------------------------
(* The mirror never runs ahead. *)

\* What was said stays said.
LEMMA SaidStays ==
  ASSUME SaidInv,
         \A f \in FeedIds :
            /\ had[f] \subseteq had'[f]
            /\ served'[f] # None => served'[f] = served[f] \/ Said(had'[f], served'[f])
            /\ feeds'[f] \in {None, feeds[f], listing[f]} \/ Said(had'[f], feeds'[f])
            /\ listing'[f] \in {None, listing[f], served[f]},
         pc' = "patch" => \/ pc = "patch" /\ UNCHANGED <<target, patch>> /\ target \in FeedIds
                          \/ {patch'.title, patch'.category} \ {None} \subseteq had'[target']
  PROVE  SaidInv'
  BY DEF SaidInv, Said

\* Every step keeps the mirror behind the server.
LEMMA NextSaid ==
  ASSUME FeedsInv, SaidInv, [Next]_vars
  PROVE  SaidInv'
<1> USE DEF server, tables, iconTables, answers, command
<1>0. /\ served \in Listing /\ feeds \in Listing /\ patch \in Patch
      /\ had \in [FeedIds -> SUBSET (Titles \union Categories \union Icons)]
      /\ pc = "patch" => target \in FeedIds
  BY DEF FeedsInv, Types, TypeOK, TargetInv
<1>1. ASSUME NEW f \in FeedIds, NEW row, Serve(f, row)
      PROVE  /\ \A g \in FeedIds : had[g] \subseteq had'[g]
             /\ \A g \in FeedIds : g # f => served'[g] = served[g]
             /\ served'[f] = row /\ Said(had'[f], row)
  BY <1>0, <1>1 DEF Serve, Said, Listing
<1>2. CASE Others
  <2>1. PICK f \in FeedIds : \/ \E row \in Feed : OtherSubscribes(f, row) \/ OtherEdits(f, row)
                             \/ OtherUnsubscribes(f)
    BY <1>2 DEF Others
  <2>2. CASE OtherUnsubscribes(f)
    <3>1. \A g \in FeedIds : served'[g] \in {None, served[g]}
      BY <1>0, <2>2 DEF OtherUnsubscribes, Listing
    <3>2. QED
      BY <1>0, <2>2, <3>1, SaidStays DEF OtherUnsubscribes
  <2>3. ASSUME NEW row \in Feed, OtherSubscribes(f, row) \/ OtherEdits(f, row)
        PROVE  SaidInv'
    <3>1. Serve(f, row) /\ UNCHANGED <<feeds, listing, pc, target, patch>>
      BY <2>3 DEF OtherSubscribes, OtherEdits
    <3>2. QED
      BY <1>0, <1>1, <3>1, SaidStays
  <2>4. QED
    BY <2>1, <2>2, <2>3
<1>3. CASE PutFeed
  <2>1. target \in FeedIds /\ pc = "put"
    BY <1>3 DEF PutFeed, FeedsInv, Types, TypeOK, TargetInv
  <2>2. CASE AcceptPut
    <3>1. served[target] \in Feed
      BY <1>0, <2>1, <2>2 DEF AcceptPut, Listing
    <3> DEFINE row == Patched(served[target], patch)
    <3>2. {patch.title, patch.category} \ {None} \subseteq {row.title, row.category}
      BY <1>0, <3>1, PatchedRow
    <3>3. Serve(target, row) /\ UNCHANGED <<feeds, listing, target, patch>>
      BY <1>3, <2>2 DEF PutFeed, AcceptPut
    <3> HIDE DEF row
    <3>4. {patch.title, patch.category} \ {None} \subseteq had'[target]
      BY <1>1, <2>1, <3>2, <3>3 DEF Said
    <3>5. QED
      BY <1>1, <2>1, <3>3, <3>4, SaidStays
  <2>3. CASE RefusePut
    BY <1>0, <1>3, <2>3, SaidStays DEF PutFeed, RefusePut, Done
  <2>4. QED
    BY <1>3, <2>2, <2>3 DEF PutFeed
<1>4. CASE PatchMirror
  <2>1. target \in FeedIds /\ {patch.title, patch.category} \ {None} \subseteq had[target]
    BY <1>0, <1>4 DEF PatchMirror, SaidInv
  <2>2. \A f \in FeedIds : feeds'[f] = feeds[f] \/ Said(had[f], feeds'[f])
    <3>1. CASE feeds[target] = None
      BY <1>4, <3>1 DEF PatchMirror
    <3>2. CASE feeds[target] # None
      <4>1. feeds[target] \in Feed /\ Said(had[target], feeds[target])
        BY <1>0, <2>1, <3>2 DEF Listing, SaidInv
      <4>2. Said(had[target], Patched(feeds[target], patch))
        BY <1>0, <2>1, <4>1, PatchedRow DEF Said
      <4>3. feeds' = [feeds EXCEPT ![target] = Patched(@, patch)]
        BY <1>4, <3>2 DEF PatchMirror
      <4>4. QED
        BY <1>0, <2>1, <4>2, <4>3 DEF Listing
    <3>3. QED
      BY <3>1, <3>2
  <2>3. UNCHANGED <<served, listing, had>> /\ pc' = "idle"
    BY <1>4 DEF PatchMirror, Done
  <2>4. QED
    BY <2>2, <2>3, SaidStays
<1>5. CASE DeleteGone \/ ForgetFeed
  <2>1. \A f \in FeedIds : feeds'[f] \in {None, feeds[f]}
    BY <1>5 DEF DeleteGone, ForgetFeed, DeleteFeeds
  <2>2. /\ UNCHANGED <<served, had>> /\ pc' # "patch"
        /\ listing' \in {listing, EmptyListing}
    BY <1>5 DEF DeleteGone, ForgetFeed, Done
  <2>3. QED
    BY <2>1, <2>2, SaidStays DEF EmptyListing
<1>6. CASE StoreTaxonomy
  <2>1. \A f \in FeedIds : feeds'[f] \in {feeds[f], listing[f]}
    BY <1>6 DEF StoreTaxonomy, Upserted
  <2>2. UNCHANGED <<served, listing, had>> /\ pc' = "delete"
    BY <1>6 DEF StoreTaxonomy
  <2>3. QED
    BY <2>1, <2>2, SaidStays
<1>7. CASE DeleteOnServer
  <2>1. \A f \in FeedIds : served'[f] \in {None, served[f]}
    BY <1>0, <1>7 DEF DeleteOnServer, Listing
  <2>2. UNCHANGED <<feeds, listing, had>> /\ pc' # "patch"
    BY <1>7 DEF DeleteOnServer, Done
  <2>3. QED
    BY <2>1, <2>2, SaidStays
<1>8. CASE /\ UNCHANGED <<served, feeds, had>>
           /\ listing' \in {listing, served, EmptyListing}
           /\ pc' # "patch" \/ UNCHANGED <<pc, target, patch>>
  BY <1>0, <1>8, SaidStays DEF EmptyListing
<1>9. \/ Others \/ PutFeed \/ PatchMirror \/ DeleteGone \/ ForgetFeed \/ StoreTaxonomy
      \/ DeleteOnServer
      \/ /\ UNCHANGED <<served, feeds, had>>
         /\ listing' \in {listing, served, EmptyListing}
         /\ pc' # "patch" \/ UNCHANGED <<pc, target, patch>>
  BY DEF Next, PassStep, CommandStep, vars, StartPass, ListCategories, ListFeeds, ListNoFeeds,
     PullEntries, ListMissingIcons, FetchIcon, FinishPass, UpdateFeed, Unsubscribe, StopCommand,
     Done
<1>10. QED
  BY <1>2, <1>3, <1>4, <1>5, <1>6, <1>7, <1>8, <1>9

(* The mirror shows of a feed only what the server has held: Command::     *)
(* UpdateFeed writes after the PUT was accepted, whatever pass or other    *)
(* client comes in between.                                                *)
THEOREM NeverAhead == Spec => []MirrorNeverAhead
<1>1. Init => SaidInv
  BY DEF Init, SaidInv, EmptyListing
<1>2. SaidInv => MirrorNeverAhead
  BY DEF SaidInv, Said, MirrorNeverAhead, Present
<1>3. QED
  BY <1>1, <1>2, InitFeeds, NextFeeds, NextSaid, PTL DEF Spec
-----------------------------------------------------------------------------
(* The refinement.  A transaction that writes feeds is a Show, delete_feed *)
(* a Forget, an accepted PUT an Edit, an accepted DELETE an Unsubscribe;   *)
(* everything else leaves what Subscriptions speaks of alone.              *)

\* A row's columns are columns, and there are some.
LEMMA ColumnsType ==
  ASSUME NEW row \in Feed \union {None}
  PROVE  /\ ColumnsOf(row) \in SUBSET Columns
         /\ row # None => ColumnsOf(row) # {}
<1>1. CASE row = None
  BY <1>1 DEF ColumnsOf
<1>2. CASE row \in Feed /\ row # None
  <2>1. row.title \in Titles /\ row.category \in Categories /\ row.icon \in Icons
    BY <1>2 DEF Feed
  <2>2. ColumnsOf(row) = {row.title, row.category, row.icon}
    BY <1>2 DEF ColumnsOf
  <2>3. QED
    BY <2>1, <2>2 DEF Columns
<1>3. QED
  BY <1>1, <1>2

\* Rows that are written, never removed, show what was said.
LEMMA WritesShow ==
  ASSUME TypeOK', DroppedIsGone', SaidInv', UNCHANGED <<served, used, had, dropped>>,
         \A f \in FeedIds : feeds'[f] # feeds[f] => feeds'[f] # None
  PROVE  Promise!Show({f \in FeedIds : feeds'[f] # feeds[f]})
<1> DEFINE F == {f \in FeedIds : feeds'[f] # feeds[f]}
<1>1. F \cap dropped = {}
  BY DEF DroppedIsGone
<1>2. \A f \in FeedIds : feeds'[f] \in Feed \union {None}
  BY DEF TypeOK, Listing
<1>3. [f \in FeedIds |-> ColumnsOf(feeds'[f])] \in [FeedIds -> SUBSET Columns]
  BY <1>2, ColumnsType
<1>4. \A f \in F : ColumnsOf(feeds'[f]) # {}
  BY <1>2, ColumnsType
<1>5. \A f \in F : ColumnsOf(feeds'[f]) \subseteq had[f]
  BY DEF SaidInv, Said, ColumnsOf
<1>6. UNCHANGED <<Present(served), used, had, dropped>>
  BY DEF Present
<1>7. QED
  BY <1>1, <1>3, <1>4, <1>5, <1>6 DEF Promise!Show

\* Deleted rows are forgotten, and were gone.
LEMMA DeletesForget ==
  ASSUME TypeOK', IdsInv', DroppedIsGone', UNCHANGED <<served, used, had>>,
         NEW F \in SUBSET FeedIds, DeleteFeeds(F)
  PROVE  Promise!Forget(F)
<1>1. F \subseteq used \ Present(served)
  BY DEF DeleteFeeds, DroppedIsGone, IdsInv, Present
<1>2. \A f \in FeedIds : ColumnsOf(feeds'[f]) = IF f \in F THEN {} ELSE ColumnsOf(feeds[f])
  BY DEF DeleteFeeds, ColumnsOf
<1>3. UNCHANGED <<Present(served), used, had>>
  BY DEF Present
<1>4. QED
  BY <1>1, <1>2, <1>3 DEF Promise!Forget, DeleteFeeds

\* What the server takes it says; of a feed it had, or of a new one.
LEMMA ServesSays ==
  ASSUME TypeOK, NEW f \in FeedIds, NEW row \in Feed, Serve(f, row)
  PROVE  /\ Promise!Says(f)
         /\ Present(served)' = Present(served) \union {f}
<1>1. {row.title, row.category, row.icon} \in SUBSET Columns
  BY DEF Feed, Columns
<1>2. had' = [had EXCEPT ![f] = @ \union {row.title, row.category, row.icon}]
  BY DEF Serve
<1>3. row # None
  BY FeedsAssumption
<1>4. served' = [served EXCEPT ![f] = row] /\ served \in Listing
  BY DEF Serve, TypeOK
<1>5. \A g \in FeedIds : served'[g] # None <=> served[g] # None \/ g = f
  BY <1>3, <1>4 DEF Listing
<1>6. QED
  BY <1>1, <1>2, <1>5 DEF Promise!Says, Present

\* Other clients' steps are the server's.
LEMMA OthersRefine ==
  ASSUME TypeOK, Others
  PROVE  Promise!Next
<1>1. PICK f \in FeedIds : \/ \E row \in Feed : OtherSubscribes(f, row) \/ OtherEdits(f, row)
                           \/ OtherUnsubscribes(f)
  BY DEF Others
<1>2. ASSUME NEW row \in Feed, OtherSubscribes(f, row) PROVE Promise!Next
  <2>1. Promise!Says(f) /\ Present(served)' = Present(served) \union {f}
    BY <1>2, ServesSays DEF OtherSubscribes
  <2>2. Promise!Subscribe(f)
    BY <1>2, <2>1 DEF OtherSubscribes, Promise!Subscribe, tables
  <2>3. QED
    BY <2>2 DEF Promise!Next
<1>3. ASSUME NEW row \in Feed, OtherEdits(f, row) PROVE Promise!Next
  <2>1. Promise!Says(f) /\ Present(served)' = Present(served) \union {f}
    BY <1>3, ServesSays DEF OtherEdits
  <2>2. f \in Present(served)
    BY <1>3 DEF OtherEdits, Present
  <2>3. Promise!Edit(f)
    BY <1>3, <2>1, <2>2 DEF OtherEdits, Promise!Edit, tables
  <2>4. QED
    BY <2>3 DEF Promise!Next
<1>4. CASE OtherUnsubscribes(f)
  <2>1. f \in Present(served) /\ Present(served)' = Present(served) \ {f}
    BY <1>4 DEF OtherUnsubscribes, Present, TypeOK, Listing
  <2>2. Promise!Unsubscribe(f)
    BY <1>4, <2>1 DEF OtherUnsubscribes, Promise!Unsubscribe, tables
  <2>3. QED
    BY <2>2 DEF Promise!Next
<1>5. QED
  BY <1>1, <1>2, <1>3, <1>4

\* So are a command's requests, when they are accepted.
LEMMA RequestsRefine ==
  ASSUME TypeOK, TargetInv, PutFeed \/ DeleteOnServer
  PROVE  Promise!Next \/ UNCHANGED Promise!vars
<1>1. target \in FeedIds /\ UNCHANGED <<used, feeds, dropped>>
  BY DEF TypeOK, TargetInv, PutFeed, DeleteOnServer, tables
<1>2. CASE PutFeed /\ served[target] # None
  <2>1. served[target] \in Feed /\ patch \in Patch
    BY <1>1, <1>2 DEF TypeOK, Listing
  <2>2. Patched(served[target], patch) \in Feed
    BY <2>1, PatchedRow
  <2>3. Serve(target, Patched(served[target], patch))
    BY <1>2 DEF PutFeed, AcceptPut, RefusePut
  <2>4. Promise!Says(target) /\ Present(served)' = Present(served) \union {target}
    BY <1>1, <2>2, <2>3, ServesSays
  <2>5. target \in Present(served)
    BY <1>1, <1>2 DEF Present
  <2>6. Promise!Edit(target)
    BY <1>1, <2>4, <2>5 DEF Promise!Edit
  <2>7. QED
    BY <1>1, <2>6 DEF Promise!Next
<1>3. CASE DeleteOnServer /\ served[target] # None
  <2>1. target \in Present(served) /\ Present(served)' = Present(served) \ {target}
    BY <1>1, <1>3 DEF DeleteOnServer, Present, TypeOK, Listing
  <2>2. Promise!Unsubscribe(target)
    BY <1>1, <1>3, <2>1 DEF DeleteOnServer, Promise!Unsubscribe
  <2>3. QED
    BY <1>1, <2>2 DEF Promise!Next
<1>4. CASE served[target] = None
  <2>1. served' = served /\ had' = had
    BY <1>1, <1>4 DEF PutFeed, AcceptPut, RefusePut, DeleteOnServer, TypeOK, Listing
  <2>2. QED
    BY <1>1, <2>1 DEF Promise!vars, Present
<1>5. QED
  BY <1>2, <1>3, <1>4

\* Every step of Feeds is a step of Subscriptions, or none.
LEMMA StepRefines ==
  ASSUME FeedsInv, SaidInv, FeedsInv', SaidInv', [Next]_vars
  PROVE  Promise!Next \/ UNCHANGED Promise!vars
<1> USE DEF FeedsInv, Types
<1>1. ASSUME NEW F \in SUBSET FeedIds, Promise!Show(F) \/ Promise!Forget(F)
      PROVE  Promise!Next
  BY <1>1 DEF Promise!Next
<1>2. CASE StoreTaxonomy
  <2>1. \A f \in FeedIds : feeds'[f] # feeds[f] => feeds'[f] # None
    BY <1>2 DEF StoreTaxonomy, Upserted
  <2>2. UNCHANGED <<served, used, had, dropped>>
    BY <1>2 DEF StoreTaxonomy, server
  <2>3. QED
    BY <1>1, <2>1, <2>2, WritesShow
<1>3. CASE PatchMirror
  <2>1. \A f \in FeedIds : feeds'[f] # feeds[f] => feeds'[f] # None
    <3>1. target \in FeedIds /\ patch \in Patch
      BY <1>3 DEF PatchMirror, TypeOK, TargetInv
    <3>2. CASE feeds[target] = None
      BY <1>3, <3>2 DEF PatchMirror
    <3>3. CASE feeds[target] # None
      <4>1. Patched(feeds[target], patch) \in Feed
        BY <3>1, <3>3, PatchedRow DEF TypeOK, Listing
      <4>2. Patched(feeds[target], patch) # None
        BY <4>1, FeedsAssumption
      <4>3. QED
        BY <1>3, <3>1, <3>3, <4>2 DEF PatchMirror, TypeOK, Listing
    <3>4. QED
      BY <3>2, <3>3
  <2>2. UNCHANGED <<served, used, had, dropped>>
    BY <1>3 DEF PatchMirror, server
  <2>3. QED
    BY <1>1, <2>1, <2>2, WritesShow
<1>4. CASE DeleteGone
  <2>1. PICK F \in SUBSET FeedIds : DeleteFeeds(F)
    BY <1>4 DEF DeleteGone, Present
  <2>2. UNCHANGED <<served, used, had>>
    BY <1>4 DEF DeleteGone, server
  <2>3. QED
    BY <1>1, <2>1, <2>2, DeletesForget
<1>5. CASE ForgetFeed
  <2>1. {target} \in SUBSET FeedIds /\ DeleteFeeds({target})
    BY <1>5 DEF ForgetFeed, TypeOK, TargetInv
  <2>2. UNCHANGED <<served, used, had>>
    BY <1>5 DEF ForgetFeed, server
  <2>3. QED
    BY <1>1, <2>1, <2>2, DeletesForget
<1>6. CASE UNCHANGED <<served, used, had, feeds, dropped>>
  BY <1>6 DEF Promise!vars, Present
<1>7. \/ Others \/ PutFeed \/ DeleteOnServer \/ StoreTaxonomy \/ PatchMirror \/ DeleteGone
      \/ ForgetFeed \/ UNCHANGED <<served, used, had, feeds, dropped>>
  BY DEF Next, PassStep, CommandStep, vars, server, tables, StartPass, ListCategories, ListFeeds,
     ListNoFeeds, PullEntries, ListMissingIcons, FetchIcon, FinishPass, UpdateFeed, Unsubscribe,
     StopCommand
<1>8. QED
  BY <1>2, <1>3, <1>4, <1>5, <1>6, <1>7, OthersRefine, RequestsRefine

(* The mirror's feeds keep the promise of Subscriptions: nothing shows     *)
(* that the server never said, and nothing is forgotten but what it has    *)
(* dropped, for good (pull_taxonomy, apply_feed_patch, delete_feed).       *)
THEOREM KeepsSubscriptions == Spec => ImplementsSubscriptions
<1>1. Init => Promise!Init
  BY DEF Init, Promise!Init, EmptyListing, Present, ColumnsOf
<1>2. Init => SaidInv
  BY DEF Init, SaidInv, EmptyListing
<1>3. FeedsInv /\ SaidInv /\ FeedsInv' /\ SaidInv' /\ [Next]_vars => [Promise!Next]_(Promise!vars)
  BY StepRefines
<1>4. QED
  BY <1>1, <1>2, <1>3, InitFeeds, NextFeeds, NextSaid, PTL
  DEF Spec, ImplementsSubscriptions, Promise!Spec

=============================================================================
