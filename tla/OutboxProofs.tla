---------------------------- MODULE OutboxProofs ----------------------------
(***************************************************************************)
(* The write path, proved for every set of entries, fields and values, any *)
(* chunk size and any bound.                                               *)
(*                                                                         *)
(* The safety properties of Outbox are not inductive by themselves.  What  *)
(* makes them so is what the two threads may rely on about each other:     *)
(* only the worker removes rows, so what a flush read is still queued when *)
(* it is settled; a row always holds the user's latest intent; and no      *)
(* request of this device runs while a page is in hand.                    *)
(***************************************************************************)
EXTENDS Outbox, TLAPS

\* The flush in progress: what it has read is still queued, whatever the user
\* does meanwhile, and a request in flight asks one value of all its keys.
FlushInv ==
    /\ pc \in {"idle", "pulling", "merging"} => todo = NothingToDo
    /\ pc \notin {"sent", "applied"} => batch = {}
    /\ pc \in {"sent", "applied"} => batch # {}
    /\ \A k \in Keys : todo[k] # None => Pending(k)
    /\ \A k \in batch : todo[k] # None
    /\ \A k, l \in batch : todo[k] = todo[l]

\* A row holds the user's latest intent.
QueueInv == \A k \in Keys : Pending(k) => outbox[k].value = intent[k]

\* What is settled was accepted, and what was accepted is what the server holds
\* until somebody else writes.
ServerInv ==
    /\ pc = "applied" => \A k \in batch : accepted[k] = todo[k]
    /\ \A k \in Keys : intent[k] # None /\ ~Pending(k) => accepted[k] = intent[k]
    /\ \A k \in Keys : accepted[k] # None /\ k \notin foreign /\ k[1] \in live
          => server[k] = accepted[k]

\* The page in hand agrees with every settled intent nobody overrode.
PageInv ==
    /\ pc # "merging" => page = NoPage
    /\ \A k \in Keys : page[k] # None /\ intent[k] # None /\ ~Pending(k) /\ k \notin foreign
          => page[k] = intent[k]

VersionInv == known = "met" => floorMet

IInv ==
    /\ TypeOK
    /\ FlushInv
    /\ QueueInv
    /\ ServerInv
    /\ PageInv
    /\ VersionInv
    /\ NoWriteBelowFloor
    /\ MirrorShowsIntent

-----------------------------------------------------------------------------

\* A missing row is not a row: the outbox can tell "nothing queued" from any intent.
LEMMA RowType == NoRow \notin Row /\ \A r \in Row : r.value \in Values /\ r.value # None
  BY ConstantsAssumption DEF Row, NoRow

\* The app starts with an empty queue, in the invariant.
LEMMA InitInv == Init => IInv
  BY ConstantsAssumption
     DEF Init, IInv, TypeOK, FlushInv, QueueInv, ServerInv, PageInv, VersionInv,
         NoWriteBelowFloor, MirrorShowsIntent, NothingToDo, NoPage, Pending, Row, NoRow, Request

\* The Qt thread's write, at any point of the worker's pass.
LEMMA QueueStep ==
  ASSUME IInv, NEW K \in SUBSET Keys, NEW v \in Values, Queue(K, v)
  PROVE  IInv'
<1> USE RowType, ConstantsAssumption DEF Queue, mirrorVars, flushVars, serverVars, bounds
<1>1. TypeOK'
  BY DEF IInv, TypeOK, Row, NoRow
<1>2. FlushInv'
  BY DEF IInv, TypeOK, FlushInv, Pending, NoRow
<1>3. QueueInv'
  BY DEF IInv, TypeOK, QueueInv, Pending, NoRow
<1>4. ServerInv'
  BY DEF IInv, TypeOK, ServerInv, Pending, NoRow
<1>5. PageInv'
  BY DEF IInv, TypeOK, PageInv, Pending, NoRow
<1>6. VersionInv' /\ NoWriteBelowFloor'
  BY DEF IInv, VersionInv, NoWriteBelowFloor
<1>7. MirrorShowsIntent'
  BY DEF IInv, TypeOK, MirrorShowsIntent, Pending, NoRow
<1>8. QED
  BY <1>1, <1>2, <1>3, <1>4, <1>5, <1>6, <1>7 DEF IInv


-----------------------------------------------------------------------------

\* Facts about the two ways a row is touched after its request.

\* The smaller of two numbers: a batch's size, a saturating count.
LEMMA MinOfTwo ==
  ASSUME NEW a \in Int, NEW b \in Int
  PROVE  Min({a, b}) = IF a <= b THEN a ELSE b
  BY DEF Min

\* A failure is charged to a row: the intent in it stays what it was.
LEMMA RecordedRows ==
  ASSUME TypeOK, NEW ids \in SUBSET Keys, RecordFailure(ids)
  PROVE  /\ outbox' \in [Keys -> Row \cup {NoRow}]
         /\ \A k \in Keys : outbox'[k].value = outbox[k].value /\ (Pending(k)' <=> Pending(k))
<1> USE RowType, ConstantsAssumption
<1>1. ASSUME NEW k \in Unchanged(ids)
      PROVE  /\ k \in Keys
             /\ [outbox[k] EXCEPT !.attempts = Min({@ + 1, MaxAttempts})] \in Row
             /\ [outbox[k] EXCEPT !.attempts = Min({@ + 1, MaxAttempts})].value = outbox[k].value
  <2>1. k \in Keys /\ outbox[k] \in Row
    BY DEF Unchanged, Pending, TypeOK
  <2>2. Min({outbox[k].attempts + 1, MaxAttempts}) \in 0..MaxAttempts
    <3>1. outbox[k].attempts \in Nat /\ MaxAttempts \in Nat
      BY <2>1 DEF Row
    <3>2. Min({outbox[k].attempts + 1, MaxAttempts}) \in {outbox[k].attempts + 1, MaxAttempts}
      BY <3>1, MinOfTwo
    <3>3. Min({outbox[k].attempts + 1, MaxAttempts}) <= MaxAttempts
      BY <3>1, MinOfTwo
    <3>4. QED
      BY <3>1, <3>2, <3>3
  <2>3. QED
    BY <2>1, <2>2 DEF Row
<1>2. outbox' \in [Keys -> Row \cup {NoRow}]
  BY <1>1 DEF RecordFailure, TypeOK
<1>3. ASSUME NEW k \in Keys
      PROVE  outbox'[k].value = outbox[k].value /\ (Pending(k)' <=> Pending(k))
  <2>1. CASE k \in Unchanged(ids)
    BY <1>1, <2>1 DEF RecordFailure, Pending, Unchanged, NoRow
  <2>2. CASE k \notin Unchanged(ids)
    BY <2>2 DEF RecordFailure, Pending
  <2>3. QED
    BY <2>1, <2>2
<1>4. QED
  BY <1>2, <1>3

\* Compare and delete: exactly the rows that still hold what was read are gone.
LEMMA ClearedRows ==
  ASSUME TypeOK, NEW ids \in SUBSET Keys, ClearRows(ids)
  PROVE  /\ outbox' \in [Keys -> Row \cup {NoRow}]
         /\ \A k \in Keys :
               IF k \in Unchanged(ids) THEN ~Pending(k)' ELSE outbox'[k] = outbox[k]
  BY DEF ClearRows, TypeOK, Pending

-----------------------------------------------------------------------------

\* A flush reads every row, so all it holds is queued.
LEMMA StartFlushStep == IInv /\ StartFlush => IInv'
<1> SUFFICES ASSUME IInv, StartFlush PROVE IInv'
  OBVIOUS
<1> USE RowType, ConstantsAssumption
    DEF IInv, StartFlush, mirrorVars, serverVars, history, bounds, Pending
<1>1. TypeOK'
  BY DEF TypeOK, NoRow
<1>2. FlushInv'
  BY DEF TypeOK, FlushInv, NoRow
<1>3. QueueInv' /\ ServerInv' /\ PageInv'
  BY DEF QueueInv, ServerInv, PageInv
<1>4. VersionInv' /\ NoWriteBelowFloor' /\ MirrorShowsIntent'
  BY DEF VersionInv, NoWriteBelowFloor, MirrorShowsIntent
<1>5. QED
  BY <1>1, <1>2, <1>3, <1>4

\* What a failure leaves behind, whatever its class and wherever it happened.
LEMMA FailStep ==
  ASSUME IInv, NEW ids \in SUBSET Keys, NEW e, Fail(ids, e),
         pc \in {"flushing", "sent", "applied"},
         UNCHANGED <<known, server, live, floorMet>>, late' \subseteq Request
  PROVE  IInv'
<1> USE DEF IInv, bounds
<1>1. CASE RecordFailure(ids) /\ Abandon /\ UNCHANGED <<intent, stale>>
  <2> USE <1>1, RecordedRows DEF Fail, Abandon, NothingToDo
  <2>1. TypeOK'
    BY DEF TypeOK
  <2>2. FlushInv'
    BY DEF FlushInv
  <2>3. QueueInv' /\ ServerInv' /\ PageInv'
    BY DEF QueueInv, ServerInv, PageInv
  <2>4. VersionInv' /\ NoWriteBelowFloor' /\ MirrorShowsIntent'
    BY DEF VersionInv, NoWriteBelowFloor, MirrorShowsIntent
  <2>5. QED
    BY <2>1, <2>2, <2>3, <2>4
<1>2. CASE /\ ClearRows(ids)
           /\ NextBatch(ids)
           /\ intent' = [k \in Keys |-> IF k \in Unchanged(ids) THEN None ELSE intent[k]]
           /\ stale' = stale \cup Unchanged(ids)
  <2> USE <1>2, ClearedRows DEF Fail, NextBatch
  <2>1. TypeOK'
    BY DEF TypeOK, Unchanged
  <2>2. FlushInv'
    <3>1. ASSUME NEW k \in Keys, todo'[k] # None PROVE Pending(k)'
      BY <3>1 DEF TypeOK, FlushInv, Pending, Unchanged
    <3>2. QED
      BY <3>1 DEF FlushInv
  <2>3. QueueInv'
    BY DEF TypeOK, QueueInv, Pending
  <2>4. ServerInv'
    BY DEF TypeOK, ServerInv, Pending
  <2>5. PageInv'
    BY DEF TypeOK, PageInv, Pending
  <2>6. VersionInv' /\ NoWriteBelowFloor'
    BY DEF VersionInv, NoWriteBelowFloor
  <2>7. MirrorShowsIntent'
    BY DEF TypeOK, MirrorShowsIntent, Pending
  <2>8. QED
    BY <2>1, <2>2, <2>3, <2>4, <2>5, <2>6, <2>7
<1>3. CASE RecordFailure(ids) /\ NextBatch(ids) /\ UNCHANGED <<intent, stale>>
  <2> USE <1>3, RecordedRows DEF Fail, NextBatch
  <2>1. TypeOK'
    BY DEF TypeOK
  <2>2. FlushInv'
    BY DEF TypeOK, FlushInv
  <2>3. QueueInv' /\ ServerInv' /\ PageInv'
    BY DEF QueueInv, ServerInv, PageInv
  <2>4. VersionInv' /\ NoWriteBelowFloor' /\ MirrorShowsIntent'
    BY DEF VersionInv, NoWriteBelowFloor, MirrorShowsIntent
  <2>5. QED
    BY <2>1, <2>2, <2>3, <2>4
<1>4. QED
  BY <1>1, <1>2, <1>3 DEF Fail

\* A request that may linger is one of this device's requests.
LEMMA LateRequest ==
  ASSUME IInv, pc = "sent", NEW k \in batch
  PROVE  [keys |-> batch, value |-> todo[k]] \in Request
  BY DEF IInv, TypeOK, FlushInv, Request

\* A batch is a nonempty set of queued keys (outbox::batches).
LEMMA BatchesAreKeys == \A ids \in Batches : ids \in SUBSET Keys /\ ids # {}
                           /\ \A k, l \in ids : todo[k] # None /\ todo[k] = todo[l]
  BY DEF Batches

\* The worker's failures: no version, a server below the floor, no answer.
LEMMA FailureSteps ==
  ASSUME IInv
  PROVE  /\ \A ids \in Batches, e \in Errors : VersionUnavailable(ids, e) => IInv'
         /\ \A ids \in Batches : RefuseBelowFloor(ids) => IInv'
         /\ \A e \in Errors : PutFails(e) => IInv'
<1>1. ASSUME NEW ids \in Batches, NEW e, Fail(ids, e), pc = "flushing",
             UNCHANGED <<known, serverVars>>
      PROVE  IInv'
  <2>1. late' \subseteq Request /\ UNCHANGED <<known, server, live, floorMet>>
    BY <1>1 DEF IInv, TypeOK, serverVars
  <2>2. QED
    BY <1>1, <2>1, FailStep, BatchesAreKeys
<1>2. ASSUME NEW e \in Errors, PutFails(e) PROVE IInv'
  <2>1. late' \subseteq Request
    BY <1>2, LateRequest DEF PutFails, IInv, TypeOK
  <2>2. batch \in SUBSET Keys
    BY DEF IInv, TypeOK
  <2>3. QED
    BY <1>2, <2>1, <2>2, FailStep DEF PutFails
<1>3. QED
  BY <1>1, <1>2 DEF VersionUnavailable, RefuseBelowFloor

\* The worker's steps that neither write a row nor learn of an answer.
LEMMA QuietFlushSteps ==
  ASSUME IInv
  PROVE  /\ LearnVersion => IInv'
         /\ \A ids \in Batches : SendBatch(ids) => IInv'
         /\ EndFlush => IInv'
         /\ RefreshVersion => IInv'
         /\ EndPull => IInv'
<1> USE DEF mirrorVars, flushVars, serverVars, history, bounds, IInv, Pending
<1>1. LearnVersion => IInv'
  BY DEF LearnVersion, TypeOK, FlushInv, QueueInv, ServerInv, PageInv, VersionInv,
         NoWriteBelowFloor, MirrorShowsIntent
<1>2. ASSUME NEW ids \in Batches, SendBatch(ids) PROVE IInv'
  <2>1. TypeOK' /\ FlushInv'
    BY <1>2, BatchesAreKeys DEF SendBatch, TypeOK, FlushInv
  <2>2. QueueInv' /\ ServerInv' /\ PageInv'
    BY <1>2 DEF SendBatch, QueueInv, ServerInv, PageInv
  <2>3. VersionInv' /\ NoWriteBelowFloor' /\ MirrorShowsIntent'
    BY <1>2 DEF SendBatch, VersionInv, NoWriteBelowFloor, MirrorShowsIntent
  <2>4. QED
    BY <2>1, <2>2, <2>3
<1>3. EndFlush => IInv'
  BY DEF EndFlush, TypeOK, FlushInv, QueueInv, ServerInv, PageInv, VersionInv,
         NoWriteBelowFloor, MirrorShowsIntent
<1>4. RefreshVersion => IInv'
  BY DEF RefreshVersion, TypeOK, FlushInv, QueueInv, ServerInv, PageInv, VersionInv,
         NoWriteBelowFloor, MirrorShowsIntent
<1>5. EndPull => IInv'
  BY ConstantsAssumption
     DEF EndPull, LosePage, TypeOK, FlushInv, QueueInv, ServerInv, PageInv, VersionInv,
         NoWriteBelowFloor, MirrorShowsIntent, NoPage
<1>6. QED
  BY <1>1, <1>2, <1>3, <1>4, <1>5

\* The server answered: what is cleared is what it took.
LEMMA ConfirmStep == IInv /\ Confirm => IInv'
<1> SUFFICES ASSUME IInv, Confirm PROVE IInv'
  OBVIOUS
<1> USE DEF IInv, Confirm, NextBatch, serverVars, bounds
<1>0. batch \in SUBSET Keys /\ TypeOK
  BY DEF TypeOK
<1>1. TypeOK'
  BY <1>0, ClearedRows DEF TypeOK
<1>2. FlushInv'
  BY <1>0, ClearedRows DEF TypeOK, FlushInv, Pending, Unchanged
<1>3. QueueInv'
  BY <1>0, ClearedRows DEF QueueInv, Pending
<1>4. ASSUME NEW k \in Keys, intent[k] # None, ~Pending(k)'
      PROVE  accepted[k] = intent[k]
  <2>1. CASE k \in Unchanged(batch)
    BY <2>1, <1>4 DEF Unchanged, QueueInv, ServerInv
  <2>2. CASE k \notin Unchanged(batch)
    BY <2>2, <1>0, <1>4, ClearedRows DEF ServerInv, Pending
  <2>3. QED
    BY <2>1, <2>2
<1>5. ServerInv'
  BY <1>4 DEF ServerInv
<1>6. PageInv' /\ VersionInv' /\ NoWriteBelowFloor'
  BY <1>0 DEF PageInv, VersionInv, NoWriteBelowFloor, TypeOK, NoPage
<1>7. MirrorShowsIntent'
  <2>1. ASSUME NEW k \in Keys, k[1] \in held, intent[k] # None, Pending(k)' \/ k \notin foreign
        PROVE  mirror[k] = intent[k]
    BY <2>1, <1>0, ClearedRows DEF MirrorShowsIntent, Pending
  <2>2. QED
    BY <2>1 DEF MirrorShowsIntent
<1>8. QED
  BY <1>1, <1>2, <1>3, <1>5, <1>6, <1>7

\* A page is what the server holds, so it agrees with every settled intent.
LEMMA FetchPageStep ==
  ASSUME IInv, NEW E \in SUBSET live, FetchPage(E)
  PROVE  IInv'
<1> USE DEF IInv, FetchPage, mirrorVars, flushVars, serverVars, history, bounds, Pending
<1>1. TypeOK'
  BY DEF TypeOK
<1>2. FlushInv' /\ QueueInv' /\ ServerInv'
  BY DEF FlushInv, QueueInv, ServerInv
<1>3. PageInv'
  BY DEF TypeOK, PageInv, ServerInv
<1>4. VersionInv' /\ NoWriteBelowFloor' /\ MirrorShowsIntent'
  BY DEF VersionInv, NoWriteBelowFloor, MirrorShowsIntent
<1>5. QED
  BY <1>1, <1>2, <1>3, <1>4

\* Merging it keeps what is pending and brings nothing older than what was settled.
LEMMA MergePageStep == IInv /\ MergePage => IInv'
<1> SUFFICES ASSUME IInv, MergePage PROVE IInv'
  OBVIOUS
<1> USE RowType, ConstantsAssumption
    DEF IInv, MergePage, flushVars, serverVars, history, bounds, Pending
<1>1. TypeOK'
  BY DEF TypeOK, Merged, NoPage
<1>2. FlushInv' /\ QueueInv' /\ ServerInv'
  BY DEF FlushInv, QueueInv, ServerInv
<1>3. PageInv' /\ VersionInv' /\ NoWriteBelowFloor'
  BY DEF PageInv, VersionInv, NoWriteBelowFloor, NoPage
<1>4. ASSUME NEW k \in Keys, k[1] \in held', intent[k] # None, Pending(k) \/ k \notin foreign
      PROVE  mirror'[k] = intent[k]
  <2>1. CASE page[k] # None
    BY <1>4, <2>1 DEF TypeOK, Merged, QueueInv, PageInv
  <2>2. CASE page[k] = None
    <3>1. k[1] \in held
      BY <1>4, <2>2 DEF Keys, KeysOf
    <3>2. QED
      BY <1>4, <2>2, <3>1 DEF TypeOK, MirrorShowsIntent
  <2>3. QED
    BY <2>1, <2>2
<1>5. MirrorShowsIntent'
  BY <1>4 DEF MirrorShowsIntent
<1>6. QED
  BY <1>1, <1>2, <1>3, <1>5

\* A deleted entry takes its intents along (delete_entry).
LEMMA DropEntryStep ==
  ASSUME IInv, NEW d \in Entries, DropEntry(d)
  PROVE  IInv'
<1> USE DEF IInv, DropEntry, flushVars, serverVars, bounds, Pending
<1>1. TypeOK'
  BY DEF TypeOK
<1>2. FlushInv' /\ QueueInv'
  BY DEF TypeOK, FlushInv, QueueInv, NothingToDo
<1>3. ServerInv' /\ PageInv'
  BY DEF TypeOK, ServerInv, PageInv, NoPage, FlushInv
<1>4. VersionInv' /\ NoWriteBelowFloor' /\ MirrorShowsIntent'
  BY DEF TypeOK, VersionInv, NoWriteBelowFloor, MirrorShowsIntent
<1>5. QED
  BY <1>1, <1>2, <1>3, <1>4

\* A kill forgets the flush, the page and the version, and nothing else.
LEMMA KillStep == IInv /\ Kill => IInv'
<1> SUFFICES ASSUME IInv, Kill PROVE IInv'
  OBVIOUS
<1> USE ConstantsAssumption DEF IInv, Kill, Abandon, LosePage, mirrorVars, Pending
<1>1. late' \subseteq Request
  BY LateRequest DEF TypeOK
<1>2. TypeOK'
  BY <1>1 DEF TypeOK, NothingToDo, NoPage
<1>3. FlushInv' /\ QueueInv' /\ PageInv'
  BY DEF FlushInv, QueueInv, PageInv, NothingToDo, NoPage
<1>4. ServerInv' /\ VersionInv' /\ NoWriteBelowFloor' /\ MirrorShowsIntent'
  BY DEF ServerInv, VersionInv, NoWriteBelowFloor, MirrorShowsIntent
<1>5. QED
  BY <1>2, <1>3, <1>4

\* The absolute set: the whole batch holds one value afterwards.
LEMMA ServerApplyStep == IInv /\ ServerApply => IInv'
<1> SUFFICES ASSUME IInv, ServerApply PROVE IInv'
  OBVIOUS
<1> USE DEF IInv, ServerApply, mirrorVars, flushVars, bounds, Pending
<1>1. PICK b \in batch :
          /\ server' = Written(batch, todo[b])
          /\ accepted' = [l \in Keys |-> IF l \in batch THEN todo[b] ELSE accepted[l]]
  BY DEF ServerApply
<1>2. b \in Keys /\ todo[b] \in Values /\ \A k \in batch : Pending(k) /\ todo[k] = todo[b]
  BY DEF TypeOK, FlushInv
<1>3. TypeOK'
  BY <1>1, <1>2 DEF TypeOK, Written
<1>4. FlushInv' /\ QueueInv'
  BY DEF FlushInv, QueueInv
<1>5. ServerInv'
  BY <1>1, <1>2 DEF TypeOK, ServerInv, Written
<1>6. PageInv' /\ VersionInv' /\ NoWriteBelowFloor'
  BY DEF TypeOK, PageInv, VersionInv, NoWriteBelowFloor, NoPage
<1>7. MirrorShowsIntent'
  BY <1>2 DEF MirrorShowsIntent
<1>8. QED
  BY <1>3, <1>4, <1>5, <1>6, <1>7

\* Everybody else: a late request, another client, a deletion, an upgrade.
LEMMA OthersSteps ==
  ASSUME IInv
  PROVE  /\ \A r \in late : LateApply(r) => IInv'
         /\ \A k \in Keys, v \in Values : OtherWrite(k, v) => IInv'
         /\ \A d \in Entries : ServerDelete(d) => IInv'
         /\ Upgrade => IInv'
<1> USE DEF IInv, mirrorVars, flushVars, history, bounds, Pending
<1>1. ASSUME NEW r \in late, LateApply(r) PROVE IInv'
  <2> USE <1>1 DEF LateApply
  <2>1. TypeOK'
    BY DEF TypeOK, Written, Request
  <2>2. FlushInv' /\ QueueInv' /\ PageInv'
    BY DEF FlushInv, QueueInv, PageInv, NothingToDo, NoPage
  <2>3. ServerInv'
    BY DEF TypeOK, ServerInv, Written
  <2>4. VersionInv' /\ NoWriteBelowFloor' /\ MirrorShowsIntent'
    BY DEF VersionInv, NoWriteBelowFloor, MirrorShowsIntent
  <2>5. QED
    BY <2>1, <2>2, <2>3, <2>4
<1>2. ASSUME NEW k \in Keys, NEW v \in Values, OtherWrite(k, v) PROVE IInv'
  <2> USE <1>2 DEF OtherWrite
  <2>1. TypeOK'
    BY DEF TypeOK
  <2>2. FlushInv' /\ QueueInv' /\ PageInv'
    BY DEF FlushInv, QueueInv, PageInv, NothingToDo, NoPage
  <2>3. ServerInv'
    BY DEF TypeOK, ServerInv
  <2>4. VersionInv' /\ NoWriteBelowFloor' /\ MirrorShowsIntent'
    BY DEF VersionInv, NoWriteBelowFloor, MirrorShowsIntent
  <2>5. QED
    BY <2>1, <2>2, <2>3, <2>4
<1>3. ASSUME NEW d \in Entries, ServerDelete(d) PROVE IInv'
  BY <1>3 DEF ServerDelete, TypeOK, FlushInv, QueueInv, ServerInv, PageInv, VersionInv,
              NoWriteBelowFloor, MirrorShowsIntent, NothingToDo, NoPage
<1>4. Upgrade => IInv'
  BY DEF Upgrade, TypeOK, FlushInv, QueueInv, ServerInv, PageInv, VersionInv,
         NoWriteBelowFloor, MirrorShowsIntent, NothingToDo, NoPage
<1>5. QED
  BY <1>1, <1>2, <1>3, <1>4

\* A step of something else changes nothing.
LEMMA StutterStep == IInv /\ UNCHANGED vars => IInv'
  BY DEF IInv, vars, mirrorVars, flushVars, serverVars, history, bounds, TypeOK, FlushInv,
         QueueInv, ServerInv, PageInv, VersionInv, NoWriteBelowFloor, MirrorShowsIntent,
         Pending, NothingToDo, NoPage

\* Every gesture is a Queue of some keys (setRead, setReadMany, mark all read).
LEMMA UiStep == IInv /\ Ui => IInv'
<1> SUFFICES ASSUME IInv, Ui PROVE IInv'
  OBVIOUS
<1>1. ASSUME NEW k \in Keys, NEW v \in Values, Tap(k, v) PROVE IInv'
  BY <1>1, QueueStep DEF Tap
<1>2. ASSUME NEW E \in SUBSET Entries, MarkAllRead(E) PROVE IInv'
  <2> DEFINE toMark == {k \in StatusOf(E \cap held) : mirror[k] # Read}
  <2>1. toMark \in SUBSET Keys
    BY ConstantsAssumption DEF StatusOf, Keys
  <2>2. Queue(toMark, Read)
    BY <1>2 DEF MarkAllRead
  <2>3. QED
    BY <2>1, <2>2, QueueStep, ConstantsAssumption
<1>3. ASSUME NEW E \in SUBSET Entries, NEW v \in Values, SetReadMany(E, v) PROVE IInv'
  <2>1. StatusOf(E) \in SUBSET Keys
    BY ConstantsAssumption DEF StatusOf, Keys
  <2>2. QED
    BY <1>3, <2>1, QueueStep DEF SetReadMany
<1>4. QED
  BY <1>1, <1>2, <1>3 DEF Ui

\* Every step of every actor keeps the invariant.
LEMMA NextInv == IInv /\ [Next]_vars => IInv'
<1> SUFFICES ASSUME IInv, [Next]_vars PROVE IInv'
  OBVIOUS
<1>1. CASE Flush
  BY <1>1, StartFlushStep, FailureSteps, QuietFlushSteps, ConfirmStep DEF Flush
<1>2. CASE Pull
  BY <1>2, QuietFlushSteps, FetchPageStep, MergePageStep, DropEntryStep DEF Pull
<1>3. CASE Environment
  BY <1>3, KillStep, ServerApplyStep, OthersSteps DEF Environment
<1>4. QED
  BY <1>1, <1>2, <1>3, UiStep, StutterStep DEF Next

\* Every reachable state satisfies the strengthened invariant, whatever the
\* interleaving of taps, flushes, kills and writes of other clients.
THEOREM Invariant == Spec => []IInv
<1>1. Init => IInv
  BY InitInv
<1>2. IInv /\ [Next]_vars => IInv'
  BY NextInv
<1>3. QED
  BY <1>1, <1>2, PTL DEF Spec

\* The tables and the worker's state keep their shape (outbox.rs, replay.rs).
THEOREM TypeCorrect == Spec => []TypeOK
<1>1. IInv => TypeOK
  BY DEF IInv
<1>2. QED
  BY <1>1, Invariant, PTL

\* An intent that left the queue unrefused is what the server took and holds
\* (outbox::confirm, flush).
THEOREM Settled == Spec => []SettledIsServed
<1>1. IInv => SettledIsServed
  <2> SUFFICES ASSUME IInv, NEW k \in Keys, intent[k] # None, ~Pending(k)
               PROVE  /\ accepted[k] = intent[k]
                      /\ k[1] \in live /\ k \notin foreign => server[k] = intent[k]
    BY DEF SettledIsServed
  <2>1. accepted[k] = intent[k]
    BY DEF IInv, ServerInv
  <2>2. QED
    BY <2>1 DEF IInv, ServerInv
<1>2. QED
  BY <1>1, Invariant, PTL

\* No pull undoes a tap (upsert_entry's conflict rule, flush before pull).
THEOREM TapsSurvivePulls == Spec => []MirrorShowsIntent
<1>1. IInv => MirrorShowsIntent
  BY DEF IInv
<1>2. QED
  BY <1>1, Invariant, PTL

\* No entry-state write reaches a server older than the floor (client.rs).
THEOREM FloorRespected == Spec => []NoWriteBelowFloor
<1>1. IInv => NoWriteBelowFloor
  BY DEF IInv
<1>2. QED
  BY <1>1, Invariant, PTL

-----------------------------------------------------------------------------

(***************************************************************************)
(* The refinement.  A tap is Want, the server's absolute set is Accept, a  *)
(* confirm is Settle of the rows it clears, a discard and a deletion are   *)
(* Refuse; every other step leaves what DesiredState speaks of alone.      *)
(***************************************************************************)

Queued == {k \in Keys : Pending(k)}

\* A tap is a Want.
LEMMA QueueWants ==
  ASSUME TypeOK, NEW K \in SUBSET Keys, NEW v \in Values, Queue(K, v)
  PROVE  Promise!Want(K, v)
  BY ConstantsAssumption DEF Queue, Promise!Want, Pending, NoRow, TypeOK

\* A failed request refuses what it discards, or changes no promise.
LEMMA FailRefines ==
  ASSUME TypeOK, NEW ids \in SUBSET Keys, NEW e, Fail(ids, e)
  PROVE  Promise!Refuse(Unchanged(ids)) \/ UNCHANGED Promise!vars
<1>1. CASE RecordFailure(ids) /\ UNCHANGED intent
  <2>1. \A k \in Keys : Pending(k)' <=> Pending(k)
    BY <1>1, RecordedRows
  <2>2. Queued' = Queued
    BY <2>1 DEF Queued
  <2>3. QED
    BY <1>1, <2>2 DEF Promise!vars, Queued, Fail
<1>2. CASE /\ ClearRows(ids)
           /\ intent' = [k \in Keys |-> IF k \in Unchanged(ids) THEN None ELSE intent[k]]
  <2>1. \A k \in Keys : Pending(k)' <=> Pending(k) /\ k \notin Unchanged(ids)
    BY <1>2, ClearedRows DEF Pending
  <2>2. Queued' = Queued \ Unchanged(ids)
    BY <2>1 DEF Queued
  <2>3. QED
    BY <1>2, <2>2 DEF Promise!Refuse, Queued, Fail
<1>3. QED
  BY <1>1, <1>2 DEF Fail

\* A confirm settles exactly the rows that still hold what was sent.
LEMMA ConfirmSettles ==
  ASSUME IInv, Confirm
  PROVE  Promise!Settle(Unchanged(batch)) /\ Unchanged(batch) \in SUBSET Keys
<1>1. TypeOK /\ batch \in SUBSET Keys /\ ClearRows(batch)
  BY DEF IInv, TypeOK, Confirm
<1>2. \A k \in Keys : Pending(k)' <=> Pending(k) /\ k \notin Unchanged(batch)
  BY <1>1, ClearedRows DEF Pending
<1>3. Queued' = Queued \ Unchanged(batch)
  BY <1>2 DEF Queued
<1>4. \A k \in Unchanged(batch) : k \in Queued /\ accepted[k] = intent[k]
  BY <1>1 DEF IInv, Confirm, Unchanged, QueueInv, ServerInv, Queued
<1>5. QED
  BY <1>1, <1>3, <1>4 DEF Promise!Settle, Queued, Confirm, Unchanged

\* The server's absolute set is an Accept.
LEMMA ApplyAccepts ==
  ASSUME IInv, ServerApply
  PROVE  \E v \in Values : Promise!Accept(batch, v) /\ batch \in SUBSET Keys
<1>1. PICK b \in batch :
          accepted' = [l \in Keys |-> IF l \in batch THEN todo[b] ELSE accepted[l]]
  BY DEF ServerApply
<1>2. todo[b] \in Values /\ batch \in SUBSET Keys /\ batch \subseteq Queued
  BY DEF IInv, TypeOK, FlushInv, Queued
<1>3. UNCHANGED <<intent, Queued>>
  BY DEF ServerApply, mirrorVars, Queued, Pending
<1>4. Promise!Accept(batch, todo[b])
  BY <1>1, <1>2, <1>3 DEF Promise!Accept, Queued
<1>5. QED
  BY <1>2, <1>4

\* Deleting an entry refuses its intents.
LEMMA DropRefuses ==
  ASSUME TypeOK, NEW d \in Entries, DropEntry(d)
  PROVE  Promise!Refuse({k \in Keys : k[1] = d})
<1> DEFINE K == {k \in Keys : k[1] = d}
<1>1. Queued' = Queued \ K
  BY DEF DropEntry, Queued, Pending, TypeOK
<1>2. intent' = [k \in Keys |-> IF k \in K THEN None ELSE intent[k]]
  BY DEF DropEntry
<1>3. QED
  BY <1>1, <1>2 DEF Promise!Refuse, Queued, DropEntry

\* Every step of the write path is a step of DesiredState, or none.
LEMMA StepRefines == IInv /\ [Next]_vars => [Promise!Next]_(Promise!vars)
<1> SUFFICES ASSUME IInv, [Next]_vars PROVE Promise!Next \/ UNCHANGED Promise!vars
  OBVIOUS
<1> USE DEF IInv
<1>1. ASSUME UNCHANGED <<outbox, intent, accepted>>
      PROVE  UNCHANGED Promise!vars
  BY <1>1 DEF Promise!vars, Pending
<1>2. CASE Ui
  <2>1. ASSUME NEW K \in SUBSET Keys, NEW v \in Values, Queue(K, v) PROVE Promise!Next
    BY <2>1, QueueWants DEF Promise!Next
  <2>2. ASSUME NEW E \in SUBSET Entries
        PROVE  /\ StatusOf(E) \in SUBSET Keys
               /\ {k \in StatusOf(E \cap held) : mirror[k] # Read} \in SUBSET Keys
    BY ConstantsAssumption DEF StatusOf, Keys
  <2>3. QED
    BY <1>2, <2>1, <2>2, ConstantsAssumption DEF Ui, Tap, SetReadMany, MarkAllRead
<1>3. CASE Flush
  <2>1. ASSUME NEW ids \in SUBSET Keys, NEW e, Fail(ids, e)
        PROVE  Promise!Next \/ UNCHANGED Promise!vars
    BY <2>1, FailRefines DEF Promise!Next, Unchanged
  <2>2. batch \in SUBSET Keys /\ \A ids \in Batches : ids \in SUBSET Keys
    BY BatchesAreKeys DEF TypeOK
  <2>3. CASE \/ \E ids \in Batches :
                  (\E e \in Errors : VersionUnavailable(ids, e)) \/ RefuseBelowFloor(ids)
             \/ \E e \in Errors : PutFails(e)
    BY <2>1, <2>2, <2>3 DEF VersionUnavailable, RefuseBelowFloor, PutFails
  <2>4. CASE Confirm
    BY <2>4, ConfirmSettles DEF Promise!Next
  <2>5. CASE StartFlush \/ LearnVersion \/ EndFlush \/ \E ids \in Batches : SendBatch(ids)
    BY <1>1, <2>5 DEF StartFlush, LearnVersion, EndFlush, SendBatch, mirrorVars, history
  <2>6. QED
    BY <1>3, <2>3, <2>4, <2>5 DEF Flush
<1>4. CASE Pull
  <2>1. CASE RefreshVersion \/ (\E E \in SUBSET live : FetchPage(E)) \/ MergePage \/ EndPull
    BY <1>1, <2>1 DEF RefreshVersion, FetchPage, MergePage, EndPull, mirrorVars, history
  <2>2. CASE \E d \in Entries : DropEntry(d)
    BY <2>2, DropRefuses DEF Promise!Next
  <2>3. QED
    BY <1>4, <2>1, <2>2 DEF Pull
<1>5. CASE Environment
  <2>1. CASE ServerApply
    BY <2>1, ApplyAccepts DEF Promise!Next
  <2>2. CASE \/ \E r \in late : LateApply(r)
             \/ \E k \in Keys, v \in Values : OtherWrite(k, v)
             \/ \E d \in Entries : ServerDelete(d)
             \/ Upgrade
             \/ Kill
    BY <1>1, <2>2 DEF LateApply, OtherWrite, ServerDelete, Upgrade, Kill, mirrorVars, history
  <2>3. QED
    BY <1>5, <2>1, <2>2 DEF Environment
<1>6. CASE UNCHANGED vars
  BY <1>1, <1>6 DEF vars, mirrorVars, history
<1>7. QED
  BY <1>2, <1>3, <1>4, <1>5, <1>6 DEF Next

\* The outbox keeps the promise of DesiredState: no intent is lost between the
\* tap and the server, whatever is killed, retried or re-tapped in between.
THEOREM KeepsThePromise == Spec => ImplementsDesiredState
<1>1. Init => Promise!Init
  BY DEF Init, Promise!Init, Pending
<1>2. IInv /\ [Next]_vars => [Promise!Next]_(Promise!vars)
  BY StepRefines
<1>3. QED
  BY <1>1, <1>2, Invariant, PTL DEF Spec, ImplementsDesiredState, Promise!Spec

-----------------------------------------------------------------------------

(***************************************************************************)
(* The mirror and the server.  What ties them together is what the worker  *)
(* has in hand: a page not yet merged, or an answer not yet acted on, is   *)
(* still what the server holds unless its key is stale.                    *)
(***************************************************************************)

AgreeInv ==
    /\ MirrorAgrees
    /\ \A k \in Keys : page[k] # None /\ k \notin stale /\ k[1] \in live => page[k] = server[k]
    /\ pc = "applied" => \A k \in batch : k \notin stale /\ k[1] \in live => server[k] = todo[k]

\* A tap in the middle of anything.
LEMMA QueueAgrees ==
  ASSUME IInv, AgreeInv, NEW K \in SUBSET Keys, NEW v \in Values, Queue(K, v)
  PROVE  AgreeInv'
<1>1. \A k \in Keys : IF k \in K THEN Pending(k)' ELSE (Pending(k)' <=> Pending(k)) /\ mirror'[k] = mirror[k]
  BY ConstantsAssumption DEF Queue, Pending, NoRow
<1>2. UNCHANGED <<held, live, server, page, batch, todo, pc, stale>>
  BY DEF Queue, flushVars, serverVars
<1>3. QED
  BY <1>1, <1>2 DEF AgreeInv, MirrorAgrees

\* Every gesture is such a tap.
LEMMA UiAgrees == IInv /\ AgreeInv /\ Ui => AgreeInv'
<1> SUFFICES ASSUME IInv, AgreeInv, Ui PROVE AgreeInv'
  OBVIOUS
<1>1. ASSUME NEW E \in SUBSET Entries
      PROVE  /\ StatusOf(E) \in SUBSET Keys
             /\ {k \in StatusOf(E \cap held) : mirror[k] # Read} \in SUBSET Keys
  BY ConstantsAssumption DEF StatusOf, Keys
<1>2. QED
  BY <1>1, QueueAgrees, ConstantsAssumption DEF Ui, Tap, SetReadMany, MarkAllRead

\* A failure keeps its rows, or makes the keys it gives up stale.
LEMMA FailAgrees ==
  ASSUME IInv, AgreeInv, NEW ids \in SUBSET Keys, NEW e, Fail(ids, e),
         UNCHANGED <<server, live>>
  PROVE  AgreeInv'
<1>t. TypeOK
  BY DEF IInv
<1>1. pc' # "applied" /\ UNCHANGED <<mirror, held, page>>
  BY DEF Fail, Abandon, NextBatch
<1>2. stale \subseteq stale' /\ \A k \in Keys : Pending(k) => Pending(k)' \/ k \in stale'
  <2>1. CASE RecordFailure(ids) /\ UNCHANGED stale
    BY <1>t, <2>1, RecordedRows
  <2>2. CASE ClearRows(ids) /\ stale' = stale \cup Unchanged(ids)
    BY <1>t, <2>2, ClearedRows DEF Pending
  <2>3. QED
    BY <2>1, <2>2 DEF Fail
<1>3. \A k \in Keys : Pending(k)' => Pending(k)
  <2>1. CASE RecordFailure(ids)
    BY <1>t, <2>1, RecordedRows
  <2>2. CASE ClearRows(ids)
    BY <1>t, <2>2, ClearedRows DEF Pending
  <2>3. QED
    BY <2>1, <2>2 DEF Fail
<1>4. MirrorAgrees'
  BY <1>1, <1>2, <1>3 DEF AgreeInv, MirrorAgrees
<1>5. QED
  BY <1>1, <1>2, <1>4 DEF AgreeInv

\* What a confirm clears is what the server took, and what the reader sees.
LEMMA ConfirmAgrees == IInv /\ AgreeInv /\ Confirm => AgreeInv'
<1> SUFFICES ASSUME IInv, AgreeInv, Confirm PROVE AgreeInv'
  OBVIOUS
<1>0. TypeOK /\ batch \in SUBSET Keys /\ ClearRows(batch) /\ pc = "applied" /\ pc' = "flushing"
  BY DEF IInv, TypeOK, Confirm, NextBatch
<1>1. UNCHANGED <<mirror, held, page, server, live, stale>>
  BY DEF Confirm, serverVars
<1>2. ASSUME NEW k \in Keys, k[1] \in held \cap live, ~Pending(k)', k \notin stale, page[k] = None
      PROVE  mirror[k] = server[k]
  <2>1. CASE k \in Unchanged(batch)
    <3>1. k \in batch /\ Pending(k) /\ outbox[k].value = todo[k]
      BY <2>1 DEF Unchanged
    <3>2. todo[k] # None /\ intent[k] = todo[k]
      BY <3>1 DEF IInv, FlushInv, QueueInv
    <3>3. mirror[k] = todo[k]
      BY <1>2, <3>1, <3>2 DEF IInv, MirrorShowsIntent
    <3>4. QED
      BY <1>0, <1>2, <3>1, <3>3 DEF AgreeInv
  <2>2. CASE k \notin Unchanged(batch)
    BY <1>0, <1>2, <2>2, ClearedRows DEF AgreeInv, MirrorAgrees, Pending
  <2>3. QED
    BY <2>1, <2>2
<1>3. MirrorAgrees'
  BY <1>1, <1>2 DEF MirrorAgrees
<1>4. QED
  BY <1>0, <1>1, <1>3 DEF AgreeInv

\* The rest of a flush.
LEMMA FlushAgrees == IInv /\ AgreeInv /\ Flush => AgreeInv'
<1> SUFFICES ASSUME IInv, AgreeInv, Flush PROVE AgreeInv'
  OBVIOUS
<1>1. batch \in SUBSET Keys /\ \A ids \in Batches : ids \in SUBSET Keys
  BY BatchesAreKeys DEF IInv, TypeOK
<1>2. CASE \/ \E ids \in Batches :
                (\E e \in Errors : VersionUnavailable(ids, e)) \/ RefuseBelowFloor(ids)
           \/ \E e \in Errors : PutFails(e)
  BY <1>1, <1>2, FailAgrees DEF VersionUnavailable, RefuseBelowFloor, PutFails, serverVars
<1>3. CASE StartFlush \/ LearnVersion \/ EndFlush \/ \E ids \in Batches : SendBatch(ids)
  <2>1. UNCHANGED <<mirror, server, page, stale, held, live, outbox>>
    BY <1>3 DEF StartFlush, LearnVersion, EndFlush, SendBatch, mirrorVars, serverVars, history
  <2>2. pc' # "applied"
    BY <1>3 DEF StartFlush, LearnVersion, EndFlush, SendBatch
  <2>3. QED
    BY <2>1, <2>2 DEF AgreeInv, MirrorAgrees, Pending
<1>4. QED
  BY <1>2, <1>3, ConfirmAgrees DEF Flush

\* A page is the server's word until it is merged, lost or overtaken.
LEMMA PullAgrees == IInv /\ AgreeInv /\ Pull => AgreeInv'
<1> SUFFICES ASSUME IInv, AgreeInv, Pull PROVE AgreeInv'
  OBVIOUS
<1> USE DEF mirrorVars, flushVars, serverVars, history
<1>1. CASE RefreshVersion
  BY <1>1 DEF RefreshVersion, AgreeInv, MirrorAgrees, Pending
<1>2. ASSUME NEW E \in SUBSET live, FetchPage(E) PROVE AgreeInv'
  <2>1. /\ pc = "pulling" /\ pc' = "merging"
        /\ \A k \in Keys : page'[k] = IF k[1] \in E THEN server[k] ELSE None
        /\ \A k \in Keys : page[k] = None
        /\ UNCHANGED <<outbox, mirror, held, server, live>>
    BY <1>2 DEF FetchPage, IInv, PageInv, NoPage
  <2>2. \A k \in Keys : k \in stale /\ k[1] \notin E => k \in stale'
    BY <1>2 DEF FetchPage, KeysOf
  <2>3. \A k \in Keys : server[k] # None
    BY ConstantsAssumption DEF IInv, TypeOK
  <2>4. MirrorAgrees'
    BY <2>1, <2>2, <2>3 DEF AgreeInv, MirrorAgrees, Pending
  <2>5. QED
    BY <2>1, <2>4 DEF AgreeInv
<1>3. CASE MergePage
  <2>1. /\ pc' = "idle" /\ \A k \in Keys : page'[k] = None
        /\ \A k \in Keys : mirror'[k] = IF page[k] # None THEN Merged(k) ELSE mirror[k]
        /\ UNCHANGED <<outbox, server, live, stale>>
    BY <1>3 DEF MergePage, NoPage
  <2>2. ASSUME NEW k \in Keys, k[1] \in held' \cap live, ~Pending(k), k \notin stale
        PROVE  mirror'[k] = server[k]
    <3>1. CASE page[k] # None
      BY <2>1, <2>2, <3>1 DEF AgreeInv, Merged
    <3>2. CASE page[k] = None
      <4>1. k[1] \in held
        BY <1>3, <2>2, <3>2 DEF MergePage, Keys, KeysOf
      <4>2. QED
        BY <2>1, <2>2, <3>2, <4>1 DEF AgreeInv, MirrorAgrees
    <3>3. QED
      BY <3>1, <3>2
  <2>3. MirrorAgrees'
    BY <2>1, <2>2 DEF MirrorAgrees, Pending
  <2>4. QED
    BY <2>1, <2>3 DEF AgreeInv
<1>4. ASSUME NEW d \in Entries, DropEntry(d) PROVE AgreeInv'
  <2>1. /\ UNCHANGED <<mirror, server, page, batch, todo, pc, stale, live>>
        /\ held' = held \ {d}
        /\ \A k \in Keys : k[1] # d => outbox'[k] = outbox[k]
    BY <1>4 DEF DropEntry
  <2>2. MirrorAgrees'
    BY <2>1 DEF AgreeInv, MirrorAgrees, Pending
  <2>3. QED
    BY <2>1, <2>2 DEF AgreeInv
<1>5. CASE EndPull
  <2>1. /\ pc' = "idle" /\ \A k \in Keys : page'[k] = None
        /\ stale' = stale \cup {k \in Keys : page[k] # None}
        /\ UNCHANGED <<outbox, mirror, held, server, live>>
    BY <1>5 DEF EndPull, LosePage, NoPage
  <2>2. MirrorAgrees'
    BY <2>1 DEF AgreeInv, MirrorAgrees, Pending
  <2>3. QED
    BY <2>1, <2>2 DEF AgreeInv
<1>6. QED
  BY <1>1, <1>2, <1>3, <1>4, <1>5 DEF Pull

\* The server, its other clients, and a kill.
LEMMA EnvironmentAgrees == IInv /\ AgreeInv /\ Environment => AgreeInv'
<1> SUFFICES ASSUME IInv, AgreeInv, Environment PROVE AgreeInv'
  OBVIOUS
<1> USE DEF mirrorVars, flushVars, history
<1>1. CASE ServerApply
  <2>1. PICK b \in batch : server' = Written(batch, todo[b])
    BY <1>1 DEF ServerApply
  <2>2. /\ \A k \in batch : Pending(k) /\ todo[k] = todo[b]
        /\ batch \in SUBSET Keys
        /\ \A k \in Keys : page[k] = None
    BY <1>1 DEF IInv, TypeOK, FlushInv, PageInv, NoPage, ServerApply
  <2>3. /\ stale' = stale \ batch
        /\ UNCHANGED <<outbox, mirror, held, page, live, todo, batch>>
    BY <1>1 DEF ServerApply
  <2>4. \A k \in Keys : server'[k] = IF k \in batch /\ k[1] \in live THEN todo[b] ELSE server[k]
    BY <2>1 DEF Written
  <2>5. MirrorAgrees'
    BY <2>2, <2>3, <2>4 DEF AgreeInv, MirrorAgrees, Pending
  <2>6. QED
    BY <2>2, <2>3, <2>4, <2>5 DEF AgreeInv
<1>2. ASSUME NEW r \in late, LateApply(r) PROVE AgreeInv'
  <2>1. /\ \A k \in Keys : server'[k] = server[k] \/ k \in stale'
        /\ stale \subseteq stale'
        /\ UNCHANGED <<outbox, mirror, held, page, live, todo, batch, pc>>
    BY <1>2 DEF LateApply, Written
  <2>2. MirrorAgrees'
    BY <2>1 DEF AgreeInv, MirrorAgrees, Pending
  <2>3. batch \in SUBSET Keys
    BY DEF IInv, TypeOK
  <2>4. QED
    BY <2>1, <2>2, <2>3 DEF AgreeInv
<1>3. ASSUME NEW l \in Keys, NEW v \in Values, OtherWrite(l, v) PROVE AgreeInv'
  <2>1. /\ \A k \in Keys : server'[k] = server[k] \/ k \in stale'
        /\ stale \subseteq stale'
        /\ UNCHANGED <<outbox, mirror, held, page, live, todo, batch, pc>>
    BY <1>3 DEF OtherWrite, IInv, TypeOK
  <2>2. MirrorAgrees'
    BY <2>1 DEF AgreeInv, MirrorAgrees, Pending
  <2>3. batch \in SUBSET Keys
    BY DEF IInv, TypeOK
  <2>4. QED
    BY <2>1, <2>2, <2>3 DEF AgreeInv
<1>4. ASSUME NEW d \in Entries, ServerDelete(d) PROVE AgreeInv'
  BY <1>4 DEF ServerDelete, AgreeInv, MirrorAgrees, Pending
<1>5. CASE Upgrade
  BY <1>5 DEF Upgrade, AgreeInv, MirrorAgrees, Pending
<1>6. CASE Kill
  <2>1. /\ pc' = "idle" /\ \A k \in Keys : page'[k] = None
        /\ stale' = stale \cup {k \in Keys : page[k] # None}
        /\ UNCHANGED <<outbox, mirror, held, server, live>>
    BY <1>6 DEF Kill, Abandon, LosePage, NoPage
  <2>2. MirrorAgrees'
    BY <2>1 DEF AgreeInv, MirrorAgrees, Pending
  <2>3. QED
    BY <2>1, <2>2 DEF AgreeInv
<1>7. QED
  BY <1>1, <1>2, <1>3, <1>4, <1>5, <1>6 DEF Environment

\* With nothing queued the reader sees what the server holds, but for what changed
\* elsewhere or was given up since the last page about it (upsert_entry, confirm,
\* discard, flush before pull).
THEOREM MirrorInStep == Spec => []MirrorAgrees
<1>1. Init => AgreeInv
  BY DEF Init, AgreeInv, MirrorAgrees, NoPage
<1>2. IInv /\ AgreeInv /\ [Next]_vars => AgreeInv'
  <2>1. IInv /\ AgreeInv /\ UNCHANGED vars => AgreeInv'
    BY DEF vars, mirrorVars, flushVars, serverVars, history, AgreeInv, MirrorAgrees, Pending
  <2>2. QED
    BY <2>1, UiAgrees, FlushAgrees, PullAgrees, EnvironmentAgrees DEF Next
<1>3. AgreeInv => MirrorAgrees
  BY DEF AgreeInv
<1>4. QED
  BY <1>1, <1>2, <1>3, Invariant, PTL DEF Spec

=============================================================================
