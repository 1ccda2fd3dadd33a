---------------------------- MODULE Subscriptions ----------------------------
(***************************************************************************)
(* What a phone that mirrors somebody's feeds promises about them, however *)
(* listings, pages, edits and failures cross.  It shows of a feed what the *)
(* server has said of it, in whatever order it learns of it; it forgets a  *)
(* feed only once the server no longer has it; and a feed it has forgotten *)
(* never returns.  pull.rs states it as "EMPTY feed listing never read as  *)
(* 'unsubscribed from everything'", worker.rs as "Server first, mirror     *)
(* second".                                                                *)
(***************************************************************************)
CONSTANTS
    Ids,       \* feed ids
    Columns    \* what a feed's columns can hold

VARIABLES
    remote,    \* the feeds the server has
    given,     \* the ids it ever gave out
    said,      \* [Ids -> what the server ever said of the feed]
    shown,     \* [Ids -> the columns the phone shows, {} for no feed]
    forgotten  \* the feeds the phone has deleted, and their entries with them

vars == <<remote, given, said, shown, forgotten>>

Init ==
    /\ remote = {} /\ given = {} /\ forgotten = {}
    /\ said = [f \in Ids |-> {}]
    /\ shown = [f \in Ids |-> {}]

Says(f) == \E C \in SUBSET Columns : said' = [said EXCEPT ![f] = @ \cup C]

\* Somebody subscribes, under an id never used before.
Subscribe(f) ==
    /\ f \notin given
    /\ remote' = remote \cup {f}
    /\ given' = given \cup {f}
    /\ Says(f)
    /\ UNCHANGED <<shown, forgotten>>

\* The phone's user or another client edits a feed, on the server.
Edit(f) ==
    /\ f \in remote
    /\ Says(f)
    /\ UNCHANGED <<remote, given, shown, forgotten>>

Unsubscribe(f) ==
    /\ f \in remote
    /\ remote' = remote \ {f}
    /\ UNCHANGED <<given, said, shown, forgotten>>

\* The phone shows the feeds F anew.
Show(F) ==
    /\ F \cap forgotten = {}
    /\ shown' \in [Ids -> SUBSET Columns]
    /\ \A f \in F : shown'[f] # {} /\ shown'[f] \subseteq said[f]
    /\ \A f \in Ids \ F : shown'[f] = shown[f]
    /\ UNCHANGED <<remote, given, said, forgotten>>

\* The phone deletes the feeds F.
Forget(F) ==
    /\ F \subseteq given \ remote
    /\ forgotten' = forgotten \cup F
    /\ shown' = [f \in Ids |-> IF f \in F THEN {} ELSE shown[f]]
    /\ UNCHANGED <<remote, given, said>>

Next ==
    \/ \E f \in Ids : Subscribe(f) \/ Edit(f) \/ Unsubscribe(f)
    \/ \E F \in SUBSET Ids : Show(F) \/ Forget(F)

Spec == Init /\ [][Next]_vars

=============================================================================
