---------------------------- MODULE DesiredState ----------------------------
(***************************************************************************)
(* What the offline write path promises, whatever the network and the      *)
(* process do.  Every key (an entry's read status, an entry's star) holds  *)
(* the user's latest intent until either the server has accepted that very *)
(* value or the intent is refused openly.  It is never dropped otherwise.  *)
(* db/outbox.rs states it as "idempotent replay", "survives kill           *)
(* mid-flight" and "compare-and-delete, never blind".                      *)
(***************************************************************************)
CONSTANTS
    Keys,     \* what an intent can be about
    Values,   \* the values a key can take
    None      \* no value

VARIABLES
    intent,   \* the user's latest intent for each key, or None
    queued,   \* the keys whose intent the device still has to deliver
    accepted  \* the value the server last took from the device, or None

vars == <<intent, queued, accepted>>

Init ==
    /\ intent = [k \in Keys |-> None]
    /\ queued = {}
    /\ accepted = [k \in Keys |-> None]

\* The user asks for value v on the keys K.
Want(K, v) ==
    /\ intent' = [k \in Keys |-> IF k \in K THEN v ELSE intent[k]]
    /\ queued' = queued \cup K
    /\ UNCHANGED accepted

\* The server takes v for keys that still wait, if not always for that value.
Accept(K, v) ==
    /\ K \subseteq queued
    /\ accepted' = [k \in Keys |-> IF k \in K THEN v ELSE accepted[k]]
    /\ UNCHANGED <<intent, queued>>

\* Delivered: only when what the server took is what the user wants now.
Settle(K) ==
    /\ K \subseteq queued
    /\ \A k \in K : accepted[k] = intent[k]
    /\ queued' = queued \ K
    /\ UNCHANGED <<intent, accepted>>

\* Given up in the open: the server rejects the intent or lost its subject.
Refuse(K) ==
    /\ intent' = [k \in Keys |-> IF k \in K THEN None ELSE intent[k]]
    /\ queued' = queued \ K
    /\ UNCHANGED accepted

Next ==
    \E K \in SUBSET Keys :
        \/ \E v \in Values : Want(K, v) \/ Accept(K, v)
        \/ Settle(K)
        \/ Refuse(K)

Spec == Init /\ [][Next]_vars

=============================================================================
