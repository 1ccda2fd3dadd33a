------------------------------- MODULE Errors -------------------------------
(***************************************************************************)
(* How a failed request is classified (vuo-core, error.rs), and what the   *)
(* outbox flush makes of the classes (sync/replay.rs).  An error is its    *)
(* kind and, for an HTTP answer, its status; messages and endpoints are    *)
(* abstracted away.  One value stands for each case the code tells apart.  *)
(***************************************************************************)
EXTENDS Naturals

Http(status) == [kind |-> "http", status |-> status]
Transport(kind) == [kind |-> kind, status |-> 0]

\* The statuses the classifiers name, and one of each of the others' families.
HttpStatuses == {400, 401, 403, 404, 405, 408, 409, 411, 413, 414, 415, 422, 429, 431, 500, 503}

\* Failures of the request itself.  "config" is refused by the client before
\* anything is sent.
LocalKinds == {"config", "protocol"}
TransportKinds == {"connect", "timeout", "tls", "redirectRefused", "bodyTooLarge"}

Errors == {Http(s) : s \in HttpStatuses} \cup {Transport(k) : k \in TransportKinds \cup LocalKinds}

IsAuthFailure(e) == e.kind = "http" /\ e.status \in {401, 403}

IsPermanentlyRejected(e) ==
    e.kind = "http" /\ e.status \in {400, 411, 413, 414, 415, 422, 431}

IsTransient(e) ==
    \/ e.kind \in TransportKinds \ {"redirectRefused", "bodyTooLarge"}
    \/ e.kind = "http" /\ (e.status = 429 \/ e.status \in 500..599)

\* The flush drops the batch, stops, or keeps the batch queued.
WouldDiscard(e) == ~IsAuthFailure(e) /\ IsPermanentlyRejected(e)
ShouldRetry(e) == ~IsAuthFailure(e) /\ IsTransient(e)

\* Nothing the server did: it, or something in front of it, turned the request down.
Refusal(e) == IsAuthFailure(e) \/ IsPermanentlyRejected(e)

\* The client stopped waiting; the request may still reach the server.
GaveUpWaiting(e) == e.kind = "timeout"

=============================================================================
