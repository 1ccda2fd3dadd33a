------------------------------ MODULE MCOutbox ------------------------------
(***************************************************************************)
(* Outbox on small instances.                                              *)
(***************************************************************************)
EXTENDS Outbox, TLC

CONSTANTS e1, e2, read, unread

\* Entries are interchangeable; the two values are not ("read" is what
\* mark-all-read asks for).
Symmetry == Permutations(Entries)

=============================================================================
