---------------------------- MODULE MCReconcile ----------------------------
(***************************************************************************)
(* Reconcile on small instances: the odd ids in one feed, the even ones in *)
(* another.                                                                *)
(***************************************************************************)
EXTENDS Reconcile

OddAndEven == [i \in Ids |-> i % 2]

=============================================================================
