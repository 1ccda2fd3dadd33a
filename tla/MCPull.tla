------------------------------- MODULE MCPull -------------------------------
(***************************************************************************)
(* Pull on small instances.                                                *)
(***************************************************************************)
EXTENDS Pull

=============================================================================
