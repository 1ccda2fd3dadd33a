------------------------------- MODULE MCLists -------------------------------
(***************************************************************************)
(* An instance of Lists: the list the reader taps, and one that watches    *)
(* and changes its scope.                                                  *)
(***************************************************************************)
EXTENDS Lists

CONSTANTS unreadTab, browsed
=============================================================================
