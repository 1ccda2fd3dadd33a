------------------------------ MODULE MCArrivals ------------------------------
(***************************************************************************)
(* An instance of Arrivals with articles as model values.                  *)
(***************************************************************************)
EXTENDS Arrivals

CONSTANTS a1, a2
=============================================================================
