--------------------------- MODULE MCReleaseLane ---------------------------
(***************************************************************************)
(* A small instance of ReleaseLane.                                        *)
(***************************************************************************)
EXTENDS ReleaseLane, MCReleaseCases
=============================================================================
