------------------------- MODULE MCBuildSupervisor -------------------------
(***************************************************************************)
(* A small instance of BuildSupervisor: three process ids, a wheel and a   *)
(* source distribution, which are a proper file, a canonical one or a link.*)
(***************************************************************************)
EXTENDS BuildSupervisor, TLC

CONSTANTS p1, p2, p3, w, s, drifted, canonical, link

MCCanonical == (drifted :> canonical) @@ (canonical :> canonical)
=============================================================================
