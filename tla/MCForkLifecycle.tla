-------------------------- MODULE MCForkLifecycle --------------------------
(***************************************************************************)
(* A small instance of ForkLifecycle: two repositories of one name, which  *)
(* is the name of the fork of each, unless both are selected.              *)
(***************************************************************************)
EXTENDS ForkLifecycle, TLC

CONSTANTS a, b, x, ax, bx, c1, op, l1

MCRanked == <<a, b>>
MCPlain == (a :> x) @@ (b :> x)
MCQualified == (a :> ax) @@ (b :> bx)

MCWish == [allow |-> {}, suppress |-> {}, limit |-> 1]

MCPolicy ==
  {MCWish,
   [allow |-> {b}, suppress |-> {}, limit |-> 2],
   [allow |-> {}, suppress |-> {a}, limit |-> 2]}
=============================================================================
