------------------------- MODULE MCManagedCheckout -------------------------
(***************************************************************************)
(* A small instance of ManagedCheckout: upstream has a commit and its      *)
(* successor, between which it moves both ways.                            *)
(***************************************************************************)
EXTENDS ManagedCheckout, TLC

CONSTANTS old, new, s1, s2, p1, p2, a1, a2

MCAncestors == (old :> {old}) @@ (new :> {old, new})

Symmetry ==
  Permutations(Sync) \cup Permutations(Patcher) \cup Permutations(Approval)
=============================================================================
