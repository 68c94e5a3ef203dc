-------------------------- MODULE MCRebuildCases --------------------------
(***************************************************************************)
(* Cases for RebuildLane: a build and its repetition, the same build under *)
(* another manifest, and builds that differ from it in what they deliver   *)
(* or do, or that are not verified.                                        *)
(***************************************************************************)
EXTENDS Naturals, TLC

CONSTANTS one, again, two, drifted, wild, forged

Contents ==
  LET built == [verified |-> TRUE, run |-> 1, identity |-> "reviewed", project |-> "p",
                artifacts |-> "wheel", spdx |-> "sbom", source |-> "tree",
                trusted |-> "tree", builder |-> "steady", trace |-> <<"open", "exec">>,
                attestations |-> 1]
      repeated == [built EXCEPT !.run = 2, !.attestations = 2,
                                !.trace = <<"exec", "open", "open">>]
  IN  (one :> built) @@ (again :> built) @@ (two :> repeated)
      @@ (drifted :> [repeated EXCEPT !.artifacts = "other wheel"])
      @@ (wild :> [repeated EXCEPT !.trace = <<"open", "exec", "connect">>])
      @@ (forged :> [repeated EXCEPT !.verified = FALSE])

Asked(l, r) == [bundle |-> [left |-> l, right |-> r], run |-> [left |-> 1, right |-> 2]]

Requests ==
  {Asked(one, two), Asked(again, two), Asked(one, one), Asked(one, drifted),
   Asked(one, wild), Asked(one, forged)}
=============================================================================
