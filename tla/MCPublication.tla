--------------------------- MODULE MCPublication ---------------------------
(***************************************************************************)
(* Small instances of Publication: one request to advance the secure       *)
(* branch from c1 to c2, delivered to one item or to items of two runs.    *)
(***************************************************************************)
EXTENDS Publication, TLC

CONSTANTS first, i1, i2, c1, c2

MCPatch == first :> c2
MCExpected == first :> c1
MCIssued == first :> 0

\* The authorization ends with the clock, or earlier.
MCExpires == first :> 3
EarlyExpires == first :> 2

\* The request in two runs or in one.
Replayed == [i \in Item |-> first]
=============================================================================
