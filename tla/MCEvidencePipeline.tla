------------------------- MODULE MCEvidencePipeline -------------------------
(***************************************************************************)
(* The pipeline over small contents, and in its first state the claims     *)
(* about the contents themselves.                                          *)
(*                                                                         *)
(* This run's build is honest, or wrong in one respect each.  Two other    *)
(* runs completed: one reproduced the artifacts but was traced differently *)
(* and the other did not.  Files, or groups of files that vouch for each   *)
(* other, can be replaced by those of either.                              *)
(***************************************************************************)
EXTENDS EvidencePipeline, MCEvidenceContents

Call(name) ==
    [kind |-> "syscall", name |-> name, failed |-> FALSE, quoted |-> "p",
     writes |-> FALSE, unix |-> FALSE, host |-> "h", port |-> "1", utf8 |-> TRUE]

Clean(trace) == "strace.1" :> trace
MCTrace == Clean(<<Call("openat")>>)

HonestBuild ==
    [dist |-> "x1", raw |-> "y1", source |-> Inventory("tree", "tree"),
     trace |-> MCTrace, succeeded |-> TRUE, boundary |-> "fixed"]

MCBuilds ==
    {HonestBuild,
     [HonestBuild EXCEPT !.succeeded = FALSE],
     [HonestBuild EXCEPT !.boundary = "other"],
     [HonestBuild EXCEPT !.source = Inventory("other tree", "other tree")],
     [HonestBuild EXCEPT !.source = Inventory("other tree", "tree")],
     [HonestBuild EXCEPT !.dist = "y1"],
     [HonestBuild EXCEPT !.dist = "x2"],
     [HonestBuild EXCEPT !.trace = "strace.log" :> <<Call("openat")>>],
     [HonestBuild EXCEPT !.trace = Clean(<<Call("openat"),
                                           [Call("openat") EXCEPT !.kind = "other"]>>)]}
MCOtherBuilds ==
    {[HonestBuild EXCEPT !.raw = "y2",
                         !.trace = Clean(<<Call("openat"), Call("mkdir")>>)],
     [HonestBuild EXCEPT !.raw = "y3", !.dist = "x2"]}
MCRawTraces == TraceInputs \cup {build.trace : build \in MCBuilds}
MCScans == {"scan1", "scan2"}
MCPayload == [artifact \in {"x1", "x2", "y1", "y2", "y3"} |->
                 IF artifact \in {"x2", "y3"} THEN "p2" ELSE "p1"]
MCCanonicalOf == {"x1", "x2"}
MCSwapSets ==
    {{file} : file \in Listed}
    \cup {{"trace", "raw_trace"}, {"trace", "raw_trace", "builder"}, BundleFiles,
          BundleFiles \cup {"predicate"}, BuilderWritten, Listed \cup {"manifest"}}

---------------------------------------------------------------------------
AtFirst == at = 1 /\ attempt = 1 /\ swaps = 0

EveryDocument(Claim(_)) ==
    \A n, m, k \in 0..SpdxBound : n + m + k <= SpdxBound =>
        \A document \in Documents(n, m, k) : Claim(document)

(* The handoff's and the verifier's SPDX normalisers refuse the same       *)
(* documents and return the same result for the others, in which the       *)
(* scanner's identifiers and the order of its lists leave no trace.        *)
SpdxNormalizersAgree ==
    AtFirst => EveryDocument(SpdxNormalizersAgreeOn) /\ EveryDocument(PresentationIsForgotten)

EverySdist(Claim(_)) == \A n \in 0..SdistBound : \A sdist \in Sdists(n) : Claim(sdist)
EveryWheel(Claim(_)) == \A n \in 3..WheelBound : \A wheel \in Wheels(n) : Claim(wheel)

(* The canonical sdist depends only on what the raw one holds, and the     *)
(* second reader confirms it, but for the two kinds of archive it never    *)
(* accepts; a wheel it accepts is committed by its RECORD.                 *)
ArchivesAreConfirmed ==
    AtFirst => /\ EverySdist(SdistIsReproducible)
               /\ EverySdist(SecondReaderConfirmsOn)
               /\ EveryWheel(RecordCommits)
==============================================================================
