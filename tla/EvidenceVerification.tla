------------------------- MODULE EvidenceVerification -------------------------
(***************************************************************************)
(* The verifier of a retained evidence directory                           *)
(* (verify_build_attestations of build_verification_v3.py).                *)
(*                                                                         *)
(* It reads the manifest once and then every file it names, most of them   *)
(* more than once, while the directory may change under it.  A file whose  *)
(* digest is checked is the manifest's or the verification is refused, so  *)
(* `entry' holds what every checked reading returns; what it reads without *)
(* a digest check, it reads from the directory as it then is.              *)
(***************************************************************************)
EXTENDS EvidenceBundle

VARIABLES
    phase,         \* what the verifier does next
    todo,          \* the files whose size and digest are still to check
    entry,         \* the snapshot of the manifest
    observed,      \* the second reading of the observed trace
    record         \* the verification record, or NONE

verifierVars == <<phase, todo, entry, observed, record>>

Phases == {"idle", "files", "subjects", "spdx", "reports", "archives", "predicate",
           "trace", "raw_traces", "provenance", "sbom", "build", "done", "refused"}

(* validate_v3_evidence_manifest goes through the roles in order.          *)
StreamOrder ==
    <<"dist", "build_bundle", "provenance_bundle", "sbom_bundle", "raw_artifacts",
      "predicate", "artifact_inventory", "subjects", "transforms", "builder", "seal",
      "source_inventory", "spdx_report", "trusted", "raw_trace", "syft", "sbom",
      "trace">>

Unchanged(files) == \A file \in files : disk[file] = entry[file]

ReportFiles == {"artifact_inventory", "transforms", "builder", "source_inventory",
                "trusted", "seal", "trace"}

---------------------------------------------------------------------------
(* What each phase reads again and demands.                                *)

SubjectsHold == Unchanged({"subjects"}) /\ entry.subjects = entry.dist

SpdxHolds == Unchanged({"spdx_report", "syft", "sbom"}) /\ RetainedSpdx(entry)

ReportsHold ==
    /\ Unchanged(ReportFiles)
    /\ RetainedSource(entry) /\ RetainedHandoffSeal(entry)
    /\ RetainedTransform(entry)

(* The archives are opened by path, their digests not compared again.      *)
ArchivesHold ==
    /\ disk.raw_artifacts # NONE /\ disk.dist # NONE
    /\ ArchivesMatch(disk.raw_artifacts, disk.dist, entry.transforms)
    /\ RetainedBuilderReport(entry)

PredicateHolds == Unchanged({"predicate"}) /\ RetainedPredicate(entry)

TraceThere == disk.trace # NONE

(* Mutant: the trace of the reports is recounted, not the one reported.    *)
RawTracesHoldForEntry ==
    Unchanged({"raw_trace"}) /\ RetainedTrace(entry.trace, entry.raw_trace)

RawTracesHold == Unchanged({"raw_trace"}) /\ RetainedTrace(observed, entry.raw_trace)

(* The artifact is copied once, each bundle as its turn comes.             *)
BundleHolds(role) ==
    /\ Unchanged({BundleFile(role)} \cup {file \in {"dist"} : role = "provenance"})
    /\ ValidVerifiedStatement(role, entry[BundleFile(role)], entry)

FileHolds == todo # <<>> /\ Unchanged({Head(todo)})

Acceptable ==
    CASE phase = "files" -> FileHolds
      [] phase = "subjects" -> SubjectsHold
      [] phase = "spdx" -> SpdxHolds
      [] phase = "reports" -> ReportsHold
      [] phase = "archives" -> ArchivesHold
      [] phase = "predicate" -> PredicateHolds
      [] phase = "trace" -> TraceThere
      [] phase = "raw_traces" -> RawTracesHold
      [] OTHER -> BundleHolds(phase)

---------------------------------------------------------------------------
VerifierInit ==
    /\ phase = "idle" /\ todo = <<>>
    /\ entry = NONE /\ observed = NONE /\ record = NONE

(* snapshot_bytes of the manifest; a verifier can be started again.        *)
SnapshotManifest ==
    /\ phase \in {"idle", "refused", "done"}
    /\ disk.manifest # NONE
    /\ entry' = disk.manifest
    /\ todo' = StreamOrder
    /\ observed' = NONE /\ record' = NONE
    /\ phase' = "files"

StreamFile ==
    /\ phase = "files" /\ FileHolds
    /\ todo' = Tail(todo)
    /\ phase' = IF Tail(todo) = <<>> THEN "subjects" ELSE "files"
    /\ UNCHANGED <<entry, observed, record>>

Accept(here, holds, next) ==
    /\ phase = here /\ holds
    /\ phase' = next
    /\ UNCHANGED <<todo, entry, observed, record>>

VerifySubjects == Accept("subjects", SubjectsHold, "spdx")
VerifySpdx == Accept("spdx", SpdxHolds, "reports")
VerifyReports == Accept("reports", ReportsHold, "archives")
VerifyArchives == Accept("archives", ArchivesHold, "predicate")
VerifyPredicate == Accept("predicate", PredicateHolds, "trace")

(* The second reading of the trace: the digest it returns is dropped.      *)
ReadTrace ==
    /\ phase = "trace" /\ TraceThere
    /\ observed' = disk.trace
    /\ phase' = "raw_traces"
    /\ UNCHANGED <<todo, entry, record>>

VerifyRawTraces == Accept("raw_traces", RawTracesHold, "provenance")
VerifyProvenance == Accept("provenance", BundleHolds("provenance"), "sbom")
(* Mutant: the third bundle is forgotten.                                  *)
VerifySbomBundleLast == Accept("sbom", BundleHolds("sbom"), "done")

VerifySbomBundle == Accept("sbom", BundleHolds("sbom"), "build")

(* The last bundle; the record is what the caller gets.                    *)
VerifyBuildBundle ==
    /\ phase = "build" /\ BundleHolds("build")
    /\ record' = [evidence |-> entry, subjects |-> entry.dist,
                  run |-> entry.predicate.run, trace |-> observed]
    /\ phase' = "done"
    /\ UNCHANGED <<todo, entry, observed>>

Verifying == phase \notin {"idle", "done", "refused"}

RefuseEvidence ==
    /\ Verifying /\ ~Acceptable
    /\ phase' = "refused"
    /\ UNCHANGED <<todo, entry, observed, record>>

VerifierStep ==
    \/ SnapshotManifest \/ StreamFile \/ VerifySubjects \/ VerifySpdx
    \/ VerifyReports \/ VerifyArchives \/ VerifyPredicate \/ ReadTrace
    \/ VerifyRawTraces \/ VerifyProvenance \/ VerifySbomBundle
    \/ VerifyBuildBundle \/ RefuseEvidence

(* Whatever the rest of the system does to the directory, only the         *)
(* verifier changes what the verifier holds.                               *)
Verification == VerifierInit /\ [][VerifierStep]_verifierVars

---------------------------------------------------------------------------
(* Everything the verifier claims of the evidence it records, but for the  *)
(* two archives' insides.                                                  *)
Sound(evidence, trace) ==
    /\ evidence.subjects = evidence.dist
    /\ RetainedSpdx(evidence)
    /\ RetainedSource(evidence)
    /\ RetainedHandoffSeal(evidence)
    /\ RetainedTransform(evidence)
    /\ RetainedBuilderReport(evidence)
    /\ RetainedPredicate(evidence)
    /\ RetainedTrace(trace, evidence.raw_trace)
    /\ \A role \in {"provenance", "sbom", "build"} :
          ValidVerifiedStatement(role, evidence[BundleFile(role)], evidence)

(* What is recorded is sound, whatever was done to the directory between   *)
(* any two readings of it: no check is made of one manifest, one file or   *)
(* one trace and then reported of another.                                 *)
RecordIsSound ==
    record # NONE =>
        /\ Sound(record.evidence, record.trace)
        /\ record.subjects = record.evidence.dist
        /\ record.run = record.evidence.build_bundle.certificate
==============================================================================
