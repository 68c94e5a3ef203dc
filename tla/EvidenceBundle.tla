--------------------------- MODULE EvidenceBundle ---------------------------
(***************************************************************************)
(* The files of an evidence directory, what each holds, and the two sets   *)
(* of validators over them: the handoff's (builder_handoff_v3.py) and the  *)
(* verifier's own (build_verification_v3.py).                              *)
(*                                                                         *)
(* A digest IS what it digests, so a file that records digests of others   *)
(* holds their contents.  `dist', `raw_artifacts' and `raw_trace' stand    *)
(* for a directory each.  Bundle(build, ...) is the directory one build    *)
(* and one workflow run produce when nothing interferes.                   *)
(***************************************************************************)
EXTENDS StraceReduction

CONSTANTS
    Request,       \* the approved request: source identity and epoch
    Payload,       \* a function from artifacts to what they hold
    CanonicalOf,   \* the artifacts in canonical form for Request's epoch
    Checkout,      \* the entries of the host's checkout for Request
    NONE           \* a file that is not there

VARIABLE disk      \* the evidence directory: file -> content or NONE

BuilderWritten == {"dist", "raw_artifacts", "source_inventory", "raw_trace", "trace",
                   "artifact_inventory", "transforms", "builder"}
BundleFiles == {"provenance_bundle", "sbom_bundle", "build_bundle"}

(* What assemble_evidence lists in the manifest.                           *)
Listed == BuilderWritten \cup BundleFiles \cup
              {"trusted", "seal", "syft", "sbom", "spdx_report", "subjects",
               "predicate"}
File == Listed \cup {"manifest", "build_result"}

---------------------------------------------------------------------------
(* What each writer writes.                                                *)

TraceSummary(trace) == [field \in DOMAIN trace \ {"events"} |-> trace[field]]

TransformReport(raw, dist) ==
    [original |-> raw, final |-> dist, payload |-> Payload[raw], epoch |-> Request]

(* An inventory and the digest it claims for its own entries.              *)
Inventory(entries, digest) == [entries |-> entries, tree_sha256 |-> digest]
InventoryTrustedSource == Inventory(Checkout, Checkout)

(* boundary: the identities, arguments and barrier the report declares the *)
(* build was run under; there is one fixed profile.                        *)
BuilderReport(build) ==
    [succeeded |-> build.succeeded, boundary |-> build.boundary,
     source |-> build.source.tree_sha256, request |-> Request,
     transforms |-> TransformReport(build.raw, build.dist),
     trace |-> TraceSummary(ParseStraceDirectory(build.trace))]

TrustedSource(inventory) == [request |-> Request, inventory |-> inventory]

HandoffSeal(trusted, inventory, rawFiles) ==
    [request |-> Request, trusted |-> trusted, tree |-> inventory.tree_sha256,
     raw_files |-> rawFiles]

(* The normalised document is a function of these three.                   *)
NormalizedSpdx(syft, artifacts) ==
    [raw |-> syft, artifacts |-> artifacts, request |-> Request]

SpdxReport(syft, sbom, artifacts) ==
    [raw |-> syft, normalized |-> sbom, artifacts |-> artifacts]

PredicateDigests == {"subjects", "artifact_inventory", "transforms", "builder",
                     "source_inventory", "trusted", "seal", "trace", "syft", "sbom",
                     "spdx_report"}

BuildPredicate(artifacts, digests, run) ==
    [request |-> Request, artifacts |-> artifacts, evidence |-> digests, run |-> run]

(* A signed statement: its subjects, its predicate and the invocation the  *)
(* certificate names.  The service writes the provenance itself.           *)
Provenance(run) == [invocation |-> run]
Attestation(role, subjects, predicate, run) ==
    [role |-> role, subjects |-> subjects, predicate |-> predicate,
     certificate |-> run]

---------------------------------------------------------------------------
(* The handoff's validators, over `read': what was read of each file, in   *)
(* the order it was read; read.trusted[2] is the second reading.           *)

Latest(readings) == readings[Len(readings)]

ArchivesMatch(raw, dist, report) ==
    /\ Payload[raw] = report.payload
    /\ Payload[dist] = report.payload
    /\ dist \in CanonicalOf

ValidBuilderReport(report) == report.succeeded /\ report.request = Request
ValidExecutionBoundary(report) == report.boundary = "fixed"

ValidSourceInventory(inventory) == inventory.tree_sha256 = inventory.entries

ValidTrustedBinding(read) ==
    /\ read.builder[1].source = read.source_inventory[1].tree_sha256
    /\ read.trusted[1] = TrustedSource(read.source_inventory[1])

ValidHandoffSeal(read) ==
    read.seal[1] = HandoffSeal(read.trusted[2], read.source_inventory[2],
                               DOMAIN read.raw_trace[1])

ValidArtifactTransforms(read) ==
    LET report == read.transforms[1]
    IN  /\ read.artifact_inventory[1] = read.dist[1]
        /\ read.builder[1].transforms = read.transforms[2]
        /\ report.original = read.raw_artifacts[1]
        /\ report.final = read.dist[1]
        /\ report.epoch = Request
        /\ ArchivesMatch(read.raw_artifacts[2], read.dist[2], report)

ValidTraces(read) ==
    /\ ValidTrace(read.trace[1])
    /\ ValidRawTraceFiles(read.raw_trace[2], read.trace[1])
    /\ read.builder[1].trace = TraceSummary(read.trace[1])

ValidBuilderOutput(read) ==
    /\ ValidBuilderReport(read.builder[1])
    /\ ValidExecutionBoundary(read.builder[1])
    /\ ValidSourceInventory(read.source_inventory[1])
    /\ ValidTrustedBinding(read)
    /\ ValidHandoffSeal(read)
    /\ ValidArtifactTransforms(read)
    /\ ValidTraces(read)

ValidSpdxBundle(read) ==
    LET syft == Latest(read.syft)
        sbom == Latest(read.sbom)
    IN  /\ sbom = NormalizedSpdx(syft, read.dist[1])
        /\ Latest(read.spdx_report) = SpdxReport(syft, sbom, read.dist[1])

---------------------------------------------------------------------------
(* The verifier's validators, over `entry': the content the manifest's     *)
(* digests stand for, file by file.                                        *)

RetainedSource(entry) ==
    /\ ValidSourceInventory(entry.source_inventory)
    /\ entry.trusted = TrustedSource(entry.source_inventory)

RetainedHandoffSeal(entry) ==
    entry.seal = HandoffSeal(entry.trusted, entry.source_inventory,
                             DOMAIN entry.raw_trace)

RetainedTransform(entry) ==
    /\ entry.artifact_inventory = entry.dist
    /\ entry.transforms.original = entry.raw_artifacts
    /\ entry.transforms.final = entry.dist
    /\ entry.transforms.epoch = Request

RawIdentityBoundary(report) == report.boundary = "fixed"

RetainedBuilderReport(entry) ==
    /\ entry.builder.succeeded
    /\ entry.builder.request = Request
    /\ RawIdentityBoundary(entry.builder)
    /\ entry.builder.source = entry.source_inventory.tree_sha256
    /\ entry.builder.transforms = entry.transforms
    /\ entry.builder.trace = TraceSummary(entry.trace)

RetainedSpdx(entry) ==
    /\ entry.sbom = NormalizedSpdx(entry.syft, entry.dist)
    /\ entry.spdx_report = SpdxReport(entry.syft, entry.sbom, entry.dist)

(* Mutant: the digests in the predicate are not compared.                  *)
RetainedPredicateUnbound(entry) ==
    /\ entry.predicate.request = Request
    /\ entry.predicate.artifacts = entry.dist
    /\ entry.predicate.run.attempt = 1

(* The policy approves one attempt of a run, the first.                    *)
RetainedPredicate(entry) ==
    /\ entry.predicate = BuildPredicate(entry.dist,
                             [file \in PredicateDigests |-> entry[file]],
                             entry.predicate.run)
    /\ entry.predicate.run.attempt = 1

RetainedTrace(trace, raw) ==
    ~RawTraceRefused(raw) /\ ValidCompleteTrace(trace, VerifyRawTraceRecords(raw))

BundleFile(role) ==
    CASE role = "provenance" -> "provenance_bundle"
      [] role = "sbom" -> "sbom_bundle"
      [] role = "build" -> "build_bundle"

(* Mutant: the invocation in the certificate is not compared.              *)
ValidCertificateOfAnyRun(bundle, entry) == bundle.certificate.attempt = 1

(* Mutant: the provenance is expected to carry the build predicate.        *)
ValidProvenanceOfPredicate(bundle, entry) == bundle.predicate = entry.predicate

(* Each check is of a bundle against the entry, given the role it has.     *)
ValidCertificate(bundle, entry) == bundle.certificate = entry.predicate.run

ValidProvenance(bundle, entry) == bundle.predicate.invocation = entry.predicate.run

ValidVerifiedStatement(role, bundle, entry) ==
    /\ bundle.role = role
    /\ bundle.subjects = entry.dist
    /\ ValidCertificate(bundle, entry)
    /\ CASE role = "provenance" -> ValidProvenance(bundle, entry)
         [] role = "sbom" -> bundle.predicate = entry.sbom
         [] role = "build" -> bundle.predicate = entry.predicate

---------------------------------------------------------------------------
(* The directory of one build, scanned once, in one workflow run.          *)

BuilderDirectory(build) ==
    [dist |-> build.dist, raw_artifacts |-> build.raw,
     source_inventory |-> build.source, raw_trace |-> build.trace,
     trace |-> ParseStraceDirectory(build.trace),
     artifact_inventory |-> build.dist,
     transforms |-> TransformReport(build.raw, build.dist),
     builder |-> BuilderReport(build)]

Bundle(build, syft, run) ==
    LET made == BuilderDirectory(build)
        trusted == TrustedSource(build.source)
        sbom == NormalizedSpdx(syft, build.dist)
        later ==
            [trusted |-> trusted,
             seal |-> HandoffSeal(trusted, build.source, DOMAIN build.trace),
             syft |-> syft, sbom |-> sbom,
             spdx_report |-> SpdxReport(syft, sbom, build.dist),
             subjects |-> build.dist]
        entry == [file \in BuilderWritten \cup DOMAIN later |->
                     IF file \in BuilderWritten THEN made[file] ELSE later[file]]
        predicate == BuildPredicate(build.dist,
                         [file \in PredicateDigests |-> entry[file]], run)
        attested ==
            [predicate |-> predicate,
             provenance_bundle |->
                 Attestation("provenance", build.dist, Provenance(run), run),
             sbom_bundle |-> Attestation("sbom", build.dist, sbom, run),
             build_bundle |-> Attestation("build", build.dist, predicate, run)]
    IN  [file \in Listed |->
            IF file \in DOMAIN entry THEN entry[file] ELSE attested[file]]
==============================================================================
