------------------------ MODULE ReleaseVerification ------------------------
(***************************************************************************)
(* What the generated release workflow signs (release_render.py) and what  *)
(* verify_release_attestations (release_verification.py) demands of the    *)
(* retained bundles: operators over an evidence manifest, without state.   *)
(*                                                                         *)
(* A digest stands for the content it is taken of.  A project is           *)
(*   [lineage, target, overlay, tag]                                       *)
(* where lineage is the upstream repository and commit; an artifact or a   *)
(* subject is [name, digest]; an SBOM [spdx23, files] with files that the  *)
(* document describes or not; a bundle [role, signed, logged, type,        *)
(* subjects, certificate, predicate], role being what its file name says.  *)
(***************************************************************************)
EXTENDS Naturals, Sequences, FiniteSets
LOCAL INSTANCE SequencesExt

CONSTANTS
  TrustedPolicy,  \* the policy whose digest is part of the code
  Gh              \* digest of the gh program that is installed

Role == {"provenance", "sbom", "policy"}

\* The predicate types, the signer's workflow and its issuer.
ApprovedTypes ==
  [provenance |-> "slsa-provenance", sbom |-> "spdx-2.3", policy |-> "assured"]
Workflow == "assured-downstream-attested-release"
Issuer == "github-actions"

-----------------------------------------------------------------------------
(* The workflow of a release.                                               *)

\* certificate_identity: the workflow of the target repository at the tag.
Identity(p) == [repository |-> p.target, workflow |-> Workflow, ref |-> p.tag]

\* What Fulcio writes into the certificate of a job of that workflow.
CertificateOf(p) ==
  [identity |-> Identity(p), commit |-> p.overlay, issuer |-> Issuer,
   runner |-> "github-hosted"]

\* The custom predicate; the workflow writes it, the verifier expects it.
PolicyPredicate(p) == [project |-> p, workflow |-> Identity(p)]

ProvenanceOf(p) ==
  [workflow |-> Identity(p), builder |-> Identity(p),
   resolved |-> {[repository |-> p.target, ref |-> p.tag, commit |-> p.overlay]}]

\* sbom_subject_binding_script: the document describes every artifact.
BoundSbom(artifacts) ==
  [spdx23 |-> TRUE,
   files |-> {[described |-> TRUE, name |-> a.name, digest |-> a.digest] :
                a \in ToSet(artifacts)}]

\* The three attest steps: one bundle each, over subject-path.
SignedBundle(p, artifacts, role) ==
  [role |-> role, signed |-> TRUE, logged |-> TRUE, type |-> ApprovedTypes[role],
   subjects |-> artifacts, certificate |-> CertificateOf(p),
   predicate |-> CASE role = "provenance" -> ProvenanceOf(p)
                   [] role = "sbom" -> BoundSbom(artifacts)
                   [] role = "policy" -> PolicyPredicate(p)]

SignedBundles(p, artifacts) ==
  << SignedBundle(p, artifacts, "policy"), SignedBundle(p, artifacts, "provenance"),
     SignedBundle(p, artifacts, "sbom") >>

\* evidence_assembly_script: the manifest that the workflow uploads.
WorkflowManifest(p, artifacts) ==
  [project |-> p, artifacts |-> artifacts, sboms |-> <<BoundSbom(artifacts)>>,
   bundles |-> SignedBundles(p, artifacts)]

-----------------------------------------------------------------------------
(* The verifier.                                                            *)

\* The policy is the one that the code names by digest, and is still checked.
ValidPolicy(policy) ==
  /\ policy = TrustedPolicy
  /\ policy.active /\ policy.hostedOnly
  /\ policy.workflow = Workflow /\ policy.issuer = Issuer
  /\ policy.types = ApprovedTypes

ValidProject(p, policy) == p.target \in policy.targets /\ p.tag \in policy.tags

\* Exactly three bundles, each with a role of its own.
IdentifiedBundles(bundles) ==
  /\ Len(bundles) = 3
  /\ {b.role : b \in ToSet(bundles)} = Role

BundleFor(bundles, role) == CHOOSE b \in ToSet(bundles) : b.role = role

\* A list of subjects without repetition.
Distinct(subjects) == Cardinality(ToSet(subjects)) = Len(subjects)

\* The names and digests that the SPDX document describes.
ReferencedSubjects(sbom) ==
  {[name |-> f.name, digest |-> f.digest] : f \in {g \in sbom.files : g.described}}

ValidSpdxSubjectBinding(sbom, expected) == expected \subseteq ReferencedSubjects(sbom)

\* gh attestation verify --bundle, with the pinned root and identity.
GhVerifies(b, artifact, type, p) ==
  /\ b.signed /\ b.type = type /\ b.certificate = CertificateOf(p)
  /\ \E s \in ToSet(b.subjects) : s.digest = artifact.digest

\* Mutant: the artifact that gh was asked about is among the subjects.
StatementSubjectsInclude(b, expected) == ToSet(b.subjects) \cap expected # {}

\* The signed statement is about exactly these artifacts, by name and digest.
StatementSubjects(b, expected) ==
  /\ b.subjects # <<>> /\ Distinct(b.subjects)
  /\ ToSet(b.subjects) = expected

ValidProvenance(predicate, p) ==
  /\ predicate.workflow = Identity(p) /\ predicate.builder = Identity(p)
  /\ [repository |-> p.target, ref |-> p.tag, commit |-> p.overlay]
       \in predicate.resolved

\* What gh prints is read again: transparency log, type, subjects, certificate
\* and predicate.
ValidVerificationOutput(b, role, expected, sbom, p) ==
  /\ b.logged
  /\ b.type = ApprovedTypes[role]
  /\ StatementSubjects(b, expected)
  /\ b.certificate = CertificateOf(p)
  /\ CASE role = "provenance" -> ValidProvenance(b.predicate, p)
       [] role = "sbom" -> b.predicate = sbom
       [] role = "policy" -> b.predicate = PolicyPredicate(p)

\* verify_release_attestations, for a manifest whose files are as it says.
Accepts(m, policy) ==
  /\ ValidPolicy(policy) /\ ValidProject(m.project, policy)
  /\ m.artifacts # <<>> /\ Distinct(m.artifacts)
  /\ Len(m.sboms) = 1 /\ m.sboms[1].spdx23
  /\ IdentifiedBundles(m.bundles)
  /\ policy.gh = Gh
  /\ ValidSpdxSubjectBinding(m.sboms[1], ToSet(m.artifacts))
  /\ \A role \in Role :
       LET b == BundleFor(m.bundles, role)
       IN  /\ GhVerifies(b, m.artifacts[1], ApprovedTypes[role], m.project)
           /\ ValidVerificationOutput(b, role, ToSet(m.artifacts), m.sboms[1], m.project)
=============================================================================
