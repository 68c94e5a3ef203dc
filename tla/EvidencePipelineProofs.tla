----------------------- MODULE EvidencePipelineProofs -----------------------
(***************************************************************************)
(* What the verifier records is sound, for any contents of the files, any  *)
(* request and whatever is done to the directory while it is being read.   *)
(* The validators stay opaque: the argument is about which reading of      *)
(* which file each of them was given.  And every attestation it accepts    *)
(* for a workflow run was signed by that run: the second part follows the  *)
(* attestations through the workflow, step by step.  Then evidence of      *)
(* other runs is shown to be one run's or not verified, and the three      *)
(* reductions of a raw trace to agree.  The last part follows what an      *)
(* undisturbed attempt has read and written through the whole workflow,    *)
(* to show that it accepts the honest builds and no others.                *)
(***************************************************************************)
EXTENDS EvidencePipeline, SequenceTheorems, FiniteSetTheorems, FunctionTheorems, TLAPS

(* The phases that follow the one named, without another manifest.         *)
PastSbom == {"build"}
PastProvenance == PastSbom \cup {"sbom"}
PastRawTraces == PastProvenance \cup {"provenance"}
PastPredicate == PastRawTraces \cup {"trace", "raw_traces"}
PastArchives == PastPredicate \cup {"predicate"}
PastReports == PastArchives \cup {"archives"}
PastSpdx == PastReports \cup {"reports"}
PastSubjects == PastSpdx \cup {"spdx"}

(* What each phase checks, of the one snapshot of the manifest and of the  *)
(* one second reading of the trace.                                        *)
SubjectsFact == entry.subjects = entry.dist
SpdxFact == RetainedSpdx(entry)
ReportsFact ==
    RetainedSource(entry) /\ RetainedHandoffSeal(entry) /\ RetainedTransform(entry)
ArchivesFact == RetainedBuilderReport(entry)
PredicateFact == RetainedPredicate(entry)
TracesFact == RetainedTrace(observed, entry.raw_trace)
BundleFact(role) == ValidVerifiedStatement(role, entry[BundleFile(role)], entry)

Inv ==
    /\ phase \in PastSubjects => SubjectsFact
    /\ phase \in PastSpdx => SpdxFact
    /\ phase \in PastReports => ReportsFact
    /\ phase \in PastArchives => ArchivesFact
    /\ phase \in PastPredicate => PredicateFact
    /\ phase \in PastRawTraces => TracesFact
    /\ phase \in PastProvenance => BundleFact("provenance")
    /\ phase \in PastSbom => BundleFact("sbom")
    /\ RecordIsSound

(* A fact of the snapshot outlives a step that leaves the snapshot alone.  *)
LEMMA FactsOfEntry ==
    ASSUME UNCHANGED entry
    PROVE  /\ SubjectsFact => SubjectsFact'
           /\ SpdxFact => SpdxFact'
           /\ ReportsFact => ReportsFact'
           /\ ArchivesFact => ArchivesFact'
           /\ PredicateFact => PredicateFact'
           /\ BundleFact("provenance") => BundleFact("provenance")'
           /\ BundleFact("sbom") => BundleFact("sbom")'
<1>1. SubjectsFact => SubjectsFact'
  BY DEF SubjectsFact
<1>2. SpdxFact => SpdxFact'
  BY DEF SpdxFact
<1>3. ReportsFact => ReportsFact'
  BY DEF ReportsFact
<1>4. ArchivesFact => ArchivesFact'
  BY DEF ArchivesFact
<1>5. PredicateFact => PredicateFact'
  BY DEF PredicateFact
<1>6. BundleFact("provenance") => BundleFact("provenance")'
  BY DEF BundleFact
<1>7. BundleFact("sbom") => BundleFact("sbom")'
  BY DEF BundleFact
<1> QED
  BY <1>1, <1>2, <1>3, <1>4, <1>5, <1>6, <1>7

LEMMA TracesKept ==
    ASSUME UNCHANGED <<entry, observed>>
    PROVE  TracesFact => TracesFact'
BY DEF TracesFact

LEMMA RecordKept ==
    ASSUME UNCHANGED record, RecordIsSound
    PROVE  RecordIsSound'
BY DEF RecordIsSound

(* A step that leaves the snapshot, the trace and the record alone and     *)
(* moves on to a phase whose facts hold.                                   *)
LEMMA PhaseStep ==
    ASSUME Inv, UNCHANGED <<entry, observed, record>>,
           phase' \in PastSubjects => SubjectsFact,
           phase' \in PastSpdx => SpdxFact,
           phase' \in PastReports => ReportsFact,
           phase' \in PastArchives => ArchivesFact,
           phase' \in PastPredicate => PredicateFact,
           phase' \in PastRawTraces => TracesFact,
           phase' \in PastProvenance => BundleFact("provenance"),
           phase' \in PastSbom => BundleFact("sbom")
    PROVE  Inv'
<1>1. RecordIsSound'
  BY RecordKept DEF Inv
<1>2. UNCHANGED entry /\ UNCHANGED <<entry, observed>>
  OBVIOUS
<1>3. /\ PastSubjects' = PastSubjects /\ PastSpdx' = PastSpdx
      /\ PastReports' = PastReports /\ PastArchives' = PastArchives
      /\ PastPredicate' = PastPredicate /\ PastRawTraces' = PastRawTraces
      /\ PastProvenance' = PastProvenance /\ PastSbom' = PastSbom
  BY DEF PastSubjects, PastSpdx, PastReports, PastArchives, PastPredicate,
         PastRawTraces, PastProvenance, PastSbom
<1> QED
  BY <1>1, <1>2, <1>3, FactsOfEntry, TracesKept DEF Inv

(* A phase that passed its check, of the reading that was checked.         *)
LEMMA AcceptStep ==
    ASSUME Inv,
           \/ VerifySubjects \/ VerifySpdx \/ VerifyReports \/ VerifyArchives
           \/ VerifyPredicate \/ VerifyRawTraces \/ VerifyProvenance \/ VerifySbomBundle
    PROVE  Inv'
<1> USE DEF PastSubjects, PastSpdx, PastReports, PastArchives, PastPredicate,
            PastRawTraces, PastProvenance, PastSbom, Accept
<1>1. CASE VerifySubjects
  <2>1. SubjectsFact
    BY <1>1 DEF VerifySubjects, SubjectsHold, SubjectsFact
  <2> QED
    BY <1>1, <2>1, PhaseStep DEF VerifySubjects
<1>2. CASE VerifySpdx
  <2>1. SubjectsFact /\ SpdxFact
    BY <1>2 DEF VerifySpdx, SpdxHolds, SpdxFact, Inv
  <2> QED
    BY <1>2, <2>1, PhaseStep DEF VerifySpdx
<1>3. CASE VerifyReports
  <2>1. SubjectsFact /\ SpdxFact /\ ReportsFact
    BY <1>3 DEF VerifyReports, ReportsHold, ReportsFact, Inv
  <2> QED
    BY <1>3, <2>1, PhaseStep DEF VerifyReports
<1>4. CASE VerifyArchives
  <2>1. SubjectsFact /\ SpdxFact /\ ReportsFact /\ ArchivesFact
    BY <1>4 DEF VerifyArchives, ArchivesHold, ArchivesFact, Inv
  <2> QED
    BY <1>4, <2>1, PhaseStep DEF VerifyArchives
<1>5. CASE VerifyPredicate
  <2>1. SubjectsFact /\ SpdxFact /\ ReportsFact /\ ArchivesFact /\ PredicateFact
    BY <1>5 DEF VerifyPredicate, PredicateHolds, PredicateFact, Inv
  <2> QED
    BY <1>5, <2>1, PhaseStep DEF VerifyPredicate
<1>6. CASE VerifyRawTraces
  <2>1. /\ SubjectsFact /\ SpdxFact /\ ReportsFact /\ ArchivesFact /\ PredicateFact
        /\ TracesFact
    BY <1>6 DEF VerifyRawTraces, RawTracesHold, TracesFact, Inv
  <2> QED
    BY <1>6, <2>1, PhaseStep DEF VerifyRawTraces
<1>7. CASE VerifyProvenance
  <2>1. /\ SubjectsFact /\ SpdxFact /\ ReportsFact /\ ArchivesFact /\ PredicateFact
        /\ TracesFact /\ BundleFact("provenance")
    BY <1>7 DEF VerifyProvenance, BundleHolds, BundleFact, Inv
  <2> QED
    BY <1>7, <2>1, PhaseStep DEF VerifyProvenance
<1>8. CASE VerifySbomBundle
  <2>1. /\ SubjectsFact /\ SpdxFact /\ ReportsFact /\ ArchivesFact /\ PredicateFact
        /\ TracesFact /\ BundleFact("provenance") /\ BundleFact("sbom")
    BY <1>8 DEF VerifySbomBundle, BundleHolds, BundleFact, Inv
  <2> QED
    BY <1>8, <2>1, PhaseStep DEF VerifySbomBundle
<1> QED
  BY <1>1, <1>2, <1>3, <1>4, <1>5, <1>6, <1>7, <1>8

(* The second reading of the trace comes before its check.                 *)
LEMMA TraceStep ==
    ASSUME Inv, ReadTrace
    PROVE  Inv'
<1>1. /\ SubjectsFact /\ SpdxFact /\ ReportsFact /\ ArchivesFact /\ PredicateFact
  BY DEF ReadTrace, Inv, PastSubjects, PastSpdx, PastReports, PastArchives,
         PastPredicate
<1>2. UNCHANGED entry
  BY DEF ReadTrace
<1>3. RecordIsSound'
  BY RecordKept DEF Inv, ReadTrace
<1>4. phase' = "raw_traces"
  BY DEF ReadTrace
<1> QED
  BY <1>1, <1>2, <1>3, <1>4, FactsOfEntry
  DEF Inv, PastRawTraces, PastProvenance, PastSbom

(* The record is written from what all phases left behind.                 *)
LEMMA BuildStep ==
    ASSUME Inv, VerifyBuildBundle
    PROVE  Inv'
<1>1. /\ SubjectsFact /\ SpdxFact /\ ReportsFact /\ ArchivesFact /\ PredicateFact
      /\ TracesFact /\ BundleFact("provenance") /\ BundleFact("sbom")
  BY DEF VerifyBuildBundle, Inv, PastSubjects, PastSpdx, PastReports,
         PastArchives, PastPredicate, PastRawTraces, PastProvenance, PastSbom
<1>2. BundleFact("build")
  BY DEF VerifyBuildBundle, BundleHolds, BundleFact
<1>3. Sound(entry, observed)
  <2>1. \A role \in {"provenance", "sbom", "build"} :
            ValidVerifiedStatement(role, entry[BundleFile(role)], entry)
    BY <1>1, <1>2 DEF BundleFact
  <2> QED
    BY <1>1, <2>1 DEF Sound, SubjectsFact, SpdxFact, ReportsFact, ArchivesFact,
                      PredicateFact, TracesFact
<1>4. entry.predicate.run = entry.build_bundle.certificate
  BY <1>2 DEF BundleFact, ValidVerifiedStatement, ValidCertificate, BundleFile
<1>5. /\ record'.evidence = entry /\ record'.trace = observed
      /\ record'.subjects = entry.dist /\ record'.run = entry.predicate.run
  BY DEF VerifyBuildBundle
<1>6. RecordIsSound'
  BY <1>3, <1>4, <1>5 DEF RecordIsSound
<1>7. phase' = "done"
  BY DEF VerifyBuildBundle
<1> QED
  BY <1>6, <1>7 DEF Inv, PastSubjects, PastSpdx, PastReports, PastArchives,
                    PastPredicate, PastRawTraces, PastProvenance, PastSbom

(* The steps that no phase is past.                                        *)
LEMMA OtherStep ==
    ASSUME Inv, SnapshotManifest \/ StreamFile \/ RefuseEvidence
    PROVE  Inv'
<1> USE DEF PastSubjects, PastSpdx, PastReports, PastArchives, PastPredicate,
            PastRawTraces, PastProvenance, PastSbom
<1>1. RecordIsSound'
  <2>1. CASE SnapshotManifest
    BY <2>1 DEF SnapshotManifest, RecordIsSound
  <2>2. CASE StreamFile \/ RefuseEvidence
    BY <2>2, RecordKept DEF StreamFile, RefuseEvidence, Inv
  <2> QED
    BY <2>1, <2>2
<1>2. phase' \in {"files", "subjects", "refused"}
  BY DEF SnapshotManifest, StreamFile, RefuseEvidence
<1> QED
  BY <1>1, <1>2 DEF Inv

(* The verifier alone, over a directory that changes in any way.           *)
LEMMA VerifierIsSound == Verification => []RecordIsSound
<1>1. VerifierInit => Inv
  BY DEF VerifierInit, Inv, RecordIsSound, PastSubjects, PastSpdx, PastReports,
         PastArchives, PastPredicate, PastRawTraces, PastProvenance, PastSbom
<1>2. Inv /\ [VerifierStep]_verifierVars => Inv'
  <2> SUFFICES ASSUME Inv, [VerifierStep]_verifierVars
               PROVE  Inv'
    OBVIOUS
  <2>1. CASE VerifierStep
    BY <2>1, AcceptStep, TraceStep, BuildStep, OtherStep DEF VerifierStep
  <2>2. CASE UNCHANGED verifierVars
    <3>1. UNCHANGED <<phase, entry, observed, record>>
      BY <2>2 DEF verifierVars
    <3> QED
      BY <3>1, PhaseStep DEF Inv
  <2> QED
    BY <2>1, <2>2
<1>3. Inv => RecordIsSound
  BY DEF Inv
<1> QED
  BY <1>1, <1>2, <1>3, PTL DEF Verification

(* What the verifier records passed every check as one piece: for any      *)
(* build, any scan and any interference with the directory, also between   *)
(* two readings of one file, no check is made of one manifest, file or     *)
(* trace and reported of another.                                          *)
THEOREM RecordsAreSound == Spec => []RecordIsSound
<1>1. Init => VerifierInit
  BY DEF Init
<1>2. [Next]_vars => [VerifierStep]_verifierVars
  BY DEF Next, Produce, Disturb, Verify, vars
<1> QED
  BY <1>1, <1>2, VerifierIsSound, PTL DEF Spec, Verification
---------------------------------------------------------------------------

(* The steps of the workflow, by what they may be of.                      *)
Roles == {"provenance", "sbom", "build"}
MadeFiles == {"trusted", "seal", "sbom", "spdx_report", "subjects", "predicate",
              "build_result"}
Names == {"command", "job", "output", "spdx", "bundles", "unsealed", "sealable",
          "subjects", "current_subjects", "manifest", "syft"}
WriteManifest == [op |-> "write", of |-> "manifest"]
ReadOf(file) == [op |-> "read", of |-> file]
Plain ==
    [op : {"read"}, of : File] \cup [op : {"create", "write"}, of : MadeFiles]
    \cup [op : {"attest"}, of : Roles]
    \cup [op : {"begin", "check", "build", "scan", "upload", "download"}, of : Names]
    \cup [op : {"finish"}, of : {"job"}]
Typed == Plain \cup {WriteManifest}

(* The steps after which a command has read nothing yet.                   *)
Clearing == {"begin", "build", "download", "finish"}

(* Where these steps write the manifest, the same command has read every   *)
(* attestation before.                                                     *)
ManifestIsRead(steps) ==
    /\ steps \in Seq(Typed)
    /\ \A p \in 1..Len(steps) : steps[p] = WriteManifest =>
          \A file \in BundleFiles : \E q \in 1..(p - 1) :
             /\ steps[q] = ReadOf(file)
             /\ \A k \in q..p : steps[k].op \notin Clearing

(* Steps none of which writes the manifest.                                *)
LEMMA PlainReads ==
    ASSUME NEW steps \in Seq(Plain)
    PROVE  ManifestIsRead(steps)
<1>1. steps \in Seq(Typed)
  BY DEF Typed
<1>2. \A p \in 1..Len(steps) : steps[p] # WriteManifest
  <2>1. ASSUME NEW p \in 1..Len(steps) PROVE steps[p] \in Plain
    OBVIOUS
  <2>2. WriteManifest \notin Plain
    BY DEF WriteManifest, Plain, MadeFiles
  <2> QED
    BY <2>1, <2>2
<1> QED
  BY <1>1, <1>2 DEF ManifestIsRead

(* The workflow is a concatenation, and what holds of its parts is kept.   *)
LEMMA Sequenced ==
    ASSUME NEW s, NEW t, ManifestIsRead(s), ManifestIsRead(t)
    PROVE  ManifestIsRead(s \o t)
<1>1. /\ s \in Seq(Typed) /\ t \in Seq(Typed)
      /\ s \o t \in Seq(Typed) /\ Len(s \o t) = Len(s) + Len(t)
      /\ Len(s) \in Nat /\ Len(t) \in Nat
  BY DEF ManifestIsRead
<1>2. ASSUME NEW i \in 1..Len(s) PROVE (s \o t)[i] = s[i]
  BY <1>1
<1>3. ASSUME NEW i \in 1..Len(t) PROVE (s \o t)[Len(s) + i] = t[i]
  BY <1>1
<1>4. SUFFICES ASSUME NEW p \in 1..Len(s \o t), (s \o t)[p] = WriteManifest,
                      NEW file \in BundleFiles
               PROVE  \E q \in 1..(p - 1) :
                         /\ (s \o t)[q] = ReadOf(file)
                         /\ \A k \in q..p : (s \o t)[k].op \notin Clearing
  BY <1>1 DEF ManifestIsRead
<1>5. CASE p \in 1..Len(s)
  <2>1. PICK q \in 1..(p - 1) : /\ s[q] = ReadOf(file)
                                /\ \A k \in q..p : s[k].op \notin Clearing
    BY <1>2, <1>4, <1>5 DEF ManifestIsRead
  <2>2. (s \o t)[q] = ReadOf(file)
    BY <1>1, <1>2, <1>5, <2>1
  <2>3. ASSUME NEW k \in q..p PROVE (s \o t)[k].op \notin Clearing
    <3>1. k \in 1..Len(s)
      BY <1>1, <1>5
    <3> QED
      BY <1>2, <2>1, <3>1
  <2> QED
    BY <2>2, <2>3
<1>6. CASE p \notin 1..Len(s)
  <2> DEFINE r == p - Len(s)
  <2>1. r \in 1..Len(t) /\ p = Len(s) + r
    BY <1>1, <1>6
  <2> HIDE DEF r
  <2>2. PICK q \in 1..(r - 1) : /\ t[q] = ReadOf(file)
                                /\ \A k \in q..r : t[k].op \notin Clearing
    BY <1>3, <1>4, <2>1 DEF ManifestIsRead
  <2>3. (s \o t)[Len(s) + q] = ReadOf(file)
    BY <1>1, <1>3, <2>1, <2>2
  <2>4. ASSUME NEW k \in (Len(s) + q)..p PROVE (s \o t)[k].op \notin Clearing
    <3>1. k - Len(s) \in q..r /\ k - Len(s) \in 1..Len(t) /\ k = Len(s) + (k - Len(s))
      BY <1>1, <2>1
    <3>2. (s \o t)[k] = t[k - Len(s)]
      BY <1>3, <3>1
    <3> QED
      BY <2>2, <3>1, <3>2
  <2>5. Len(s) + q \in 1..(p - 1)
    BY <1>1, <2>1
  <2> QED
    BY <2>3, <2>4, <2>5
<1> QED
  BY <1>5, <1>6

(* The single steps and the sequences of readings.                         *)
LEMMA StepsArePlain ==
    /\ \A op \in {"begin", "check", "build", "scan", "upload", "download"}, of \in Names :
          ManifestIsRead(Step(op, of))
    /\ \A op \in {"create", "write"}, file \in MadeFiles : ManifestIsRead(Step(op, file))
    /\ \A role \in Roles : ManifestIsRead(Step("attest", role))
    /\ ManifestIsRead(Step("finish", "job"))
    /\ \A files \in Seq(File) : ManifestIsRead(Reads(files))
<1>1. ASSUME NEW op \in {"begin", "check", "build", "scan", "upload", "download"},
             NEW of \in Names
      PROVE  ManifestIsRead(Step(op, of))
  <2>1. [op |-> op, of |-> of] \in Plain
    BY DEF Plain
  <2>2. Step(op, of) \in Seq(Plain)
    BY <2>1 DEF Step
  <2> QED
    BY <2>2, PlainReads
<1>2. ASSUME NEW op \in {"create", "write"}, NEW file \in MadeFiles
      PROVE  ManifestIsRead(Step(op, file))
  <2>1. [op |-> op, of |-> file] \in Plain
    BY DEF Plain
  <2>2. Step(op, file) \in Seq(Plain)
    BY <2>1 DEF Step
  <2> QED
    BY <2>2, PlainReads
<1>3. ASSUME NEW role \in Roles
      PROVE  ManifestIsRead(Step("attest", role))
  <2>1. [op |-> "attest", of |-> role] \in Plain
    BY DEF Plain
  <2>2. Step("attest", role) \in Seq(Plain)
    BY <2>1 DEF Step
  <2> QED
    BY <2>2, PlainReads
<1>4. ManifestIsRead(Step("finish", "job"))
  <2>1. [op |-> "finish", of |-> "job"] \in Plain
    BY DEF Plain
  <2>2. Step("finish", "job") \in Seq(Plain)
    BY <2>1 DEF Step
  <2> QED
    BY <2>2, PlainReads
<1>5. ASSUME NEW files \in Seq(File)
      PROVE  ManifestIsRead(Reads(files))
  <2>1. ASSUME NEW i \in 1..Len(files) PROVE [op |-> "read", of |-> files[i]] \in Plain
    BY DEF Plain
  <2>2. Reads(files) \in Seq(Plain)
    BY <2>1 DEF Reads
  <2> QED
    BY <2>2, PlainReads
<1> QED
  BY <1>1, <1>2, <1>3, <1>4, <1>5

(* The validations that the commands share.                                *)
LEMMA ValidationsArePlain ==
    ManifestIsRead(Validate) /\ ManifestIsRead(ValidateSbom) /\ ManifestIsRead(ValidateAttested)
<1>1. ValidationReads \in Seq(File) /\ SpdxReads \in Seq(File)
  BY DEF ValidationReads, SpdxReads, File, Listed, BuilderWritten, BundleFiles
<1>2. ManifestIsRead(Reads(ValidationReads)) /\ ManifestIsRead(Reads(SpdxReads))
  BY <1>1, StepsArePlain
<1>3. /\ ManifestIsRead(Step("check", "output"))
      /\ ManifestIsRead(Step("check", "spdx"))
      /\ ManifestIsRead(Step("check", "bundles"))
  BY StepsArePlain DEF Names
<1>4. ManifestIsRead(Validate)
  BY <1>2, <1>3, Sequenced DEF Validate
<1>5. ManifestIsRead(Validate \o Reads(SpdxReads))
  BY <1>2, <1>3, <1>4, Sequenced
<1>6. ManifestIsRead(ValidateSbom)
  BY <1>2, <1>3, <1>5, Sequenced DEF ValidateSbom
<1>7. ManifestIsRead(ValidateAttested)
  BY <1>2, <1>3, <1>6, Sequenced DEF ValidateAttested
<1> QED
  BY <1>4, <1>6, <1>7

(* The commands, one after another.                                        *)
LEMMA CommandRead ==
    ASSUME NEW steps, ManifestIsRead(steps)
    PROVE  ManifestIsRead(Command(steps))
<1>1. ManifestIsRead(Step("begin", "command"))
  BY StepsArePlain DEF Names
<1> QED
  BY <1>1, Sequenced DEF Command

LEMMA SealRead == ManifestIsRead(Seal)
<1>1. /\ <<"raw_trace", "source_inventory", "builder">> \in Seq(File)
      /\ <<"trusted">> \in Seq(File)
  BY DEF File, Listed, BuilderWritten
<1>2. /\ ManifestIsRead(Step("check", "unsealed"))
      /\ ManifestIsRead(Step("check", "sealable"))
      /\ ManifestIsRead(Step("create", "trusted"))
      /\ ManifestIsRead(Step("create", "seal"))
  BY StepsArePlain DEF Names, MadeFiles
<1>3. /\ ManifestIsRead(Reads(<<"raw_trace", "source_inventory", "builder">>))
      /\ ManifestIsRead(Reads(<<"trusted">>))
  BY <1>1, StepsArePlain
<1>4. ManifestIsRead(Step("check", "unsealed") \o Reads(<<"raw_trace", "source_inventory", "builder">>)
            \o Step("check", "sealable") \o Step("create", "trusted")
            \o Reads(<<"trusted">>) \o Step("create", "seal"))
  BY <1>2, <1>3, Sequenced
<1>5. ManifestIsRead(Command(Validate))
  BY ValidationsArePlain, CommandRead
<1> QED
  BY <1>4, <1>5, CommandRead, Sequenced DEF Seal

LEMMA InspectionRead ==
    ManifestIsRead(Normalize) /\ ManifestIsRead(SubjectChecksums) /\ ManifestIsRead(Predicate)
<1> DEFINE Reported == <<"spdx_report", "artifact_inventory", "transforms", "builder",
                         "source_inventory", "trusted", "seal", "trace">>
<1>1. /\ <<"dist", "syft">> \in Seq(File) /\ SpdxReads \in Seq(File)
      /\ <<"subjects">> \in Seq(File) /\ Reported \in Seq(File)
  BY DEF SpdxReads, File, Listed, BuilderWritten
<1>2. /\ ManifestIsRead(Reads(<<"dist", "syft">>)) /\ ManifestIsRead(Reads(SpdxReads))
      /\ ManifestIsRead(Reads(<<"subjects">>)) /\ ManifestIsRead(Reads(Reported))
  BY <1>1, StepsArePlain
<1>3. /\ ManifestIsRead(Step("create", "sbom")) /\ ManifestIsRead(Step("write", "spdx_report"))
      /\ ManifestIsRead(Step("create", "subjects")) /\ ManifestIsRead(Step("write", "predicate"))
  BY StepsArePlain DEF MadeFiles
<1>4. ManifestIsRead(Step("check", "spdx")) /\ ManifestIsRead(Step("check", "subjects"))
  BY StepsArePlain DEF Names
<1>5. ManifestIsRead(Normalize)
  <2>1. ManifestIsRead(Reads(<<"dist", "syft">>) \o Step("create", "sbom")
            \o Step("write", "spdx_report") \o Reads(SpdxReads) \o Step("check", "spdx"))
    BY <1>2, <1>3, <1>4, Sequenced
  <2> QED
    BY <2>1, CommandRead DEF Normalize
<1>6. ManifestIsRead(SubjectChecksums)
  <2>1. ManifestIsRead(ValidateSbom \o Step("create", "subjects"))
    BY <1>3, ValidationsArePlain, Sequenced
  <2> QED
    BY <2>1, CommandRead DEF SubjectChecksums
<1>7. ManifestIsRead(Predicate)
  <2>1. ManifestIsRead(ValidateSbom \o Reads(<<"subjects">>) \o Step("check", "subjects")
            \o Reads(SpdxReads) \o Step("check", "spdx")
            \o Reads(Reported) \o Step("write", "predicate"))
    BY <1>2, <1>3, <1>4, ValidationsArePlain, Sequenced
  <2> QED
    BY <2>1, CommandRead DEF Predicate
<1> QED
  BY <1>5, <1>6, <1>7

(* The one place where the manifest is written: what it lists was just     *)
(* read, and nothing between forgets it.                                   *)
LEMMA ReadJustBefore ==
    ASSUME NEW steps, NEW reads, ManifestIsRead(steps), ManifestIsRead(reads),
           \A i \in 1..Len(reads) : reads[i].op = "read",
           \A file \in BundleFiles : \E i \in 1..Len(reads) : reads[i] = ReadOf(file)
    PROVE  ManifestIsRead((steps \o reads) \o <<WriteManifest>>)
<1> DEFINE before == steps \o reads
           n == Len(before)
           all == before \o <<WriteManifest>>
<1>1. /\ steps \in Seq(Typed) /\ reads \in Seq(Typed)
      /\ Len(steps) \in Nat /\ Len(reads) \in Nat
  BY DEF ManifestIsRead
<1>2. ManifestIsRead(before)
  BY Sequenced
<1>3. before \in Seq(Typed) /\ n \in Nat /\ n = Len(steps) + Len(reads)
  BY <1>1
<1>4. \A i \in 1..Len(reads) : before[Len(steps) + i] = reads[i]
  BY <1>1
<1> HIDE DEF before
<1>5. <<WriteManifest>> \in Seq(Typed)
  BY DEF Typed
<1>6. all \in Seq(Typed) /\ Len(all) = n + 1
  BY <1>3, <1>5
<1>7. all[n + 1] = WriteManifest
  BY <1>3, <1>5
<1>8. \A i \in 1..n : all[i] = before[i]
  BY <1>3, <1>5
<1> HIDE DEF all, n
<1>9. ASSUME NEW p \in 1..Len(all), all[p] = WriteManifest, NEW file \in BundleFiles
      PROVE  \E q \in 1..(p - 1) :
                /\ all[q] = ReadOf(file)
                /\ \A k \in q..p : all[k].op \notin Clearing
  <2>1. CASE p <= n
    <3>1. before[p] = WriteManifest /\ p \in 1..n
      BY <1>3, <1>6, <1>8, <1>9, <2>1
    <3>2. PICK q \in 1..(p - 1) :
              /\ before[q] = ReadOf(file)
              /\ \A k \in q..p : before[k].op \notin Clearing
      BY <1>2, <1>9, <3>1 DEF ManifestIsRead, n
    <3>3. ASSUME NEW k \in q..p PROVE all[k] = before[k]
      BY <1>3, <1>8, <2>1, <3>1
    <3>4. all[q] = ReadOf(file)
      BY <1>3, <1>8, <3>1, <3>2
    <3> QED
      BY <3>2, <3>3, <3>4
  <2>2. CASE p = n + 1
    <3>1. PICK i \in 1..Len(reads) : reads[i] = ReadOf(file)
      BY <1>9
    <3> DEFINE q == Len(steps) + i
    <3>2. q \in 1..(p - 1) /\ q \in 1..n
      BY <1>1, <1>3, <2>2
    <3>3. all[q] = ReadOf(file)
      BY <1>4, <1>8, <3>1, <3>2
    <3>4. ASSUME NEW k \in q..p PROVE all[k].op \notin Clearing
      <4>1. CASE k = p
        BY <1>7, <2>2, <4>1 DEF WriteManifest, Clearing
      <4>2. CASE k # p
        <5>1. PICK j \in 1..Len(reads) : k = Len(steps) + j
          <6>1. k \in Int /\ Len(steps) + 1 <= k /\ k <= n
            BY <1>1, <1>3, <2>2, <4>2
          <6>2. k - Len(steps) \in 1..Len(reads) /\ k = Len(steps) + (k - Len(steps))
            BY <1>1, <1>3, <6>1
          <6> QED
            BY <6>2
        <5>2. k \in 1..n
          BY <1>1, <1>3, <5>1
        <5>3. all[k] = reads[j]
          BY <1>4, <1>8, <5>1, <5>2
        <5> QED
          BY <5>3 DEF Clearing
      <4> QED
        BY <4>1, <4>2
    <3> HIDE DEF q
    <3> QED
      BY <3>2, <3>3, <3>4
  <2> QED
    BY <1>3, <1>6, <1>9, <2>1, <2>2
<1>10. ManifestIsRead(all)
  BY <1>6, <1>9 DEF ManifestIsRead
<1> QED
  BY <1>10 DEF all, before

LEMMA AssembleRead == ManifestIsRead(Assemble)
<1> DEFINE start == ValidateAttested \o Reads(<<"artifact_inventory", "dist", "subjects">>)
                      \o Step("check", "current_subjects")
<1>1. /\ ManifestReads \in Seq(File) /\ Len(ManifestReads) = 18
      /\ <<"artifact_inventory", "dist", "subjects">> \in Seq(File)
  BY DEF ManifestReads, File, Listed, BuilderWritten, BundleFiles
<1>2. \A file \in BundleFiles : \E i \in 1..Len(ManifestReads) : ManifestReads[i] = file
  BY DEF ManifestReads, BundleFiles
<1>3. /\ ManifestIsRead(Reads(ManifestReads))
      /\ ManifestIsRead(Reads(<<"artifact_inventory", "dist", "subjects">>))
  BY <1>1, StepsArePlain
<1>4. /\ Len(Reads(ManifestReads)) = Len(ManifestReads)
      /\ \A i \in 1..Len(ManifestReads) : Reads(ManifestReads)[i] = ReadOf(ManifestReads[i])
  BY <1>1 DEF Reads, ReadOf
<1>5. /\ ManifestIsRead(Step("check", "current_subjects")) /\ ManifestIsRead(Step("check", "manifest"))
      /\ ManifestIsRead(Step("write", "build_result"))
  BY StepsArePlain DEF Names, MadeFiles
<1>6. ManifestIsRead(start)
  BY <1>3, <1>5, ValidationsArePlain, Sequenced
<1> HIDE DEF start
<1>7. ASSUME NEW i \in 1..Len(Reads(ManifestReads))
      PROVE  Reads(ManifestReads)[i].op = "read"
  <2>1. Reads(ManifestReads)[i] = ReadOf(ManifestReads[i])
    BY <1>4
  <2> QED
    BY <2>1 DEF ReadOf
<1>8. \A file \in BundleFiles : \E i \in 1..Len(Reads(ManifestReads)) :
          Reads(ManifestReads)[i] = ReadOf(file)
  BY <1>2, <1>4
<1>9. ManifestIsRead((start \o Reads(ManifestReads)) \o Step("write", "manifest"))
  BY <1>3, <1>6, <1>7, <1>8, ReadJustBefore DEF Step, WriteManifest
<1>10. ManifestIsRead(start \o Reads(ManifestReads) \o Step("write", "manifest")
            \o Reads(ManifestReads) \o Step("check", "manifest")
            \o Step("write", "build_result"))
  BY <1>3, <1>5, <1>9, Sequenced
<1> QED
  BY <1>10, CommandRead DEF Assemble, start

(* A job starts from the directory the job before it uploaded.             *)
StartsJob(steps) == steps \in Seq(Typed) /\ Len(steps) > 0 /\ steps[1].op \in Clearing

LEMMA StartsJobThen ==
    ASSUME NEW s, NEW t, StartsJob(s), ManifestIsRead(t)
    PROVE  StartsJob(s \o t)
BY DEF StartsJob, ManifestIsRead

LEMMA JobsRead ==
    /\ ManifestIsRead(BuildJob) /\ ManifestIsRead(InspectJob) /\ ManifestIsRead(AttestJob)
    /\ StartsJob(BuildJob) /\ StartsJob(InspectJob) /\ StartsJob(AttestJob)
    /\ AttestJob[Len(AttestJob)] = [op |-> "finish", of |-> "job"]
<1> DEFINE attesting == Step("download", "job") \o Command(ValidateSbom)
                \o Step("attest", "provenance") \o Step("attest", "sbom") \o Step("attest", "build")
                \o Command(ValidateAttested) \o Assemble
<1>1. /\ ManifestIsRead(Step("build", "job")) /\ ManifestIsRead(Step("upload", "job"))
      /\ ManifestIsRead(Step("download", "job")) /\ ManifestIsRead(Step("scan", "syft"))
  BY StepsArePlain DEF Names
<1>2. /\ ManifestIsRead(Step("attest", "provenance")) /\ ManifestIsRead(Step("attest", "sbom"))
      /\ ManifestIsRead(Step("attest", "build")) /\ ManifestIsRead(Step("finish", "job"))
  BY StepsArePlain DEF Roles
<1>3. /\ ManifestIsRead(Command(Validate)) /\ ManifestIsRead(Command(ValidateSbom))
      /\ ManifestIsRead(Command(ValidateAttested))
  BY ValidationsArePlain, CommandRead
<1>4. StartsJob(Step("build", "job")) /\ StartsJob(Step("download", "job"))
  <2>1. Step("build", "job") \in Seq(Typed) /\ Step("download", "job") \in Seq(Typed)
    BY <1>1 DEF ManifestIsRead
  <2> QED
    BY <2>1 DEF StartsJob, Step, Clearing
<1>5. ManifestIsRead(BuildJob)
  BY <1>1, <1>3, SealRead, Sequenced DEF BuildJob
<1>6. ManifestIsRead(InspectJob)
  BY <1>1, <1>3, InspectionRead, Sequenced DEF InspectJob
<1>7. ManifestIsRead(attesting)
  BY <1>1, <1>2, <1>3, AssembleRead, Sequenced
<1>8. StartsJob(BuildJob)
  BY <1>1, <1>3, <1>4, SealRead, StartsJobThen DEF BuildJob
<1>9. StartsJob(InspectJob)
  BY <1>1, <1>3, <1>4, InspectionRead, StartsJobThen DEF InspectJob
<1>10. StartsJob(attesting)
  BY <1>1, <1>2, <1>3, <1>4, AssembleRead, StartsJobThen
<1>11. AttestJob = attesting \o Step("finish", "job")
  BY DEF AttestJob
<1> HIDE DEF attesting
<1>12. ManifestIsRead(AttestJob) /\ StartsJob(AttestJob)
  BY <1>2, <1>7, <1>10, <1>11, Sequenced, StartsJobThen
<1>13. AttestJob[Len(AttestJob)] = [op |-> "finish", of |-> "job"]
  <2>1. /\ attesting \in Seq(Typed) /\ Step("finish", "job") \in Seq(Typed)
    BY <1>2, <1>7 DEF ManifestIsRead
  <2>2. Len(Step("finish", "job")) = 1 /\ Step("finish", "job")[1] = [op |-> "finish", of |-> "job"]
    BY DEF Step
  <2> QED
    BY <1>11, <2>1, <2>2
<1> QED
  BY <1>5, <1>6, <1>8, <1>9, <1>12, <1>13

(* What the argument uses of the workflow as a whole.                      *)
LEMMA WorkflowRead ==
    /\ ManifestIsRead(Workflow)
    /\ Workflow \in Seq(Typed) /\ Len(Workflow) \in Nat /\ Len(Workflow) > 0
    /\ Workflow[Len(Workflow)].op = "finish"
    /\ JobStarts \subseteq 1..Len(Workflow)
    /\ \A start \in JobStarts : Workflow[start].op \in Clearing
<1> DEFINE first == BuildJob \o InspectJob
           b == Len(BuildJob)
           i == Len(InspectJob)
           a == Len(AttestJob)
<1>1. /\ BuildJob \in Seq(Typed) /\ InspectJob \in Seq(Typed) /\ AttestJob \in Seq(Typed)
      /\ b \in Nat /\ i \in Nat /\ a \in Nat /\ b > 0 /\ i > 0 /\ a > 0
  BY JobsRead DEF ManifestIsRead, StartsJob
<1>2. ManifestIsRead(first) /\ ManifestIsRead(Workflow)
  BY JobsRead, Sequenced DEF Workflow
<1>3. first \in Seq(Typed) /\ Len(first) = b + i
  BY <1>1
<1>4. \A k \in 1..b : first[k] = BuildJob[k]
  BY <1>1
<1>5. \A k \in 1..i : first[b + k] = InspectJob[k]
  BY <1>1
<1>6. Workflow = first \o AttestJob
  BY DEF Workflow
<1> HIDE DEF first
<1>7. Workflow \in Seq(Typed) /\ Len(Workflow) = b + i + a
  <2>1. /\ first \o AttestJob \in Seq(Typed)
        /\ Len(first \o AttestJob) = Len(first) + Len(AttestJob)
    BY <1>1, <1>3, ConcatProperties
  <2> QED
    BY <1>3, <1>6, <2>1
<1>8. \A k \in 1..(b + i) : Workflow[k] = first[k]
  BY <1>1, <1>3, <1>6
<1>9. \A k \in 1..a : Workflow[b + i + k] = AttestJob[k]
  BY <1>1, <1>3, <1>6
<1>10. Workflow[1] = BuildJob[1] /\ Workflow[b + 1] = InspectJob[1]
       /\ Workflow[b + i + 1] = AttestJob[1] /\ Workflow[b + i + a] = AttestJob[a]
  BY <1>1, <1>4, <1>5, <1>8, <1>9
<1>11. JobStarts = {1, 1 + b, 1 + b + i}
  BY DEF JobStarts
<1> HIDE DEF a, b, i
<1>12. /\ Workflow[1].op \in Clearing /\ Workflow[b + 1].op \in Clearing
       /\ Workflow[b + i + 1].op \in Clearing /\ Workflow[b + i + a].op = "finish"
  BY <1>10, JobsRead DEF StartsJob, a
<1> QED
  BY <1>1, <1>2, <1>7, <1>11, <1>12

(* What other runs signed, and all that was ever signed.                   *)
Foreign ==
    {Bundle(build, scan, OtherRun)[file] :
        build \in OtherBuilds, scan \in Scans, file \in BundleFiles}
Genuine == signed \cup Foreign

Bound(manifest, genuine) == \A file \in BundleFiles : manifest[file] \in genuine

DirectoryIsGenuine(directory, genuine) ==
    /\ DOMAIN directory = File
    /\ \A file \in BundleFiles : directory[file] \in genuine \cup {NONE}
    /\ directory["manifest"] = NONE \/ Bound(directory["manifest"], genuine)

(* The current command read the file at position q.                        *)
ReadSince(file, q) ==
    Workflow[q] = ReadOf(file) /\ \A k \in q..at : Workflow[k].op \notin Clearing

ReadingsAreGenuine ==
    /\ DOMAIN read = File
    /\ \A file \in BundleFiles : read[file] \in Seq(Genuine)
    /\ \A file \in BundleFiles, q \in 1..(at - 1) :
          ReadSince(file, q) => read[file] # <<>>

VerifiedIsGenuine ==
    /\ phase # "idle" => Bound(entry, Genuine)
    /\ record # NONE => Bound(record.evidence, Genuine)

(* Every attestation, in the directory, in what was uploaded, in what a    *)
(* command read, in a manifest and in what was verified, is one that was   *)
(* signed, here or in another run; and a command that is past reading one  *)
(* has it.                                                                 *)
SignedInv ==
    /\ at \in 1..Len(Workflow)
    /\ DirectoryIsGenuine(disk, Genuine)
    /\ DirectoryIsGenuine(stored, Genuine)
    /\ ReadingsAreGenuine
    /\ VerifiedIsGenuine

(* What was signed stays signed.                                           *)
LEMMA Grows ==
    ASSUME signed \subseteq signed'
    PROVE  Genuine \subseteq Genuine'
<1>1. Foreign' = Foreign
  OBVIOUS
<1> QED
  BY <1>1 DEF Genuine

LEMMA DirectoryGrows ==
    ASSUME NEW directory, NEW genuine, NEW more, genuine \subseteq more,
           DirectoryIsGenuine(directory, genuine)
    PROVE  DirectoryIsGenuine(directory, more)
BY DEF DirectoryIsGenuine, Bound

LEMMA ForeignBundle ==
    ASSUME NEW build \in OtherBuilds, NEW scan \in Scans
    PROVE  Bound(Bundle(build, scan, OtherRun), Genuine)
BY DEF Bound, Genuine, Foreign

LEMMA ForeignCertificate ==
    ASSUME NEW statement \in Foreign
    PROVE  statement.certificate = OtherRun
<1>1. PICK build \in OtherBuilds, scan \in Scans, file \in BundleFiles :
          statement = Bundle(build, scan, OtherRun)[file]
  BY DEF Foreign
<1> QED
  BY <1>1 DEF Bundle, BundleFiles, Listed, BuilderWritten, Attestation

LEMMA EmptyDirectory == \A genuine : DirectoryIsGenuine(Nothing, genuine)
BY DEF DirectoryIsGenuine, Nothing, File, Listed, BundleFiles

LEMMA NoReadingsAreGenuine ==
    /\ DOMAIN NoReadings = File
    /\ \A file \in BundleFiles : NoReadings[file] = <<>>
    /\ \A file \in BundleFiles : \A genuine : NoReadings[file] \in Seq(genuine)
BY DEF NoReadings, File, Listed

(* The readings, when a step neither reads nor forgets, and when it        *)
(* forgets them all.                                                       *)
LEMMA ReadingsStay ==
    ASSUME SignedInv, UNCHANGED read, signed \subseteq signed',
           at' = at \/ (at' = at + 1 /\ Now.op # "read")
    PROVE  ReadingsAreGenuine'
<1>1. \A file \in BundleFiles : read'[file] \in Seq(Genuine')
  BY Grows DEF SignedInv, ReadingsAreGenuine
<1>2. ASSUME NEW file \in BundleFiles, NEW q \in 1..(at' - 1), ReadSince(file, q)'
      PROVE  read'[file] # <<>>
  <2>1. at \in Nat /\ q \in Nat /\ Workflow[q] = ReadOf(file)
    BY <1>2 DEF SignedInv, ReadSince
  <2>2. q # at
    BY <2>1 DEF Now, ReadOf
  <2>3. q \in 1..(at - 1)
    BY <2>1, <2>2
  <2>4. ReadSince(file, q)
    <3>1. ASSUME NEW k \in q..at PROVE Workflow[k].op \notin Clearing
      <4>1. k \in q..at'
        BY <2>1
      <4> QED
        BY <1>2, <4>1 DEF ReadSince
    <3> QED
      BY <2>1, <3>1 DEF ReadSince
  <2> QED
    BY <2>3, <2>4 DEF SignedInv, ReadingsAreGenuine
<1> QED
  BY <1>1, <1>2 DEF SignedInv, ReadingsAreGenuine

LEMMA ReadingsCleared ==
    ASSUME SignedInv, read' = NoReadings, at' \in 1..Len(Workflow),
           \/ at' = at /\ Now.op \in Clearing
           \/ at' = at + 1 /\ Now.op \in Clearing
           \/ Workflow[at'].op \in Clearing
    PROVE  ReadingsAreGenuine'
<1>1. ASSUME NEW file \in BundleFiles, NEW q \in 1..(at' - 1), ReadSince(file, q)'
      PROVE  FALSE
  <2>1. at' \in Nat /\ q \in Nat /\ Workflow[q] = ReadOf(file) /\ at \in Nat
    BY <1>1, WorkflowRead DEF SignedInv, ReadSince
  <2>2. \A k \in q..at' : Workflow[k].op \notin Clearing
    BY <1>1 DEF ReadSince
  <2>3. at' \in q..at'
    <3>1. \A n \in Nat : \A m \in 1..(n - 1) : m \in Nat /\ m <= n /\ n \in m..n
      OBVIOUS
    <3> QED
      BY <2>1, <3>1
  <2>4. CASE at' = at + 1 /\ Now.op \in Clearing
    <3>1. at \in q..at'
      BY <2>1, <2>4
    <3> QED
      BY <2>2, <2>4, <3>1 DEF Now
  <2> QED
    BY <2>2, <2>3, <2>4 DEF Now
<1> QED
  BY <1>1, NoReadingsAreGenuine DEF ReadingsAreGenuine

(* Where the workflow is, and where it goes.                               *)
LEMMA NowIsTyped ==
    ASSUME SignedInv
    PROVE  Now \in Typed
BY WorkflowRead DEF SignedInv, Now

LEMMA NextPosition ==
    ASSUME SignedInv, at' = at + 1, Now.op # "finish"
    PROVE  at' \in 1..Len(Workflow)
<1>1. at \in 1..Len(Workflow) /\ Len(Workflow) \in Nat /\ at # Len(Workflow)
  BY WorkflowRead DEF SignedInv, Now
<1> QED
  BY <1>1

LEMMA FirstPosition ==
    ASSUME SignedInv
    PROVE  JobStart \in 1..Len(Workflow) /\ Workflow[JobStart].op \in Clearing
<1> DEFINE LatestStart(start) == /\ start <= at
                             /\ \A other \in JobStarts : other <= at => other <= start
           b == 1 + Len(BuildJob)
           i == 1 + Len(BuildJob) + Len(InspectJob)
<1>1. JobStarts = {1, b, i} /\ JobStarts \subseteq 1..Len(Workflow) /\ Len(Workflow) \in Nat
  BY WorkflowRead DEF JobStarts
<1> HIDE DEF b, i
<1>2. at \in Nat /\ 1 <= at /\ b \in Nat /\ i \in Nat
  BY <1>1 DEF SignedInv
<1>3. \E start \in JobStarts : LatestStart(start)
  <2>1. CASE i <= at /\ b <= i
    <3>1. LatestStart(i)
      BY <1>1, <1>2, <2>1
    <3> QED
      BY <1>1, <3>1
  <2>2. CASE b <= at /\ (i <= at => i <= b)
    <3>1. LatestStart(b)
      BY <1>1, <1>2, <2>2
    <3> QED
      BY <1>1, <3>1
  <2>3. CASE ~(b <= at) /\ i <= at
    <3>1. LatestStart(i)
      BY <1>1, <1>2, <2>3
    <3> QED
      BY <1>1, <3>1
  <2>4. CASE ~(b <= at) /\ ~(i <= at)
    <3>1. LatestStart(1)
      BY <1>1, <1>2, <2>4
    <3> QED
      BY <1>1, <3>1
  <2> QED
    BY <1>2, <2>1, <2>2, <2>3, <2>4
<1>4. JobStart \in JobStarts
  BY <1>3 DEF JobStart
<1> QED
  BY <1>4, WorkflowRead

LEMMA VerifiedStays ==
    ASSUME SignedInv, UNCHANGED verifierVars, signed \subseteq signed'
    PROVE  VerifiedIsGenuine'
BY Grows DEF SignedInv, VerifiedIsGenuine, Bound, verifierVars

(* The manifest lists the attestations as they were read.                  *)
LEMMA WriteSigned ==
    ASSUME SignedInv, WriteFile, UNCHANGED verifierVars
    PROVE  SignedInv'
<1>1. Now.op \in {"write", "create"} /\ UNCHANGED <<stored, read, signed>> /\ at' = at + 1
      /\ disk' = [disk EXCEPT ![Now.of] = Made(Now.of)]
  BY DEF WriteFile, Doing, Continue
<1>2. /\ at' \in 1..Len(Workflow) /\ ReadingsAreGenuine' /\ VerifiedIsGenuine'
      /\ DirectoryIsGenuine(stored, Genuine)' /\ Genuine' = Genuine
  <2>1. Genuine' = Genuine
    BY <1>1 DEF Genuine
  <2> QED
    BY <1>1, <2>1, NextPosition, ReadingsStay, VerifiedStays DEF SignedInv
<1>3. Now \in [op : {"create", "write"}, of : MadeFiles] \cup {WriteManifest}
  BY <1>1, NowIsTyped DEF Typed, Plain
<1>4. DirectoryIsGenuine(disk', Genuine)
  <2>1. CASE Now.of \in MadeFiles
    BY <1>1, <2>1 DEF SignedInv, DirectoryIsGenuine, MadeFiles, BundleFiles
  <2>2. CASE Now = WriteManifest
    <3>1. Now.of = "manifest" /\ "manifest" \in File /\ BundleFiles \subseteq Listed
      BY <2>2 DEF WriteManifest, File, Listed
    <3>2. ASSUME NEW file \in BundleFiles
          PROVE  Made("manifest")[file] \in Genuine
      <4>1. PICK q \in 1..(at - 1) : ReadSince(file, q)
        BY <2>2, WorkflowRead DEF SignedInv, Now, ManifestIsRead, ReadSince
      <4>2. read[file] \in Seq(Genuine) /\ read[file] # <<>>
        BY <4>1 DEF SignedInv, ReadingsAreGenuine
      <4>3. Latest(read[file]) \in Genuine
        BY <4>2 DEF Latest
      <4>4. Made("manifest") = [listed \in Listed |-> Latest(read[listed])]
        BY DEF Made
      <4> QED
        BY <3>1, <4>3, <4>4
    <3>3. Bound(Made("manifest"), Genuine)
      BY <3>2 DEF Bound
    <3>4. \A file \in BundleFiles : file # "manifest"
      BY DEF BundleFiles
    <3> QED
      BY <1>1, <3>1, <3>3, <3>4 DEF SignedInv, DirectoryIsGenuine
  <2> QED
    BY <1>3, <2>1, <2>2
<1> QED
  BY <1>2, <1>4 DEF SignedInv

(* The steps that write no file.                                           *)
LEMMA QuietSigned ==
    ASSUME SignedInv, UNCHANGED verifierVars, UNCHANGED <<disk, stored, signed>>,
           at' \in 1..Len(Workflow), ReadingsAreGenuine'
    PROVE  SignedInv'
<1>1. Genuine' = Genuine
  BY DEF Genuine
<1>2. VerifiedIsGenuine'
  BY VerifiedStays
<1> QED
  BY <1>1, <1>2 DEF SignedInv

LEMMA CommandSigned ==
    ASSUME SignedInv, UNCHANGED verifierVars, Begin \/ ReadFile \/ Pass \/ Refuse \/ Finish
    PROVE  SignedInv'
<1>1. CASE Begin
  <2>1. Now.op = "begin" /\ at' = at + 1 /\ read' = NoReadings /\ UNCHANGED <<disk, stored, signed>>
    BY <1>1 DEF Begin, Doing, Continue
  <2>2. at' \in 1..Len(Workflow)
    BY <2>1, NextPosition
  <2> QED
    BY <2>1, <2>2, ReadingsCleared, QuietSigned DEF Clearing
<1>2. CASE ReadFile
  <2>1. Now.op = "read" /\ at' = at + 1 /\ disk[Now.of] # NONE /\ UNCHANGED <<disk, stored, signed>>
        /\ read' = [read EXCEPT ![Now.of] = Append(@, disk[Now.of])]
    BY <1>2 DEF ReadFile, Doing, Continue
  <2>2. at' \in 1..Len(Workflow)
    BY <2>1, NextPosition
  <2>3. Now = ReadOf(Now.of)
    BY <2>1, NowIsTyped DEF Typed, Plain, WriteManifest, ReadOf
  <2>4. ASSUME NEW file \in BundleFiles
        PROVE  /\ read'[file] \in Seq(Genuine)
               /\ file = Now.of => read'[file] # <<>>
               /\ file # Now.of => read'[file] = read[file]
    <3>1. read[file] \in Seq(Genuine) /\ file \in DOMAIN read
      BY DEF SignedInv, ReadingsAreGenuine, File, Listed
    <3>2. CASE file = Now.of
      <4>1. disk[file] \in Genuine
        BY <2>1, <3>2 DEF SignedInv, DirectoryIsGenuine
      <4>2. read'[file] = Append(read[file], disk[file])
        BY <2>1, <3>1, <3>2
      <4> QED
        BY <3>1, <3>2, <4>1, <4>2
    <3>3. CASE file # Now.of
      BY <2>1, <3>1, <3>3
    <3> QED
      BY <3>2, <3>3
  <2>5. ASSUME NEW file \in BundleFiles, NEW q \in 1..(at' - 1), ReadSince(file, q)'
        PROVE  read'[file] # <<>>
    <3>1. at \in Nat /\ q \in Nat /\ Workflow[q] = ReadOf(file)
      BY <2>5 DEF SignedInv, ReadSince
    <3>2. CASE q = at
      BY <2>3, <2>4, <3>1, <3>2 DEF Now, ReadOf
    <3>3. CASE q # at
      <4>1. q \in 1..(at - 1)
        BY <2>1, <3>1, <3>3
      <4>2. \A k \in q..at : k \in q..at'
        BY <2>1, <3>1
      <4>3. ReadSince(file, q)
        BY <2>5, <3>1, <4>2 DEF ReadSince
      <4>4. read[file] # <<>>
        BY <4>1, <4>3 DEF SignedInv, ReadingsAreGenuine
      <4> QED
        BY <2>4, <4>4
    <3> QED
      BY <3>2, <3>3
  <2>6. Genuine' = Genuine /\ DOMAIN read' = File
    BY <2>1 DEF Genuine, SignedInv, ReadingsAreGenuine
  <2>7. ReadingsAreGenuine'
    BY <2>4, <2>5, <2>6 DEF ReadingsAreGenuine
  <2> QED
    BY <2>1, <2>2, <2>7, QuietSigned
<1>3. CASE Pass
  <2>1. Now.op = "check" /\ at' = at + 1 /\ UNCHANGED <<disk, stored, read, signed>>
    BY <1>3 DEF Pass, Doing, Continue
  <2>2. at' \in 1..Len(Workflow)
    BY <2>1, NextPosition
  <2> QED
    BY <2>1, <2>2, ReadingsStay, QuietSigned
<1>4. CASE Refuse
  <2>1. UNCHANGED <<disk, stored, at, read, signed>>
    BY <1>4 DEF Refuse
  <2> QED
    BY <2>1, ReadingsStay, QuietSigned DEF SignedInv
<1>5. CASE Finish
  <2>1. Now.op = "finish" /\ read' = NoReadings /\ UNCHANGED <<disk, stored, at, signed>>
    BY <1>5 DEF Finish, Doing
  <2>2. at' \in 1..Len(Workflow)
    BY <2>1 DEF SignedInv
  <2> QED
    BY <2>1, <2>2, ReadingsCleared, QuietSigned DEF Clearing
<1> QED
  BY <1>1, <1>2, <1>3, <1>4, <1>5

(* The steps that replace the directory or write no attestation.           *)
LEMMA DirectorySigned ==
    ASSUME SignedInv, UNCHANGED verifierVars, UNCHANGED signed,
           DirectoryIsGenuine(disk', Genuine), DirectoryIsGenuine(stored', Genuine),
           at' \in 1..Len(Workflow), ReadingsAreGenuine'
    PROVE  SignedInv'
<1>1. Genuine' = Genuine
  BY DEF Genuine
<1>2. VerifiedIsGenuine'
  BY VerifiedStays
<1> QED
  BY <1>1, <1>2 DEF SignedInv

LEMMA JobSigned ==
    ASSUME SignedInv, UNCHANGED verifierVars, Build \/ Scan \/ Upload \/ Download \/ Rerun
    PROVE  SignedInv'
<1>1. CASE Build
  <2>1. /\ Now.op = "build" /\ at' = at + 1 /\ UNCHANGED <<stored, read, signed>>
    BY <1>1 DEF Build, Doing, Continue
  <2>2. PICK build \in Builds : disk' = Directory(BuilderDirectory(build))
    BY <1>1 DEF Build
  <2>3. DOMAIN disk' = File /\ \A file \in BundleFiles \cup {"manifest"} : disk'[file] = NONE
    BY <2>2 DEF Directory, BuilderDirectory, File, Listed, BundleFiles, BuilderWritten
  <2>4. DirectoryIsGenuine(disk', Genuine) /\ DirectoryIsGenuine(stored', Genuine)
    BY <2>1, <2>3 DEF SignedInv, DirectoryIsGenuine
  <2> QED
    BY <2>1, <2>4, NextPosition, ReadingsStay, DirectorySigned
<1>2. CASE Scan
  <2>1. /\ Now.op = "scan" /\ at' = at + 1 /\ UNCHANGED <<stored, read, signed>>
        /\ \E scan \in Scans : disk' = [disk EXCEPT !["syft"] = scan]
    BY <1>2 DEF Scan, Doing, Continue
  <2>2. DirectoryIsGenuine(disk', Genuine) /\ DirectoryIsGenuine(stored', Genuine)
    BY <2>1 DEF SignedInv, DirectoryIsGenuine, BundleFiles
  <2> QED
    BY <2>1, <2>2, NextPosition, ReadingsStay, DirectorySigned
<1>3. CASE Upload
  <2>1. /\ Now.op = "upload" /\ at' = at + 1 /\ UNCHANGED <<read, signed>>
        /\ stored' = disk /\ disk' = Nothing
    BY <1>3 DEF Upload, Doing, Continue
  <2>2. DirectoryIsGenuine(disk', Genuine) /\ DirectoryIsGenuine(stored', Genuine)
    BY <2>1, EmptyDirectory DEF SignedInv
  <2> QED
    BY <2>1, <2>2, NextPosition, ReadingsStay, DirectorySigned
<1>4. CASE Download
  <2>1. /\ Now.op = "download" /\ at' = at + 1 /\ UNCHANGED <<stored, signed>>
        /\ disk' = stored /\ read' = NoReadings
    BY <1>4 DEF Download, Doing, Continue
  <2>2. DirectoryIsGenuine(disk', Genuine) /\ DirectoryIsGenuine(stored', Genuine)
    BY <2>1 DEF SignedInv
  <2>3. at' \in 1..Len(Workflow)
    BY <2>1, NextPosition
  <2> QED
    BY <2>1, <2>2, <2>3, ReadingsCleared, DirectorySigned DEF Clearing
<1>5. CASE Rerun
  <2>1. /\ at' = JobStart /\ UNCHANGED <<stored, signed>>
        /\ disk' = Nothing /\ read' = NoReadings
    BY <1>5 DEF Rerun
  <2>2. DirectoryIsGenuine(disk', Genuine) /\ DirectoryIsGenuine(stored', Genuine)
    BY <2>1, EmptyDirectory DEF SignedInv
  <2>3. at' \in 1..Len(Workflow) /\ Workflow[at'].op \in Clearing
    BY <2>1, FirstPosition
  <2> QED
    BY <2>1, <2>2, <2>3, ReadingsCleared, DirectorySigned
<1> QED
  BY <1>1, <1>2, <1>3, <1>4, <1>5

(* A new statement is signed, and kept under its own name.                 *)
LEMMA AttestSigned ==
    ASSUME SignedInv, Attest, UNCHANGED verifierVars
    PROVE  SignedInv'
<1>1. /\ Now.op = "attest" /\ at' = at + 1 /\ UNCHANGED <<stored, read>>
      /\ \E statement : /\ signed' = signed \cup {statement}
                        /\ disk' = [disk EXCEPT ![BundleFile(Now.of)] = statement]
  BY DEF Attest, Doing, Continue
<1>2. PICK statement : /\ signed' = signed \cup {statement}
                       /\ disk' = [disk EXCEPT ![BundleFile(Now.of)] = statement]
  BY <1>1
<1>3. Genuine \subseteq Genuine' /\ statement \in Genuine' /\ signed \subseteq signed'
  BY <1>2, Grows DEF Genuine
<1>4. /\ at' \in 1..Len(Workflow) /\ ReadingsAreGenuine' /\ VerifiedIsGenuine'
  BY <1>1, <1>3, NextPosition, ReadingsStay, VerifiedStays
<1>5. DirectoryIsGenuine(stored', Genuine') /\ DirectoryIsGenuine(disk, Genuine')
  BY <1>1, <1>3, DirectoryGrows DEF SignedInv
<1>6. BundleFile(Now.of) \in BundleFiles
  <2>1. Now.of \in Roles
    BY <1>1, NowIsTyped DEF Typed, Plain, WriteManifest
  <2> QED
    BY <2>1 DEF Roles, BundleFile, BundleFiles
<1>7. DirectoryIsGenuine(disk', Genuine')
  BY <1>2, <1>3, <1>5, <1>6 DEF DirectoryIsGenuine, BundleFiles
<1> QED
  BY <1>4, <1>5, <1>7 DEF SignedInv

(* What comes from another run was signed there.                           *)
LEMMA SwapSigned ==
    ASSUME SignedInv, Swap, UNCHANGED verifierVars
    PROVE  SignedInv'
<1>1. UNCHANGED <<stored, at, read, signed>>
  BY DEF Swap
<1>2. PICK files \in SwapSets, build \in OtherBuilds, scan \in Scans :
          disk' = [file \in File |->
                      CASE file \notin files -> disk[file]
                        [] file = "manifest" -> Bundle(build, scan, OtherRun)
                        [] OTHER -> Bundle(build, scan, OtherRun)[file]]
  BY DEF Swap
<1> DEFINE other == Bundle(build, scan, OtherRun)
<1>3. Bound(other, Genuine)
  BY ForeignBundle
<1> HIDE DEF other
<1>4. disk' = [file \in File |->
                  CASE file \notin files -> disk[file]
                    [] file = "manifest" -> other
                    [] OTHER -> other[file]]
  BY <1>2 DEF other
<1>5. DOMAIN disk' = File
  BY <1>4
<1>6. ASSUME NEW file \in BundleFiles PROVE disk'[file] \in Genuine \cup {NONE}
  <2>1. file \in File /\ file # "manifest"
    BY DEF File, Listed, BundleFiles
  <2>2. disk'[file] = disk[file] \/ disk'[file] = other[file]
    BY <1>4, <2>1
  <2> QED
    BY <1>3, <2>2 DEF SignedInv, DirectoryIsGenuine, Bound
<1>7. disk'["manifest"] = NONE \/ Bound(disk'["manifest"], Genuine)
  <2>1. "manifest" \in File
    BY DEF File
  <2>2. disk'["manifest"] = disk["manifest"] \/ disk'["manifest"] = other
    BY <1>4, <2>1
  <2> QED
    BY <1>3, <2>2 DEF SignedInv, DirectoryIsGenuine
<1>8. DirectoryIsGenuine(disk', Genuine) /\ DirectoryIsGenuine(stored', Genuine)
  BY <1>1, <1>5, <1>6, <1>7 DEF SignedInv, DirectoryIsGenuine
<1>9. ReadingsAreGenuine' /\ at' \in 1..Len(Workflow)
  BY <1>1, ReadingsStay DEF SignedInv
<1> QED
  BY <1>1, <1>8, <1>9, DirectorySigned

(* The verifier copies what the manifest lists.                            *)
LEMMA VerifySigned ==
    ASSUME SignedInv, VerifierStep, UNCHANGED handoffVars
    PROVE  SignedInv'
<1>1. UNCHANGED <<disk, stored, at, read, signed>> /\ Genuine' = Genuine
  BY DEF handoffVars, Genuine
<1>2. ReadingsAreGenuine'
  BY <1>1, ReadingsStay
<1>3. VerifiedIsGenuine'
  <2>1. CASE SnapshotManifest
    BY <1>1, <2>1 DEF SnapshotManifest, SignedInv, DirectoryIsGenuine, VerifiedIsGenuine, Bound
  <2>2. CASE VerifyBuildBundle
    <3>1. phase # "idle" /\ entry' = entry /\ record'.evidence = entry
      BY <2>2 DEF VerifyBuildBundle
    <3> QED
      BY <1>1, <3>1 DEF SignedInv, VerifiedIsGenuine
  <2>3. CASE ~SnapshotManifest /\ ~VerifyBuildBundle
    <3>1. phase # "idle" /\ UNCHANGED <<entry, record>>
      BY <2>3 DEF VerifierStep, StreamFile, VerifySubjects, VerifySpdx, VerifyReports,
                  VerifyArchives, VerifyPredicate, ReadTrace, VerifyRawTraces,
                  VerifyProvenance, VerifySbomBundle, RefuseEvidence, Accept, Verifying
    <3> QED
      BY <1>1, <3>1 DEF SignedInv, VerifiedIsGenuine
  <2> QED
    BY <2>1, <2>2, <2>3
<1> QED
  BY <1>1, <1>2, <1>3 DEF SignedInv

(* The invariant is inductive.                                             *)
LEMMA NextSigned ==
    ASSUME SignedInv, [Next]_vars
    PROVE  SignedInv'
<1>1. CASE Produce
  BY <1>1, CommandSigned, JobSigned, AttestSigned, WriteSigned DEF Produce, HandoffStep
<1>2. CASE Disturb
  BY <1>2, JobSigned, SwapSigned DEF Disturb
<1>3. CASE Verify
  BY <1>3, VerifySigned DEF Verify
<1>4. CASE UNCHANGED vars
  <2>1. UNCHANGED <<disk, stored, at, read, signed>> /\ UNCHANGED verifierVars
    BY <1>4 DEF vars, handoffVars
  <2> QED
    BY <2>1, ReadingsStay, QuietSigned DEF SignedInv
<1> QED
  BY <1>1, <1>2, <1>3, <1>4 DEF Next

LEMMA InitSigned == Init => SignedInv
<1> SUFFICES ASSUME Init PROVE SignedInv
  OBVIOUS
<1>1. at = 1 /\ 1 \in 1..Len(Workflow)
  BY WorkflowRead DEF Init, HandoffInit
<1>2. DirectoryIsGenuine(disk, Genuine) /\ DirectoryIsGenuine(stored, Genuine)
  BY EmptyDirectory DEF Init, HandoffInit
<1>3. ReadingsAreGenuine
  BY <1>1, NoReadingsAreGenuine DEF Init, HandoffInit, ReadingsAreGenuine
<1>4. VerifiedIsGenuine
  BY DEF Init, VerifierInit, VerifiedIsGenuine
<1> QED
  BY <1>1, <1>2, <1>3, <1>4 DEF SignedInv

(* What is recorded as signed by this workflow run was signed by it and in *)
(* its first attempt: for any builds, re-runs, groups of replaced files    *)
(* and number of interferences, no other statement, and none of a later    *)
(* attempt, is ever verified for it.                                       *)
THEOREM SignaturesAreOwn == Spec => []RecordedIsSigned
<1>1. Spec => []SignedInv
  BY InitSigned, NextSigned, PTL DEF Spec
<1>2. RecordIsSound /\ SignedInv => RecordedIsSigned
  <2> SUFFICES ASSUME RecordIsSound, SignedInv, record # NONE, record.run.id = Run.id,
                      NEW file \in BundleFiles
               PROVE  /\ record.evidence[file] \in signed
                      /\ record.evidence[file].certificate.attempt = 1
    BY DEF RecordedIsSigned
  <2> DEFINE evidence == record.evidence
  <2>1. RetainedPredicate(evidence) /\ record.run = evidence.build_bundle.certificate
    BY DEF RecordIsSound, Sound
  <2>2. \A role \in Roles : evidence[BundleFile(role)].certificate = evidence.predicate.run
    BY DEF RecordIsSound, Sound, Roles, ValidVerifiedStatement, ValidCertificate
  <2>3. \E role \in Roles : BundleFile(role) = file
    BY DEF BundleFiles, BundleFile, Roles
  <2>4. "build" \in Roles /\ evidence[BundleFile("build")] = evidence.build_bundle
    BY DEF Roles, BundleFile
  <2>5. evidence[file].certificate = record.run /\ record.run = evidence.predicate.run
    BY <2>1, <2>2, <2>3, <2>4
  <2>6. evidence[file].certificate.attempt = 1
    BY <2>1, <2>5 DEF RetainedPredicate
  <2>7. evidence[file] \in Genuine
    BY DEF SignedInv, VerifiedIsGenuine, Bound
  <2>8. evidence[file] \notin Foreign
    BY <2>5, ForeignCertificate DEF Run, OtherRun
  <2> QED
    BY <2>6, <2>7, <2>8 DEF Genuine
<1> QED
  BY <1>1, <1>2, RecordsAreSound, PTL

---------------------------------------------------------------------------
(* Evidence of another run.                                                *)

(* Verified evidence of another workflow run is what that run retained:    *)
(* but for the raw traces, the directory of one build and one scan of it.  *)
ForeignRecordIsOneRun ==
    record # NONE /\ record.run.id # Run.id =>
        \E build \in OtherBuilds, scan \in Scans :
            \A file \in Listed \ {"raw_trace"} :
                record.evidence[file] = Bundle(build, scan, OtherRun)[file]

(* This run signs in its own name only.                                    *)
SignedHere == \A statement \in signed : statement.certificate.id = Run.id

LEMMA SignsInItsName == Spec => []SignedHere
<1>1. Init => SignedHere
  BY DEF Init, HandoffInit, SignedHere
<1>2. SignedHere /\ [Next]_vars => SignedHere'
  <2> SUFFICES ASSUME SignedHere, [Next]_vars
               PROVE  SignedHere'
    OBVIOUS
  <2>1. Run.id = 1 /\ Run'.id = 1
    BY DEF Run
  <2>2. CASE Attest
    <3>1. PICK role, subjects, predicate :
              signed' = signed \cup {Attestation(role, subjects, predicate, Run)}
      BY <2>2 DEF Attest
    <3>2. Attestation(role, subjects, predicate, Run).certificate = Run
      BY DEF Attestation
    <3> QED
      BY <2>1, <3>1, <3>2 DEF SignedHere
  <2>3. CASE UNCHANGED signed
    BY <2>1, <2>3 DEF SignedHere
  <2>4. Attest \/ UNCHANGED signed
    BY DEF Next, Produce, Disturb, Verify, vars, handoffVars, HandoffStep, Build, Begin,
           ReadFile, Pass, Refuse, WriteFile, Scan, Upload, Download, Finish, Rerun, Swap
  <2> QED
    BY <2>2, <2>3, <2>4
<1> QED
  BY <1>1, <1>2, PTL DEF Spec

(* A genuine statement of another run was signed for a build of it.        *)
LEMMA ForeignStatement ==
    ASSUME NEW statement \in Foreign
    PROVE  \E build \in OtherBuilds, scan \in Scans, role \in Roles :
              statement = Bundle(build, scan, OtherRun)[BundleFile(role)]
<1>1. PICK build \in OtherBuilds, scan \in Scans, file \in BundleFiles :
          statement = Bundle(build, scan, OtherRun)[file]
  BY DEF Foreign
<1>2. \E role \in Roles : file = BundleFile(role)
  BY <1>1 DEF BundleFiles, BundleFile, Roles
<1> QED
  BY <1>1, <1>2

(* What the bundles of a run's directory are of.                           *)
LEMMA StatementOfBundle ==
    ASSUME NEW build \in OtherBuilds, NEW scan \in Scans
    PROVE  /\ Bundle(build, scan, OtherRun).provenance_bundle =
                  Attestation("provenance", build.dist, Provenance(OtherRun), OtherRun)
           /\ Bundle(build, scan, OtherRun).sbom_bundle =
                  Attestation("sbom", build.dist, NormalizedSpdx(scan, build.dist),
                              OtherRun)
           /\ Bundle(build, scan, OtherRun).build_bundle =
                  Attestation("build", build.dist,
                              Bundle(build, scan, OtherRun).predicate, OtherRun)
BY DEF Bundle, Listed, BundleFiles, BuilderWritten

LEMMA FieldsOfStatement ==
    ASSUME NEW build \in OtherBuilds, NEW scan \in Scans
    PROVE  /\ Bundle(build, scan, OtherRun).provenance_bundle.role = "provenance"
           /\ Bundle(build, scan, OtherRun).provenance_bundle.subjects = build.dist
           /\ Bundle(build, scan, OtherRun).sbom_bundle.role = "sbom"
           /\ Bundle(build, scan, OtherRun).sbom_bundle.subjects = build.dist
           /\ Bundle(build, scan, OtherRun).sbom_bundle.predicate =
                  NormalizedSpdx(scan, build.dist)
           /\ Bundle(build, scan, OtherRun).build_bundle.role = "build"
           /\ Bundle(build, scan, OtherRun).build_bundle.subjects = build.dist
           /\ Bundle(build, scan, OtherRun).build_bundle.predicate =
                  Bundle(build, scan, OtherRun).predicate
<1> DEFINE whole == Bundle(build, scan, OtherRun)
<1>1. whole.provenance_bundle =
          Attestation("provenance", build.dist, Provenance(OtherRun), OtherRun)
  BY StatementOfBundle
<1>2. whole.sbom_bundle =
          Attestation("sbom", build.dist, NormalizedSpdx(scan, build.dist), OtherRun)
  BY StatementOfBundle
<1>3. whole.build_bundle = Attestation("build", build.dist, whole.predicate, OtherRun)
  BY StatementOfBundle
<1> HIDE DEF whole
<1>4. /\ whole.provenance_bundle.role = "provenance"
      /\ whole.provenance_bundle.subjects = build.dist
  BY <1>1 DEF Attestation
<1>5. /\ whole.sbom_bundle.role = "sbom"
      /\ whole.sbom_bundle.subjects = build.dist
      /\ whole.sbom_bundle.predicate = NormalizedSpdx(scan, build.dist)
  BY <1>2 DEF Attestation
<1>6. /\ whole.build_bundle.role = "build"
      /\ whole.build_bundle.subjects = build.dist
      /\ whole.build_bundle.predicate = whole.predicate
  BY <1>3 DEF Attestation
<1> QED
  BY <1>4, <1>5, <1>6 DEF whole

(* The predicate of a run's directory, and what a predicate does not cover.*)
LEMMA PredicateOfBundle ==
    ASSUME NEW build \in OtherBuilds, NEW scan \in Scans
    PROVE  /\ Bundle(build, scan, OtherRun).predicate.run = OtherRun
           /\ \A file \in PredicateDigests :
                 Bundle(build, scan, OtherRun).predicate.evidence[file] =
                 Bundle(build, scan, OtherRun)[file]
           /\ Bundle(build, scan, OtherRun).dist = build.dist
           /\ Bundle(build, scan, OtherRun).raw_artifacts = build.raw
           /\ Bundle(build, scan, OtherRun).transforms.original = build.raw
           /\ Bundle(build, scan, OtherRun).sbom = NormalizedSpdx(scan, build.dist)
<1> DEFINE whole == Bundle(build, scan, OtherRun)
<1>1. /\ whole.dist = build.dist
      /\ whole.raw_artifacts = build.raw
      /\ whole.transforms = TransformReport(build.raw, build.dist)
      /\ whole.sbom = NormalizedSpdx(scan, build.dist)
  BY DEF Bundle, Listed, BundleFiles, BuilderWritten, BuilderDirectory
<1>2. whole.predicate =
          BuildPredicate(build.dist, [file \in PredicateDigests |-> whole[file]], OtherRun)
  BY DEF Bundle, Listed, BundleFiles, BuilderWritten, BuilderDirectory, PredicateDigests
<1> HIDE DEF whole
<1>3. whole.predicate.run = OtherRun
  BY <1>2 DEF BuildPredicate
<1>4. \A file \in PredicateDigests : whole.predicate.evidence[file] = whole[file]
  BY <1>2 DEF BuildPredicate
<1>5. whole.transforms.original = build.raw
  BY <1>1 DEF TransformReport
<1> QED
  BY <1>1, <1>3, <1>4, <1>5 DEF whole

(* For any builds, re-runs and number of interferences, what is verified   *)
(* under the name of another run is one complete run of it: its statements *)
(* cannot be made to vouch for files, or for statements, of a second one.  *)
(* Nothing less than the signed predicate gives this, since each file is   *)
(* genuine by itself.                                                      *)
THEOREM ForeignRecords == Spec => []ForeignRecordIsOneRun
<1>1. Spec => []SignedInv
  BY InitSigned, NextSigned, PTL DEF Spec
<1>2. RecordIsSound /\ SignedInv /\ SignedHere => ForeignRecordIsOneRun
  <2> SUFFICES ASSUME RecordIsSound, SignedInv, SignedHere,
                      record # NONE, record.run.id # Run.id
               PROVE  \E build \in OtherBuilds, scan \in Scans :
                          \A file \in Listed \ {"raw_trace"} :
                             record.evidence[file] = Bundle(build, scan, OtherRun)[file]
    BY DEF ForeignRecordIsOneRun
  <2> DEFINE evidence == record.evidence
             run == evidence.predicate.run
  <2>1. /\ RetainedPredicate(evidence) /\ RetainedTransform(evidence)
        /\ evidence.subjects = evidence.dist
        /\ record.run = evidence.build_bundle.certificate
        /\ \A role \in Roles :
              ValidVerifiedStatement(role, evidence[BundleFile(role)], evidence)
        /\ Bound(evidence, Genuine)
    BY DEF RecordIsSound, Sound, Roles, SignedInv, VerifiedIsGenuine
  <2> HIDE DEF evidence
  <2>2. \A role \in Roles : /\ evidence[BundleFile(role)].role = role
                            /\ evidence[BundleFile(role)].subjects = evidence.dist
                            /\ evidence[BundleFile(role)].certificate = run
    BY <2>1 DEF ValidVerifiedStatement, ValidCertificate
  <2>3. record.run = run
    <3>1. "build" \in Roles /\ BundleFile("build") = "build_bundle"
      BY DEF Roles, BundleFile
    <3> QED
      BY <2>1, <2>2, <3>1
  <2>4. ASSUME NEW role \in Roles
        PROVE  \E build \in OtherBuilds, scan \in Scans, of \in Roles :
                  evidence[BundleFile(role)] = Bundle(build, scan, OtherRun)[BundleFile(of)]
    <3>1. evidence[BundleFile(role)] \in Genuine
      BY <2>1 DEF Bound, BundleFiles, BundleFile, Roles
    <3>2. evidence[BundleFile(role)] \notin signed
      BY <2>2, <2>3 DEF SignedHere
    <3> QED
      BY <3>1, <3>2, ForeignStatement DEF Genuine
  <2>5. ASSUME NEW role \in Roles
        PROVE  \E build \in OtherBuilds, scan \in Scans :
                  evidence[BundleFile(role)] = Bundle(build, scan, OtherRun)[BundleFile(role)]
    <3>1. PICK build \in OtherBuilds, scan \in Scans, of \in Roles :
              evidence[BundleFile(role)] = Bundle(build, scan, OtherRun)[BundleFile(of)]
      BY <2>4
    <3>2. Bundle(build, scan, OtherRun)[BundleFile(of)].role = of
      BY FieldsOfStatement DEF Roles, BundleFile
    <3> QED
      BY <2>2, <3>1, <3>2
  <2>6. /\ "build" \in Roles /\ BundleFile("build") = "build_bundle"
        /\ "sbom" \in Roles /\ BundleFile("sbom") = "sbom_bundle"
        /\ "provenance" \in Roles /\ BundleFile("provenance") = "provenance_bundle"
    BY DEF Roles, BundleFile
  <2>7. PICK build \in OtherBuilds, scan \in Scans :
            evidence.build_bundle = Bundle(build, scan, OtherRun).build_bundle
    BY <2>5, <2>6
  <2> DEFINE whole == Bundle(build, scan, OtherRun)
  <2>8. evidence.predicate = whole.predicate /\ evidence.dist = whole.dist
    <3>1. whole.build_bundle.subjects = build.dist
          /\ whole.build_bundle.predicate = whole.predicate
      BY FieldsOfStatement
    <3>2. whole.dist = build.dist
      BY PredicateOfBundle
    <3>3. evidence.build_bundle.predicate = evidence.predicate
      BY <2>1, <2>6 DEF ValidVerifiedStatement
    <3>4. evidence.build_bundle.subjects = evidence.dist
      BY <2>2, <2>6
    <3> QED
      BY <2>7, <3>1, <3>2, <3>3, <3>4
  <2>9. run = OtherRun
    <3>1. whole.predicate.run = OtherRun
      BY PredicateOfBundle
    <3> QED
      BY <2>8, <3>1
  <2>10. ASSUME NEW file \in PredicateDigests PROVE evidence[file] = whole[file]
    <3>1. evidence.predicate.evidence = [digest \in PredicateDigests |-> evidence[digest]]
      BY <2>1 DEF RetainedPredicate, BuildPredicate
    <3>2. whole.predicate.evidence[file] = whole[file]
      BY PredicateOfBundle
    <3> QED
      BY <2>8, <3>1, <3>2
  <2>11. evidence.raw_artifacts = whole.raw_artifacts
    <3>1. evidence.transforms = whole.transforms
      BY <2>10 DEF PredicateDigests
    <3>2. evidence.transforms.original = evidence.raw_artifacts
      BY <2>1 DEF RetainedTransform
    <3>3. whole.transforms.original = whole.raw_artifacts
      BY PredicateOfBundle
    <3> QED
      BY <3>1, <3>2, <3>3
  <2>12. evidence.sbom_bundle = whole.sbom_bundle
    <3>1. PICK b \in OtherBuilds, s \in Scans :
              evidence.sbom_bundle = Bundle(b, s, OtherRun).sbom_bundle
      BY <2>5, <2>6
    <3>2. evidence.sbom_bundle =
              Attestation("sbom", b.dist, NormalizedSpdx(s, b.dist), OtherRun)
      BY <3>1, StatementOfBundle
    <3>3. b.dist = evidence.dist /\ NormalizedSpdx(s, b.dist) = evidence.sbom
      <4>1. evidence.sbom_bundle.subjects = b.dist
            /\ evidence.sbom_bundle.predicate = NormalizedSpdx(s, b.dist)
        BY <3>1, FieldsOfStatement
      <4>2. evidence.sbom_bundle.predicate = evidence.sbom
        BY <2>1, <2>6 DEF ValidVerifiedStatement
      <4> QED
        BY <2>2, <2>6, <4>1, <4>2
    <3>4. evidence.sbom = NormalizedSpdx(scan, build.dist) /\ evidence.dist = build.dist
      BY <2>8, <2>10, PredicateOfBundle DEF PredicateDigests
    <3> QED
      BY <3>2, <3>3, <3>4, StatementOfBundle
  <2>13. evidence.provenance_bundle = whole.provenance_bundle
    <3>1. PICK b \in OtherBuilds, s \in Scans :
              evidence.provenance_bundle = Bundle(b, s, OtherRun).provenance_bundle
      BY <2>5, <2>6
    <3>2. evidence.provenance_bundle =
              Attestation("provenance", b.dist, Provenance(OtherRun), OtherRun)
      BY <3>1, StatementOfBundle
    <3>3. b.dist = evidence.dist
      BY <2>2, <2>6, <3>1, FieldsOfStatement
    <3>4. evidence.dist = build.dist
      BY <2>8, PredicateOfBundle
    <3> QED
      BY <3>2, <3>3, <3>4, StatementOfBundle
  <2>14. Listed \ {"raw_trace"} = PredicateDigests \cup BundleFiles \cup
                                      {"dist", "raw_artifacts", "predicate"}
    BY DEF Listed, BuilderWritten, BundleFiles, PredicateDigests
  <2>15. \A file \in Listed \ {"raw_trace"} : evidence[file] = whole[file]
    BY <2>7, <2>8, <2>10, <2>11, <2>12, <2>13, <2>14 DEF BundleFiles
  <2> QED
    BY <2>15 DEF evidence
<1> QED
  BY <1>1, <1>2, RecordsAreSound, SignsInItsName, PTL

---------------------------------------------------------------------------
(* The raw traces: the builder's, the handoff's and the verifier's count.  *)

(* The events the builder derives from a line are those the other two do.  *)
LEMMA SameEvents ==
    ASSUME NEW line
    PROVE  ProcessEvent(line) \cup ObservedFileEvent(line) \cup NetworkEvent(line)
              = DerivedTraceEvents(line)
<1> DEFINE quoted == line.quoted # Unquoted
           operation == IF line.name \in Opens /\ line.writes
                        THEN "write" ELSE FileOperations[line.name]
           process == {<<"process", IF quoted THEN line.quoted ELSE "unknown",
                         OutcomeOf(line)>> : name \in Executions \cap {line.name}}
           file == {<<"file", operation, line.quoted, OutcomeOf(line)>> :
                      name \in IF quoted THEN DOMAIN FileOperations \cap {line.name} ELSE {}}
           network == {<<"network", line.name, line.host, line.port, OutcomeOf(line)>> :
                         name \in IF line.unix THEN {} ELSE NetworkOperations \cap {line.name}}
<1>1. DerivedTraceEvents(line) = process \cup file \cup network
  BY DEF DerivedTraceEvents
<1>2. ProcessEvent(line) = process
  <2>1. CASE line.name \in Executions
    <3>1. Executions \cap {line.name} = {line.name}
      BY <2>1
    <3>2. process = {<<"process", IF quoted THEN line.quoted ELSE "unknown", OutcomeOf(line)>>}
      BY <3>1
    <3> QED
      BY <2>1, <3>2 DEF ProcessEvent
  <2>2. CASE line.name \notin Executions
    <3>1. Executions \cap {line.name} = {}
      BY <2>2
    <3> QED
      BY <2>2, <3>1 DEF ProcessEvent
  <2> QED
    BY <2>1, <2>2
<1>3. ObservedFileEvent(line) = file
  <2>1. CASE line.name \in DOMAIN FileOperations /\ quoted
    <3>1. DOMAIN FileOperations \cap {line.name} = {line.name}
      BY <2>1
    <3>2. file = {<<"file", operation, line.quoted, OutcomeOf(line)>>}
      BY <2>1, <3>1
    <3>3. ObservedFileEvent(line) = {<<"file", operation, line.quoted, OutcomeOf(line)>>}
      BY <2>1 DEF ObservedFileEvent
    <3> QED
      BY <3>2, <3>3
  <2>2. CASE ~(line.name \in DOMAIN FileOperations /\ quoted)
    <3>1. file = {}
      BY <2>2
    <3> QED
      BY <2>2, <3>1 DEF ObservedFileEvent
  <2> QED
    BY <2>1, <2>2
<1>4. NetworkEvent(line) = network
  <2>1. CASE line.name \in NetworkOperations /\ ~line.unix
    <3>1. NetworkOperations \cap {line.name} = {line.name}
      BY <2>1
    <3>2. network = {<<"network", line.name, line.host, line.port, OutcomeOf(line)>>}
      BY <2>1, <3>1
    <3> QED
      BY <2>1, <3>2 DEF NetworkEvent
  <2>2. CASE ~(line.name \in NetworkOperations /\ ~line.unix)
    <3>1. network = {}
      BY <2>2
    <3> QED
      BY <2>2, <3>1 DEF NetworkEvent
  <2> QED
    BY <2>1, <2>2
<1> QED
  BY <1>1, <1>2, <1>3, <1>4

LEMMA LinesAreFinite ==
    ASSUME NEW raw, RawDirectory(raw)
    PROVE  IsFiniteSet(LinesOf(raw))
<1> DEFINE names == DOMAIN raw
           Of(name) == {<<name, i>> : i \in 1..Len(raw[name])}
           files == {Of(name) : name \in names}
<1>1. IsFiniteSet(files)
  <2> DEFINE f == [name \in names |-> Of(name)]
  <2>1. f \in Surjection(names, files)
    BY Fun_IsSurj
  <2> QED
    BY <2>1, FS_Surjection DEF RawDirectory
<1>2. ASSUME NEW lines \in files PROVE IsFiniteSet(lines)
  <2>1. PICK name \in names : lines = Of(name)
    BY <1>2
  <2> DEFINE g == [i \in 1..Len(raw[name]) |-> <<name, i>>]
  <2>2. g \in Surjection(1..Len(raw[name]), lines)
    BY <2>1, Fun_IsSurj
  <2>3. IsFiniteSet(1..Len(raw[name]))
    BY FS_Interval DEF RawDirectory
  <2> QED
    BY <2>2, <2>3, FS_Surjection
<1>3. LinesOf(raw) = UNION files
  BY DEF LinesOf
<1> QED
  BY <1>1, <1>2, <1>3, FS_UNION

(* Each line of a kind (Mine) has one key with the kind's tag, no other    *)
(* line has one, and a trace counts the lines of each key.                 *)
Tagged(Lines, Mine, keysAt, tag, keyOf, trace) ==
    /\ IsFiniteSet(Lines) /\ Mine \in SUBSET Lines
    /\ DOMAIN trace.events = UNION {keysAt[pos] : pos \in Lines}
    /\ \A key \in DOMAIN trace.events :
          trace.events[key] = Cardinality({pos \in Lines : key \in keysAt[pos]})
    /\ \A pos \in Mine : \A key :
          (key \in keysAt[pos] /\ key[1] = tag) <=> key = keyOf[pos]
    /\ \A pos \in Lines \ Mine : \A key \in keysAt[pos] : key[1] # tag

(* Then the counts of those keys add up to the number of those lines.      *)
LEMMA TaggedTotal ==
    ASSUME NEW Lines, NEW Mine, NEW keysAt, NEW tag, NEW keyOf, NEW trace,
           Tagged(Lines, Mine, keysAt, tag, keyOf, trace)
    PROVE  EventsTotal(trace, tag) = Cardinality(Mine)
<1> USE DEF Tagged
<1> DEFINE Count(key) == trace.events[key]
           keys == {key \in DOMAIN trace.events : key[1] = tag}
           At(key) == {pos \in Lines : key \in keysAt[pos]}
           pairs == UNION {{<<key, i>> : i \in 1..Count(key)} : key \in keys}
           b == [key \in keys |-> CHOOSE f : f \in Bijection(1..Count(key), At(key))]
           g == [p \in pairs |-> b[p[1]][p[2]]]
<1>1. \A pos \in Mine : keyOf[pos] \in keys /\ pos \in At(keyOf[pos])
  OBVIOUS
<1>2. ASSUME NEW key \in keys
      PROVE  \A pos \in At(key) : pos \in Mine /\ keyOf[pos] = key
  OBVIOUS
<1>3. ASSUME NEW key \in keys
      PROVE  /\ Count(key) \in Nat
             /\ b[key] \in Bijection(1..Count(key), At(key))
  <2>1. IsFiniteSet(At(key))
    BY FS_Subset
  <2>2. Count(key) = Cardinality(At(key))
    OBVIOUS
  <2>3. ExistsBijection(1..Count(key), At(key)) /\ Count(key) \in Nat
    BY <2>1, <2>2, FS_CardinalityType
  <2> QED
    BY <2>3 DEF ExistsBijection
<1> HIDE DEF b, keys, At, Count
<1>4. ASSUME NEW p \in pairs
      PROVE  p[1] \in keys /\ p[2] \in 1..Count(p[1]) /\ p = <<p[1], p[2]>>
  BY <1>4
<1>5. ASSUME NEW key \in keys, NEW i \in 1..Count(key)
      PROVE  <<key, i>> \in pairs
  BY <1>5
<1> HIDE DEF pairs
<1>6. ASSUME NEW p \in pairs
      PROVE  g[p] \in Mine /\ g[p] \in At(p[1]) /\ keyOf[g[p]] = p[1]
  <2>1. b[p[1]][p[2]] \in At(p[1])
    BY <1>3, <1>4, Fun_BijectionProperties
  <2> QED
    BY <1>2, <1>4, <2>1
<1>7. g \in [pairs -> Mine]
  BY <1>6
<1>8. ASSUME NEW p \in pairs, NEW q \in pairs, g[p] = g[q]
      PROVE  p = q
  <2>1. p[1] = q[1]
    BY <1>6, <1>8
  <2>2. b[p[1]][p[2]] = b[p[1]][q[2]]
    BY <1>8, <2>1
  <2>3. p[2] = q[2]
    BY <1>3, <1>4, <2>1, <2>2, Fun_BijectionProperties
  <2> QED
    BY <1>4, <2>1, <2>3
<1>9. ASSUME NEW pos \in Mine
      PROVE  \E p \in pairs : g[p] = pos
  <2> DEFINE key == keyOf[pos]
  <2>1. key \in keys /\ pos \in At(key)
    BY <1>1
  <2>2. PICK i \in 1..Count(key) : b[key][i] = pos
    BY <1>3, <2>1, Fun_BijectionProperties
  <2>3. <<key, i>> \in pairs
    BY <1>5, <2>1
  <2>4. g[<<key, i>>] = pos
    BY <2>2, <2>3
  <2> QED
    BY <2>3, <2>4
<1>10. g \in Bijection(pairs, Mine)
  BY <1>7, <1>8, <1>9, Fun_IsBij
<1>11. IsFiniteSet(Mine)
  BY FS_Subset
<1>12. ExistsBijection(Mine, pairs)
  BY <1>10, Fun_BijInverse DEF ExistsBijection
<1>13. Cardinality(pairs) = Cardinality(Mine)
  BY <1>11, <1>12, FS_Bijection
<1> QED
  BY <1>13 DEF pairs, keys, Count, EventsTotal

LEMMA DisjointUnion ==
    ASSUME NEW S, NEW T, IsFiniteSet(S), IsFiniteSet(T), S \cap T = {}
    PROVE  /\ IsFiniteSet(S \cup T)
           /\ Cardinality(S \cup T) = Cardinality(S) + Cardinality(T)
<1>1. Cardinality(S \cap T) = 0
  BY FS_EmptySet
<1>2. Cardinality(S) \in Nat /\ Cardinality(T) \in Nat
  BY FS_CardinalityType
<1>3. /\ IsFiniteSet(S \cup T)
      /\ Cardinality(S \cup T) = Cardinality(S) + Cardinality(T) - Cardinality(S \cap T)
  BY FS_Union
<1> QED
  BY <1>1, <1>2, <1>3

(* A line is of one kind: the counts add up.                               *)
LEMMA KindsPartition ==
    ASSUME NEW raw, RawDirectory(raw)
    PROVE  /\ \A kind : CountKind(raw, kind) \in Nat
           /\ Cardinality(LinesOf(raw)) =
                  CountKind(raw, "syscall") + CountKind(raw, "signal")
                      + CountKind(raw, "exit") + CountKind(raw, "other")
<1> DEFINE L == LinesOf(raw)
           Of(kind) == {pos \in L : LineAt(raw, pos).kind = kind}
<1>1. IsFiniteSet(L)
  BY LinesAreFinite
<1>2. \A pos \in L : LineAt(raw, pos).kind \in Kinds
  BY DEF LinesOf, LineAt, RawDirectory
<1>3. \A kind : IsFiniteSet(Of(kind)) /\ Cardinality(Of(kind)) \in Nat
  BY <1>1, FS_Subset, FS_CardinalityType
<1>4. L = ((Of("syscall") \cup Of("signal")) \cup Of("exit")) \cup Of("other")
  BY <1>2 DEF Kinds
<1>5. /\ Of("syscall") \cap Of("signal") = {}
      /\ (Of("syscall") \cup Of("signal")) \cap Of("exit") = {}
      /\ ((Of("syscall") \cup Of("signal")) \cup Of("exit")) \cap Of("other") = {}
  OBVIOUS
<1> HIDE DEF Of
<1>6. /\ IsFiniteSet(Of("syscall") \cup Of("signal"))
      /\ Cardinality(Of("syscall") \cup Of("signal")) =
             Cardinality(Of("syscall")) + Cardinality(Of("signal"))
  BY <1>3, <1>5, DisjointUnion
<1>7. /\ IsFiniteSet((Of("syscall") \cup Of("signal")) \cup Of("exit"))
      /\ Cardinality((Of("syscall") \cup Of("signal")) \cup Of("exit")) =
             Cardinality(Of("syscall") \cup Of("signal")) + Cardinality(Of("exit"))
  BY <1>3, <1>5, <1>6, DisjointUnion
<1>8. Cardinality(L) = Cardinality((Of("syscall") \cup Of("signal")) \cup Of("exit"))
                           + Cardinality(Of("other"))
  BY <1>3, <1>4, <1>5, <1>7, DisjointUnion
<1>9. \A kind : CountKind(raw, kind) = Cardinality(Of(kind))
  BY DEF CountKind, Of
<1> QED
  BY <1>3, <1>6, <1>7, <1>8, <1>9

(* The fields of the trace the builder writes.                             *)
LEMMA TraceFields ==
    ASSUME NEW raw
    PROVE  /\ ParseStraceDirectory(raw).files = Cardinality(DOMAIN raw)
           /\ ParseStraceDirectory(raw).parsed =
                  CountKind(raw, "syscall") + CountKind(raw, "signal")
                      + CountKind(raw, "exit")
           /\ ParseStraceDirectory(raw).syscall = CountKind(raw, "syscall")
           /\ ParseStraceDirectory(raw).signal = CountKind(raw, "signal")
           /\ ParseStraceDirectory(raw).exit = CountKind(raw, "exit")
           /\ ParseStraceDirectory(raw).unparsed = CountKind(raw, "other")
           /\ ParseStraceDirectory(raw).covered <=>
                 /\ DOMAIN raw # {} /\ ParseStraceDirectory(raw).parsed > 0
                 /\ CountKind(raw, "other") = 0
           /\ ParseStraceDirectory(raw).covered \in BOOLEAN
           /\ ParseStraceDirectory(raw).events = DerivedEvents(raw)
<1>1. [pos \in LinesOf(raw) |->
           LET line == LineAt(raw, pos)
           IN  ProcessEvent(line) \cup ObservedFileEvent(line) \cup NetworkEvent(line)]
        = [pos \in LinesOf(raw) |-> DerivedTraceEvents(LineAt(raw, pos))]
  BY SameEvents
<1>2. ParseStraceDirectory(raw).events = DerivedEvents(raw)
  BY <1>1 DEF ParseStraceDirectory, DerivedEvents
<1> QED
  BY <1>2 DEF ParseStraceDirectory

(* Every event is counted, and those of the three counted kinds add up.    *)
LEMMA EventsAddUp ==
    ASSUME NEW raw, RawDirectory(raw), NEW trace, trace.events = DerivedEvents(raw)
    PROVE  /\ \A key \in DOMAIN trace.events : trace.events[key] > 0
           /\ EventsTotal(trace, "syscall") = CountKind(raw, "syscall")
           /\ EventsTotal(trace, "signal") = CountKind(raw, "signal")
           /\ EventsTotal(trace, "process-exit") = CountKind(raw, "exit")
<1> DEFINE L == LinesOf(raw)
           keysAt == [pos \in L |-> KeysOf(LineAt(raw, pos),
                                          DerivedTraceEvents(LineAt(raw, pos)))]
           Of(kind) == {pos \in L : LineAt(raw, pos).kind = kind}
           Count(key) == Cardinality({pos \in L : key \in keysAt[pos]})
           all == UNION {keysAt[pos] : pos \in L}
<1>1. IsFiniteSet(L)
  BY LinesAreFinite
<1>2. trace.events = [key \in all |-> Count(key)]
  BY DEF DerivedEvents, CountEvents
<1>3. ASSUME NEW key \in all PROVE Count(key) > 0
  <2> DEFINE those == {pos \in L : key \in keysAt[pos]}
  <2>1. IsFiniteSet(those)
    BY <1>1, FS_Subset
  <2>2. those # {}
    OBVIOUS
  <2> HIDE DEF those
  <2>3. Cardinality(those) > 0
    BY <2>1, <2>2, FS_EmptySet, FS_CardinalityType
  <2> QED
    BY <2>3 DEF those
<1>4. ASSUME NEW line, NEW key \in DerivedTraceEvents(line)
      PROVE  key[1] \in {"process", "file", "network"}
  BY <1>4 DEF DerivedTraceEvents
<1>5. \A pos \in L : keysAt[pos] = KeysOf(LineAt(raw, pos), DerivedTraceEvents(LineAt(raw, pos)))
  OBVIOUS
<1>6. ASSUME NEW pos \in L, NEW key
      PROVE  /\ LineAt(raw, pos).kind = "syscall" =>
                   ((key \in keysAt[pos] /\ key[1] = "syscall") <=>
                        key = <<"syscall", LineAt(raw, pos).name, OutcomeOf(LineAt(raw, pos))>>)
             /\ LineAt(raw, pos).kind # "syscall" =>
                   (key \in keysAt[pos] => key[1] # "syscall")
  <2>1. CASE LineAt(raw, pos).kind = "syscall"
    <3>1. keysAt[pos] = {<<"syscall", LineAt(raw, pos).name, OutcomeOf(LineAt(raw, pos))>>}
                           \cup DerivedTraceEvents(LineAt(raw, pos))
      BY <1>5, <2>1 DEF KeysOf
    <3> QED
      BY <1>4, <2>1, <3>1
  <2>2. CASE LineAt(raw, pos).kind # "syscall"
    BY <1>5, <2>2 DEF KeysOf
  <2> QED
    BY <2>1, <2>2
<1>7. ASSUME NEW pos \in L, NEW key
      PROVE  /\ LineAt(raw, pos).kind = "signal" =>
                   ((key \in keysAt[pos] /\ key[1] = "signal") <=>
                        key = <<"signal", LineAt(raw, pos).name>>)
             /\ LineAt(raw, pos).kind # "signal" =>
                   (key \in keysAt[pos] => key[1] # "signal")
  <2>1. CASE LineAt(raw, pos).kind = "syscall"
    <3>1. keysAt[pos] = {<<"syscall", LineAt(raw, pos).name, OutcomeOf(LineAt(raw, pos))>>}
                           \cup DerivedTraceEvents(LineAt(raw, pos))
      BY <1>5, <2>1 DEF KeysOf
    <3> QED
      BY <1>4, <2>1, <3>1
  <2>2. CASE LineAt(raw, pos).kind # "syscall"
    BY <1>5, <2>2 DEF KeysOf
  <2> QED
    BY <2>1, <2>2
<1>8. ASSUME NEW pos \in L, NEW key
      PROVE  /\ LineAt(raw, pos).kind = "exit" =>
                   ((key \in keysAt[pos] /\ key[1] = "process-exit") <=>
                        key = <<"process-exit", LineAt(raw, pos).name>>)
             /\ LineAt(raw, pos).kind # "exit" =>
                   (key \in keysAt[pos] => key[1] # "process-exit")
  <2>1. CASE LineAt(raw, pos).kind = "syscall"
    <3>1. keysAt[pos] = {<<"syscall", LineAt(raw, pos).name, OutcomeOf(LineAt(raw, pos))>>}
                           \cup DerivedTraceEvents(LineAt(raw, pos))
      BY <1>5, <2>1 DEF KeysOf
    <3> QED
      BY <1>4, <2>1, <3>1
  <2>2. CASE LineAt(raw, pos).kind # "syscall"
    BY <1>5, <2>2 DEF KeysOf
  <2> QED
    BY <2>1, <2>2
<1>9. /\ DOMAIN trace.events = all
      /\ \A key \in all : trace.events[key] = Cardinality({pos \in L : key \in keysAt[pos]})
  BY <1>2
<1>10. \A kind : CountKind(raw, kind) = Cardinality(Of(kind))
  BY DEF CountKind
<1> HIDE DEF L, keysAt
<1>11. EventsTotal(trace, "syscall") = Cardinality(Of("syscall"))
  <2> DEFINE keyOf == [pos \in L |-> <<"syscall", LineAt(raw, pos).name, OutcomeOf(LineAt(raw, pos))>>]
  <2>1. \A pos \in Of("syscall") : \A key :
            (key \in keysAt[pos] /\ key[1] = "syscall") <=> key = keyOf[pos]
    BY <1>6
  <2>2. \A pos \in L \ Of("syscall") : \A key \in keysAt[pos] : key[1] # "syscall"
    BY <1>6
  <2> HIDE DEF keyOf
  <2>3. Tagged(L, Of("syscall"), keysAt, "syscall", keyOf, trace)
    BY <1>1, <1>9, <2>1, <2>2 DEF Tagged
  <2> HIDE DEF Of
  <2> QED
    BY <2>3, TaggedTotal
<1>12. EventsTotal(trace, "signal") = Cardinality(Of("signal"))
  <2> DEFINE keyOf == [pos \in L |-> <<"signal", LineAt(raw, pos).name>>]
  <2>1. \A pos \in Of("signal") : \A key :
            (key \in keysAt[pos] /\ key[1] = "signal") <=> key = keyOf[pos]
    BY <1>7
  <2>2. \A pos \in L \ Of("signal") : \A key \in keysAt[pos] : key[1] # "signal"
    BY <1>7
  <2> HIDE DEF keyOf
  <2>3. Tagged(L, Of("signal"), keysAt, "signal", keyOf, trace)
    BY <1>1, <1>9, <2>1, <2>2 DEF Tagged
  <2> HIDE DEF Of
  <2> QED
    BY <2>3, TaggedTotal
<1>13. EventsTotal(trace, "process-exit") = Cardinality(Of("exit"))
  <2> DEFINE keyOf == [pos \in L |-> <<"process-exit", LineAt(raw, pos).name>>]
  <2>1. \A pos \in Of("exit") : \A key :
            (key \in keysAt[pos] /\ key[1] = "process-exit") <=> key = keyOf[pos]
    BY <1>8
  <2>2. \A pos \in L \ Of("exit") : \A key \in keysAt[pos] : key[1] # "process-exit"
    BY <1>8
  <2> HIDE DEF keyOf
  <2>3. Tagged(L, Of("exit"), keysAt, "process-exit", keyOf, trace)
    BY <1>1, <1>9, <2>1, <2>2 DEF Tagged
  <2> HIDE DEF Of
  <2> QED
    BY <2>3, TaggedTotal
<1> QED
  BY <1>2, <1>3, <1>10, <1>11, <1>12, <1>13

(* The three reductions agree on every raw trace.                          *)
THEOREM ReductionsAlwaysAgree ==
    ASSUME NEW raw, RawDirectory(raw)
    PROVE  ReductionsAgree(raw)
<1> DEFINE trace == ParseStraceDirectory(raw)
           counts == VerifyRawTraceRecords(raw)
           accepted == ValidTrace(trace) /\ ValidRawTraceFiles(raw, trace)
           good == /\ trace.covered /\ trace.syscall > 0
                   /\ Decodes(raw) /\ DOMAIN raw \subseteq TraceNames
<1>1. trace.events = DerivedEvents(raw)
  BY TraceFields
<1>2. /\ \A key \in DOMAIN trace.events : trace.events[key] > 0
      /\ EventsTotal(trace, "syscall") = CountKind(raw, "syscall")
      /\ EventsTotal(trace, "signal") = CountKind(raw, "signal")
      /\ EventsTotal(trace, "process-exit") = CountKind(raw, "exit")
  BY <1>1, EventsAddUp
<1>3. /\ trace.files = Cardinality(DOMAIN raw)
      /\ trace.parsed = CountKind(raw, "syscall") + CountKind(raw, "signal")
                            + CountKind(raw, "exit")
      /\ trace.syscall = CountKind(raw, "syscall")
      /\ trace.signal = CountKind(raw, "signal")
      /\ trace.exit = CountKind(raw, "exit")
      /\ trace.unparsed = CountKind(raw, "other")
      /\ trace.covered <=> /\ DOMAIN raw # {} /\ trace.parsed > 0
                           /\ CountKind(raw, "other") = 0
  BY TraceFields
<1>4. /\ CountKind(raw, "syscall") \in Nat /\ CountKind(raw, "signal") \in Nat
      /\ CountKind(raw, "exit") \in Nat /\ CountKind(raw, "other") \in Nat
      /\ Cardinality(LinesOf(raw)) =
             CountKind(raw, "syscall") + CountKind(raw, "signal")
                 + CountKind(raw, "exit") + CountKind(raw, "other")
  BY KindsPartition
<1>5. DOMAIN raw # {} => Cardinality(DOMAIN raw) > 0 /\ Cardinality(DOMAIN raw) \in Nat
  BY FS_EmptySet, FS_CardinalityType DEF RawDirectory
<1>6. /\ DOMAIN counts = {"files", "parsed", "syscall", "signal", "exit", "events"}
      /\ counts.files = Cardinality(DOMAIN raw) /\ counts.parsed = Cardinality(LinesOf(raw))
      /\ counts.syscall = CountKind(raw, "syscall")
      /\ counts.signal = CountKind(raw, "signal")
      /\ counts.exit = CountKind(raw, "exit")
      /\ counts.events = DerivedEvents(raw)
  BY DEF VerifyRawTraceRecords
<1> HIDE DEF trace, counts
<1>7. accepted => good
  BY DEF ValidTrace, ValidRawTraceFiles
<1>8. good => accepted
  BY <1>1, <1>2, <1>3, <1>4, <1>5 DEF ValidTrace, ValidRawTraceFiles
<1>9. good => ~RawTraceRefused(raw) /\ ValidCompleteTrace(trace, counts)
  BY <1>1, <1>3, <1>4, <1>5, <1>6 DEF RawTraceRefused, ValidCompleteTrace
<1>10. ~RawTraceRefused(raw) /\ ValidCompleteTrace(trace, counts) => good
  BY DEF RawTraceRefused, ValidCompleteTrace
<1> QED
  BY <1>7, <1>8, <1>9, <1>10 DEF ReductionsAgree, trace, counts

(* For any raw traces: what the builder, the handoff and the verifier each *)
(* make of one is the same, and the handoff and the verifier accept the    *)
(* same ones.                                                              *)
THEOREM TracesAreReducedAlike == Spec => []TraceReductionsAgree
<1>1. TraceReductionsAgree
  BY ReductionsAlwaysAgree, EvidenceAssumption DEF TraceReductionsAgree
<1> QED
  BY <1>1, PTL

---------------------------------------------------------------------------
(* The undisturbed first attempt.  What is known of the workflow at each   *)
(* of its steps, of any build: which files are in the directory and in the *)
(* last upload, which the current command has read at least once and at    *)
(* least twice, and which of the two checks that can fail were passed.     *)

Sealed == BuilderWritten \cup {"trusted", "seal"}
Described == Sealed \cup {"syft", "sbom", "spdx_report"}
Checks == {"sealable", "output"}

Known(have, kept, once, twice, passed) ==
    [have |-> have, kept |-> kept, once |-> once, twice |-> twice, passed |-> passed]

(* The files a step adds, and what is known after it.                      *)
Adds(step) ==
    CASE step.op \in {"write", "create"} -> {step.of}
      [] step.op = "attest" -> {BundleFile(step.of)}
      [] step.op = "scan" -> {"syft"}
      [] OTHER -> {}

Follows(step, a, b) ==
    /\ b.have = CASE step.op = "build" -> BuilderWritten
                  [] step.op = "upload" -> {}
                  [] step.op = "download" -> a.kept
                  [] OTHER -> a.have \cup Adds(step)
    /\ b.kept = IF step.op = "upload" THEN a.have ELSE a.kept
    /\ b.once \subseteq CASE step.op \in {"begin", "download"} -> {}
                          [] step.op = "read" -> a.once \cup {step.of}
                          [] OTHER -> a.once
    /\ b.twice \subseteq CASE step.op \in {"begin", "download"} -> {}
                           [] step.op = "read" -> a.twice \cup (a.once \cap {step.of})
                           [] OTHER -> a.twice
    /\ b.passed \subseteq a.passed \cup {check \in Checks : step.op = "check" /\ step.of = check}

(* What a file is made from, what a check looks at, and what a step needs. *)
MadeFrom(file, a) ==
    CASE file = "trusted" -> "sealable" \in a.passed
      [] file = "seal" -> "sealable" \in a.passed /\ {"trusted", "raw_trace"} \subseteq a.once
      [] file \in {"sbom", "spdx_report"} -> {"syft", "dist"} \subseteq a.once
      [] file = "subjects" -> "artifact_inventory" \in a.once
      [] file = "predicate" -> PredicateDigests \subseteq a.once
      [] file = "manifest" -> Listed \subseteq a.once
      [] OTHER -> TRUE

CheckedOn(check, a) ==
    CASE check = "unsealed" -> a.have \cap {"trusted", "seal"} = {}
      [] check = "sealable" ->
             /\ BuilderWritten \subseteq a.have
             /\ {"raw_trace", "source_inventory", "builder"} \subseteq a.once
      [] check = "output" ->
             /\ BuilderWritten \subseteq a.have /\ Sealed \subseteq a.once
             /\ {"trusted", "source_inventory", "raw_trace", "dist", "transforms",
                 "raw_artifacts"} \subseteq a.twice
      [] check = "spdx" -> {"syft", "sbom", "spdx_report", "dist"} \subseteq a.once
      [] check = "subjects" -> {"subjects", "artifact_inventory"} \subseteq a.once
      [] check = "current_subjects" -> {"subjects", "dist"} \subseteq a.once
      [] check = "bundles" -> BundleFiles \subseteq a.have
      [] check = "manifest" -> Listed \subseteq a.once /\ "manifest" \in a.have
      [] OTHER -> FALSE

Possible(step, a) ==
    CASE step.op = "read" -> step.of \in a.have
      [] step.op = "create" -> step.of \notin a.have /\ MadeFrom(step.of, a)
      [] step.op = "write" -> MadeFrom(step.of, a)
      [] step.op = "check" -> CheckedOn(step.of, a)
      [] step.op = "attest" -> {"subjects", "sbom", "predicate"} \subseteq a.have
      [] step.op = "build" -> a.have = {} /\ a.kept = {} /\ a.passed = {}
      [] step.op = "scan" -> a.have \cup a.kept \subseteq Sealed
      [] step.op = "upload" -> a.kept \subseteq a.have
      [] step.op = "finish" -> a.have = File /\ a.passed = Checks
      [] OTHER -> TRUE


(* The steps, each possible, take what is known from a to b.               *)
Leads(steps, t, a, b) ==
    /\ t[1] = a /\ t[Len(steps) + 1] = b
    /\ \A i \in 1..Len(steps) : /\ Possible(steps[i], t[i])
                                /\ Follows(steps[i], t[i], t[i + 1])
Flow(steps, a, b) == steps \in Seq(Typed) /\ \E t : Leads(steps, t, a, b)

(* Such steps can be put one after another.                                *)
LEMMA Then ==
    ASSUME NEW s, NEW u, NEW a, NEW b, NEW c, Flow(s, a, b), Flow(u, b, c)
    PROVE  Flow(s \o u, a, c)
<1>1. /\ s \in Seq(Typed) /\ u \in Seq(Typed)
      /\ s \o u \in Seq(Typed) /\ Len(s \o u) = Len(s) + Len(u)
      /\ Len(s) \in Nat /\ Len(u) \in Nat
  BY DEF Flow
<1>2. PICK t : Leads(s, t, a, b)
  BY DEF Flow
<1>3. PICK v : Leads(u, v, b, c)
  BY DEF Flow
<1> DEFINE m == Len(s)
           n == Len(u)
           w == [i \in 1..(m + n + 1) |-> IF i <= m THEN t[i] ELSE v[i - m]]
<1>4. ASSUME NEW i \in 1..m PROVE (s \o u)[i] = s[i]
  BY <1>1
<1>5. ASSUME NEW i \in 1..n PROVE (s \o u)[m + i] = u[i]
  BY <1>1
<1>6. \A i \in 1..(m + 1) : w[i] = t[i]
  BY <1>1, <1>2, <1>3 DEF Leads
<1>7. \A i \in 1..(n + 1) : w[m + i] = v[i]
  BY <1>1
<1>8. w[1] = a /\ w[m + n + 1] = c
  <2>1. 1 \in 1..(m + 1) /\ n + 1 \in 1..(n + 1) /\ m + (n + 1) = m + n + 1
    BY <1>1
  <2> QED
    BY <1>2, <1>3, <1>6, <1>7, <2>1 DEF Leads
<1> HIDE DEF w
<1>9. ASSUME NEW i \in 1..(m + n)
      PROVE  Possible((s \o u)[i], w[i]) /\ Follows((s \o u)[i], w[i], w[i + 1])
  <2>1. CASE i \in 1..m
    <3>1. i \in 1..(m + 1) /\ i + 1 \in 1..(m + 1)
      BY <1>1, <2>1
    <3>2. w[i] = t[i] /\ w[i + 1] = t[i + 1] /\ (s \o u)[i] = s[i]
      BY <1>4, <1>6, <2>1, <3>1
    <3> QED
      BY <1>2, <2>1, <3>2 DEF Leads
  <2>2. CASE i \notin 1..m
    <3> DEFINE j == i - m
    <3>1. j \in 1..n /\ j \in 1..(n + 1) /\ j + 1 \in 1..(n + 1) /\ i = m + j
          /\ i + 1 = m + (j + 1)
      BY <1>1, <2>2
    <3> HIDE DEF j
    <3>2. w[i] = v[j] /\ w[i + 1] = v[j + 1] /\ (s \o u)[i] = u[j]
      BY <1>5, <1>7, <3>1
    <3> QED
      BY <1>3, <3>1, <3>2 DEF Leads
  <2> QED
    BY <2>1, <2>2
<1>10. Leads(s \o u, w, a, c)
  BY <1>1, <1>8, <1>9 DEF Leads
<1> QED
  BY <1>1, <1>10 DEF Flow

(* One step.                                                               *)
LEMMA OneStep ==
    ASSUME NEW op, NEW of, NEW a, NEW b, [op |-> op, of |-> of] \in Typed,
           Possible([op |-> op, of |-> of], a), Follows([op |-> op, of |-> of], a, b)
    PROVE  Flow(Step(op, of), a, b)
<1> DEFINE t == <<a, b>>
<1>1. /\ Step(op, of) \in Seq(Typed) /\ Len(Step(op, of)) = 1
      /\ Step(op, of)[1] = [op |-> op, of |-> of]
  BY DEF Step
<1>2. t[1] = a /\ t[2] = b
  OBVIOUS
<1> HIDE DEF t
<1>3. Leads(Step(op, of), t, a, b)
  BY <1>1, <1>2 DEF Leads
<1> QED
  BY <1>1, <1>3 DEF Flow

(* Less may be remembered.                                                 *)
LEMMA Weaker ==
    ASSUME NEW steps, NEW a, NEW b, NEW c, Flow(steps, a, b), Len(steps) > 0,
           c.have = b.have, c.kept = b.kept, c.once \subseteq b.once,
           c.twice \subseteq b.twice, c.passed \subseteq b.passed
    PROVE  Flow(steps, a, c)
<1>1. steps \in Seq(Typed) /\ Len(steps) \in Nat
  BY DEF Flow
<1>2. PICK t : Leads(steps, t, a, b)
  BY DEF Flow
<1> DEFINE n == Len(steps)
           w == [i \in 1..(n + 1) |-> IF i = n + 1 THEN c ELSE t[i]]
<1>3. w[n + 1] = c /\ \A i \in 1..n : w[i] = t[i] /\ i # n + 1
  BY <1>1
<1> HIDE DEF w
<1>4. w[1] = a
  BY <1>1, <1>2, <1>3 DEF Leads
<1>5. ASSUME NEW i \in 1..n
      PROVE  Possible(steps[i], w[i]) /\ Follows(steps[i], w[i], w[i + 1])
  <2>1. w[i] = t[i] /\ Possible(steps[i], t[i]) /\ Follows(steps[i], t[i], t[i + 1])
    BY <1>2, <1>3 DEF Leads
  <2>2. CASE i = n
    <3>1. w[i + 1] = c /\ t[i + 1] = b
      BY <1>2, <1>3, <2>2 DEF Leads
    <3>2. Follows(steps[i], t[i], c)
      BY <2>1, <3>1 DEF Follows
    <3> QED
      BY <2>1, <3>1, <3>2
  <2>3. CASE i # n
    <3>1. i + 1 \in 1..n
      BY <1>1, <2>3
    <3> QED
      BY <1>3, <2>1, <3>1
  <2> QED
    BY <2>2, <2>3
<1>6. Leads(steps, w, a, c)
  BY <1>1, <1>3, <1>4, <1>5 DEF Leads
<1> QED
  BY <1>1, <1>6 DEF Flow

(* A sequence of readings, of files that are there.                        *)
ReadIn(files) == {files[i] : i \in 1..Len(files)}
ReadAgain(files) ==
    {file \in File : \E j, k \in 1..Len(files) : j < k /\ files[j] = file /\ files[k] = file}

LEMMA ReadingsFlow ==
    ASSUME NEW files \in Seq(File), NEW have, NEW kept, NEW once, NEW twice, NEW passed,
           ReadIn(files) \subseteq have
    PROVE  Flow(Reads(files), Known(have, kept, once, twice, passed),
                Known(have, kept, once \cup ReadIn(files), twice \cup ReadAgain(files), passed))
<1> DEFINE n == Len(files)
           Before(i) == {files[j] : j \in 1..(i - 1)}
           Again(i) == {file \in File : \E j, k \in 1..(i - 1) :
                                 j < k /\ files[j] = file /\ files[k] = file}
           t == [i \in 1..(n + 1) |->
                    Known(have, kept, once \cup Before(i), twice \cup Again(i), passed)]
<1>1. /\ n \in Nat /\ Len(Reads(files)) = n
      /\ Reads(files) \in Seq(Typed)
      /\ \A i \in 1..n : Reads(files)[i] = ReadOf(files[i])
  <2>1. /\ n \in Nat /\ Len(Reads(files)) = n
        /\ \A i \in 1..n : Reads(files)[i] = ReadOf(files[i])
    BY DEF Reads, ReadOf
  <2>2. Reads(files) \in Seq(Typed)
    BY StepsArePlain DEF ManifestIsRead
  <2> QED
    BY <2>1, <2>2
<1>2. t[1] = Known(have, kept, once, twice, passed)
  <2>1. Before(1) = {} /\ Again(1) = {} /\ 1 \in 1..(n + 1)
    BY <1>1
  <2>2. once \cup Before(1) = once /\ twice \cup Again(1) = twice
    BY <2>1
  <2> QED
    BY <2>1, <2>2
<1>3. t[n + 1] = Known(have, kept, once \cup ReadIn(files), twice \cup ReadAgain(files), passed)
  <2>1. (n + 1) - 1 = n /\ n + 1 \in 1..(n + 1)
    BY <1>1
  <2>2. Before(n + 1) = ReadIn(files) /\ Again(n + 1) = ReadAgain(files)
    BY <2>1 DEF ReadIn, ReadAgain
  <2> QED
    BY <2>1, <2>2
<1>4. ASSUME NEW i \in 1..n
      PROVE  /\ Possible(Reads(files)[i], t[i])
             /\ Follows(Reads(files)[i], t[i], t[i + 1])
  <2>1. i \in 1..(n + 1) /\ i + 1 \in 1..(n + 1) /\ (i + 1) - 1 = i /\ i \in Nat
    BY <1>1
  <2>2. /\ t[i] = Known(have, kept, once \cup Before(i), twice \cup Again(i), passed)
        /\ t[i + 1] = Known(have, kept, once \cup Before(i + 1), twice \cup Again(i + 1), passed)
    BY <2>1
  <2>3. Before(i + 1) \subseteq Before(i) \cup {files[i]}
    <3>1. \A j \in 1..i : j = i \/ j \in 1..(i - 1)
      BY <2>1
    <3> QED
      BY <2>1, <3>1
  <2>4. Again(i + 1) \subseteq Again(i) \cup (Before(i) \cap {files[i]})
    <3> SUFFICES ASSUME NEW file \in Again(i + 1), file \notin Again(i)
                 PROVE  file = files[i] /\ file \in Before(i)
      OBVIOUS
    <3>1. PICK j, k \in 1..i : j < k /\ files[j] = file /\ files[k] = file
      BY <2>1
    <3>2. j \in 1..(i - 1) /\ (k = i \/ k \in 1..(i - 1))
      BY <2>1, <3>1
    <3> QED
      BY <3>1, <3>2
  <2>5. files[i] \in have
    BY DEF ReadIn
  <2> HIDE DEF t, Before, Again
  <2>6. Reads(files)[i] = ReadOf(files[i])
    BY <1>1
  <2>7. /\ t[i].have = have /\ t[i].kept = kept /\ t[i].passed = passed
        /\ t[i].once = once \cup Before(i) /\ t[i].twice = twice \cup Again(i)
        /\ t[i + 1].have = have /\ t[i + 1].kept = kept /\ t[i + 1].passed = passed
        /\ t[i + 1].once = once \cup Before(i + 1)
        /\ t[i + 1].twice = twice \cup Again(i + 1)
    BY <2>2 DEF Known
  <2>8. Possible(ReadOf(files[i]), t[i])
    BY <2>5, <2>7 DEF Possible, ReadOf
  <2>9. Follows(ReadOf(files[i]), t[i], t[i + 1])
    BY <2>3, <2>4, <2>7 DEF Follows, ReadOf, Adds
  <2> QED
    BY <2>6, <2>8, <2>9
<1> HIDE DEF t
<1>5. Leads(Reads(files), t, Known(have, kept, once, twice, passed),
            Known(have, kept, once \cup ReadIn(files), twice \cup ReadAgain(files), passed))
  BY <1>1, <1>2, <1>3, <1>4 DEF Leads
<1> QED
  BY <1>1, <1>5 DEF Flow

(* What is known between the parts of a command.                           *)
K(have, kept, once, passed) == Known(have, kept, once, {}, passed)

LEMMA FieldsKnown ==
    ASSUME NEW have, NEW kept, NEW once, NEW twice, NEW passed
    PROVE  /\ Known(have, kept, once, twice, passed).have = have
           /\ Known(have, kept, once, twice, passed).kept = kept
           /\ Known(have, kept, once, twice, passed).once = once
           /\ Known(have, kept, once, twice, passed).twice = twice
           /\ Known(have, kept, once, twice, passed).passed = passed
BY DEF Known

(* The steps a command is made of.                                         *)
LEMMA BeginFlow ==
    ASSUME NEW have, NEW kept, NEW once, NEW passed
    PROVE  Flow(Step("begin", "command"), K(have, kept, once, passed), K(have, kept, {}, passed))
<1> DEFINE step == [op |-> "begin", of |-> "command"]
<1>1. step \in Typed
  BY DEF Typed, Plain, Names
<1>2. Possible(step, K(have, kept, once, passed))
  BY DEF Possible
<1>3. Follows(step, K(have, kept, once, passed), K(have, kept, {}, passed))
  BY DEF Follows, Adds, K, Known
<1> QED
  BY <1>1, <1>2, <1>3, OneStep

LEMMA CommandFlow ==
    ASSUME NEW steps, NEW have, NEW kept, NEW once, NEW passed, NEW c,
           Flow(steps, K(have, kept, {}, passed), c)
    PROVE  Flow(Command(steps), K(have, kept, once, passed), c)
BY BeginFlow, Then DEF Command

LEMMA ReadSome ==
    ASSUME NEW files \in Seq(File), Len(files) > 0, NEW have, NEW kept, NEW once, NEW passed,
           ReadIn(files) \subseteq have, NEW more, more \subseteq once \cup ReadIn(files)
    PROVE  Flow(Reads(files), K(have, kept, once, passed), K(have, kept, more, passed))
<1> DEFINE b == Known(have, kept, once \cup ReadIn(files), {} \cup ReadAgain(files), passed)
<1>1. Flow(Reads(files), K(have, kept, once, passed), b)
  BY ReadingsFlow DEF K
<1>2. /\ b.have = have /\ b.kept = kept /\ b.once = once \cup ReadIn(files)
      /\ b.passed = passed
  BY FieldsKnown
<1>3. Len(Reads(files)) > 0
  BY DEF Reads
<1> HIDE DEF b
<1> QED
  BY <1>1, <1>2, <1>3, Weaker, FieldsKnown DEF K

LEMMA CheckFlow ==
    ASSUME NEW check \in Names, NEW have, NEW kept, NEW once, NEW twice, NEW passed,
           CheckedOn(check, Known(have, kept, once, twice, passed)),
           NEW more, more \subseteq passed \cup (Checks \cap {check})
    PROVE  Flow(Step("check", check), Known(have, kept, once, twice, passed),
                K(have, kept, once, more))
<1> DEFINE step == [op |-> "check", of |-> check]
           a == Known(have, kept, once, twice, passed)
           b == K(have, kept, once, more)
<1>1. step \in Typed
  BY DEF Typed, Plain
<1>2. Possible(step, a)
  BY DEF Possible
<1>3. /\ a.have = have /\ a.kept = kept /\ a.once = once /\ a.twice = twice /\ a.passed = passed
      /\ b.have = have /\ b.kept = kept /\ b.once = once /\ b.twice = {} /\ b.passed = more
  BY FieldsKnown DEF K
<1> HIDE DEF a, b
<1>4. Follows(step, a, b)
  BY <1>3 DEF Follows, Adds
<1> QED
  BY <1>1, <1>2, <1>4, OneStep DEF a, b

LEMMA MakeFlow ==
    ASSUME NEW op \in {"create", "write"}, NEW file \in MadeFiles \cup {"manifest"},
           file = "manifest" => op = "write",
           NEW have, NEW kept, NEW once, NEW passed,
           op = "create" => file \notin have,
           MadeFrom(file, K(have, kept, once, passed))
    PROVE  Flow(Step(op, file), K(have, kept, once, passed),
                K(have \cup {file}, kept, once, passed))
<1> DEFINE step == [op |-> op, of |-> file]
           a == K(have, kept, once, passed)
           b == K(have \cup {file}, kept, once, passed)
<1>1. step \in Typed
  BY DEF Typed, Plain, WriteManifest
<1>2. /\ a.have = have /\ a.kept = kept /\ a.once = once /\ a.twice = {} /\ a.passed = passed
      /\ b.have = have \cup {file} /\ b.kept = kept /\ b.once = once /\ b.twice = {}
      /\ b.passed = passed
  BY FieldsKnown DEF K
<1> HIDE DEF a, b
<1>3. Possible(step, a)
  BY <1>2 DEF Possible, a
<1>4. Follows(step, a, b)
  BY <1>2 DEF Follows, Adds
<1> QED
  BY <1>1, <1>3, <1>4, OneStep DEF a, b

(* What the three jobs do besides running commands.                        *)
LEMMA JobSteps ==
    /\ \A op \in {"build", "upload", "download", "finish"} : [op |-> op, of |-> "job"] \in Typed
    /\ [op |-> "scan", of |-> "syft"] \in Typed
BY DEF Typed, Plain, Names

LEMMA BuildFlow == Flow(Step("build", "job"), K({}, {}, {}, {}), K(BuilderWritten, {}, {}, {}))
<1>1. Possible([op |-> "build", of |-> "job"], K({}, {}, {}, {}))
  BY DEF Possible, K, Known
<1>2. Follows([op |-> "build", of |-> "job"], K({}, {}, {}, {}), K(BuilderWritten, {}, {}, {}))
  BY DEF Follows, K, Known
<1> QED
  BY <1>1, <1>2, JobSteps, OneStep

LEMMA ScanFlow ==
    ASSUME NEW have, NEW kept, NEW once, NEW passed, have \cup kept \subseteq Sealed
    PROVE  Flow(Step("scan", "syft"), K(have, kept, once, passed),
                K(have \cup {"syft"}, kept, once, passed))
<1>1. Possible([op |-> "scan", of |-> "syft"], K(have, kept, once, passed))
  BY DEF Possible, K, Known
<1>2. Follows([op |-> "scan", of |-> "syft"], K(have, kept, once, passed),
              K(have \cup {"syft"}, kept, once, passed))
  BY DEF Follows, Adds, K, Known
<1> QED
  BY <1>1, <1>2, JobSteps, OneStep

LEMMA UploadFlow ==
    ASSUME NEW have, NEW kept, NEW once, NEW passed, kept \subseteq have
    PROVE  Flow(Step("upload", "job"), K(have, kept, once, passed), K({}, have, {}, passed))
<1>1. Possible([op |-> "upload", of |-> "job"], K(have, kept, once, passed))
  BY DEF Possible, K, Known
<1>2. Follows([op |-> "upload", of |-> "job"], K(have, kept, once, passed),
              K({}, have, {}, passed))
  BY DEF Follows, Adds, K, Known
<1> QED
  BY <1>1, <1>2, JobSteps, OneStep

LEMMA DownloadFlow ==
    ASSUME NEW have, NEW kept, NEW once, NEW passed
    PROVE  Flow(Step("download", "job"), K(have, kept, once, passed), K(kept, kept, {}, passed))
<1>1. Possible([op |-> "download", of |-> "job"], K(have, kept, once, passed))
  BY DEF Possible
<1>2. Follows([op |-> "download", of |-> "job"], K(have, kept, once, passed),
              K(kept, kept, {}, passed))
  BY DEF Follows, Adds, K, Known
<1> QED
  BY <1>1, <1>2, JobSteps, OneStep

LEMMA FinishFlow ==
    ASSUME NEW kept, NEW once
    PROVE  Flow(Step("finish", "job"), K(File, kept, once, Checks), K(File, kept, once, Checks))
<1>1. Possible([op |-> "finish", of |-> "job"], K(File, kept, once, Checks))
  BY DEF Possible, K, Known
<1>2. Follows([op |-> "finish", of |-> "job"], K(File, kept, once, Checks),
              K(File, kept, once, Checks))
  BY DEF Follows, Adds, K, Known
<1> QED
  BY <1>1, <1>2, JobSteps, OneStep

LEMMA AttestFlow ==
    ASSUME NEW role \in Roles, NEW have, NEW kept, NEW once, NEW passed,
           {"subjects", "sbom", "predicate"} \subseteq have
    PROVE  Flow(Step("attest", role), K(have, kept, once, passed),
                K(have \cup {BundleFile(role)}, kept, once, passed))
<1> DEFINE step == [op |-> "attest", of |-> role]
           a == K(have, kept, once, passed)
           b == K(have \cup {BundleFile(role)}, kept, once, passed)
<1>1. step \in Typed
  BY DEF Typed, Plain
<1>2. /\ a.have = have /\ a.kept = kept /\ a.once = once /\ a.twice = {} /\ a.passed = passed
      /\ b.have = have \cup {BundleFile(role)} /\ b.kept = kept /\ b.once = once /\ b.twice = {}
      /\ b.passed = passed
  BY FieldsKnown DEF K
<1> HIDE DEF a, b
<1>3. Possible(step, a)
  BY <1>2 DEF Possible
<1>4. Follows(step, a, b)
  BY <1>2 DEF Follows, Adds
<1> QED
  BY <1>1, <1>3, <1>4, OneStep DEF a, b

(* The validations, whose order of reading decides what was read twice.    *)
LEMMA ReadTwice ==
    ASSUME NEW files \in Seq(File), NEW j \in 1..Len(files), NEW k \in 1..Len(files),
           j < k, files[j] = files[k]
    PROVE  files[j] \in ReadAgain(files)
BY DEF ReadAgain

LEMMA FilesRead ==
    /\ ValidationReads \in Seq(File) /\ ReadIn(ValidationReads) = Sealed
    /\ {"trusted", "source_inventory", "raw_trace", "dist", "transforms", "raw_artifacts"}
          \subseteq ReadAgain(ValidationReads)
    /\ SpdxReads \in Seq(File) /\ Len(SpdxReads) = 3
    /\ ReadIn(SpdxReads) = {"syft", "sbom", "spdx_report"}
    /\ ManifestReads \in Seq(File) /\ Len(ManifestReads) = 18
    /\ ReadIn(ManifestReads) = Listed
<1>1. /\ ValidationReads \in Seq(File) /\ SpdxReads \in Seq(File) /\ ManifestReads \in Seq(File)
      /\ Len(ValidationReads) = 16 /\ Len(SpdxReads) = 3 /\ Len(ManifestReads) = 18
  BY DEF ValidationReads, SpdxReads, ManifestReads, File, Listed, BuilderWritten, BundleFiles
<1>2. ReadIn(SpdxReads) = {"syft", "sbom", "spdx_report"}
  BY <1>1 DEF ReadIn, SpdxReads
<1>3. ReadIn(ValidationReads) = Sealed
  <2>1. \A i \in 1..16 : ValidationReads[i] \in Sealed
    BY DEF ValidationReads, Sealed, BuilderWritten
  <2>2. \A file \in Sealed : \E i \in 1..16 : ValidationReads[i] = file
    BY DEF ValidationReads, Sealed, BuilderWritten
  <2> QED
    BY <1>1, <2>1, <2>2 DEF ReadIn
<1>4. ReadIn(ManifestReads) = Listed
  <2>1. \A i \in 1..18 : ManifestReads[i] \in Listed
    BY DEF ManifestReads, Listed, BuilderWritten, BundleFiles
  <2>2. \A file \in Listed : \E i \in 1..18 : ManifestReads[i] = file
    BY DEF ManifestReads, Listed, BuilderWritten, BundleFiles
  <2> QED
    BY <1>1, <2>1, <2>2 DEF ReadIn
<1>5. /\ "trusted" \in ReadAgain(ValidationReads)
      /\ "source_inventory" \in ReadAgain(ValidationReads)
      /\ "raw_trace" \in ReadAgain(ValidationReads)
  <2>1. /\ ValidationReads[3] = "trusted" /\ ValidationReads[5] = "trusted"
        /\ ValidationReads[2] = "source_inventory" /\ ValidationReads[6] = "source_inventory"
        /\ ValidationReads[7] = "raw_trace" /\ ValidationReads[16] = "raw_trace"
    BY DEF ValidationReads
  <2>2. /\ ValidationReads[3] \in ReadAgain(ValidationReads)
        /\ ValidationReads[2] \in ReadAgain(ValidationReads)
        /\ ValidationReads[7] \in ReadAgain(ValidationReads)
    <3>1. ValidationReads[3] \in ReadAgain(ValidationReads)
      BY <1>1, <2>1, ReadTwice, 3 \in 1..16, 5 \in 1..16, 3 < 5
    <3>2. ValidationReads[2] \in ReadAgain(ValidationReads)
      BY <1>1, <2>1, ReadTwice, 2 \in 1..16, 6 \in 1..16, 2 < 6
    <3>3. ValidationReads[7] \in ReadAgain(ValidationReads)
      BY <1>1, <2>1, ReadTwice, 7 \in 1..16, 16 \in 1..16, 7 < 16
    <3> QED
      BY <3>1, <3>2, <3>3
  <2> QED
    BY <2>1, <2>2
<1>6. /\ "dist" \in ReadAgain(ValidationReads)
      /\ "transforms" \in ReadAgain(ValidationReads)
      /\ "raw_artifacts" \in ReadAgain(ValidationReads)
  <2>1. /\ ValidationReads[9] = "dist" /\ ValidationReads[14] = "dist"
        /\ ValidationReads[10] = "transforms" /\ ValidationReads[11] = "transforms"
        /\ ValidationReads[12] = "raw_artifacts" /\ ValidationReads[13] = "raw_artifacts"
    BY DEF ValidationReads
  <2>2. ValidationReads[9] \in ReadAgain(ValidationReads)
    BY <1>1, <2>1, ReadTwice, 9 \in 1..16, 14 \in 1..16, 9 < 14
  <2>3. ValidationReads[10] \in ReadAgain(ValidationReads)
    BY <1>1, <2>1, ReadTwice, 10 \in 1..16, 11 \in 1..16, 10 < 11
  <2>4. ValidationReads[12] \in ReadAgain(ValidationReads)
    BY <1>1, <2>1, ReadTwice, 12 \in 1..16, 13 \in 1..16, 12 < 13
  <2> QED
    BY <2>1, <2>2, <2>3, <2>4
<1> QED
  BY <1>1, <1>2, <1>3, <1>4, <1>5, <1>6

LEMMA ValidateFlow ==
    ASSUME NEW have, NEW kept, NEW once, NEW passed, Sealed \subseteq have,
           BuilderWritten \subseteq have,
           NEW more, more \subseteq passed \cup {"output"}
    PROVE  Flow(Validate, K(have, kept, {}, passed), K(have, kept, Sealed, more))
<1> DEFINE a == Known(have, kept, {} \cup ReadIn(ValidationReads),
                      {} \cup ReadAgain(ValidationReads), passed)
<1>1. Flow(Reads(ValidationReads), K(have, kept, {}, passed), a)
  BY FilesRead, ReadingsFlow DEF K
<1>2. CheckedOn("output", a)
  <2>1. a.have = have /\ a.once = Sealed /\ a.twice = ReadAgain(ValidationReads)
    BY FilesRead, FieldsKnown
  <2> HIDE DEF a
  <2> QED
    BY <2>1, FilesRead DEF CheckedOn
<1>3. {} \cup ReadIn(ValidationReads) = Sealed
  BY FilesRead
<1>4. Flow(Step("check", "output"), a, K(have, kept, Sealed, more))
  BY <1>2, <1>3, CheckFlow DEF Names, Checks
<1> QED
  BY <1>1, <1>4, Then DEF Validate

LEMMA SpdxFlow ==
    ASSUME NEW have, NEW kept, NEW once, NEW passed,
           {"syft", "sbom", "spdx_report"} \subseteq have,
           NEW more, more \subseteq once \cup {"syft", "sbom", "spdx_report"},
           {"syft", "sbom", "spdx_report", "dist"} \subseteq more
    PROVE  /\ Flow(Reads(SpdxReads), K(have, kept, once, passed), K(have, kept, more, passed))
           /\ Flow(Step("check", "spdx"), K(have, kept, more, passed), K(have, kept, more, passed))
<1>1. Flow(Reads(SpdxReads), K(have, kept, once, passed), K(have, kept, more, passed))
  <2>1. /\ SpdxReads \in Seq(File) /\ Len(SpdxReads) > 0
        /\ ReadIn(SpdxReads) \subseteq have /\ more \subseteq once \cup ReadIn(SpdxReads)
    BY FilesRead
  <2> QED
    BY <2>1, ReadSome
<1>2. CheckedOn("spdx", K(have, kept, more, passed))
  BY FieldsKnown DEF CheckedOn, K
<1> QED
  BY <1>1, <1>2, CheckFlow DEF Names, K

LEMMA ValidateSbomFlow ==
    ASSUME NEW have, NEW kept, Described \subseteq have
    PROVE  Flow(ValidateSbom, K(have, kept, {}, Checks), K(have, kept, Described, Checks))
<1>1. Flow(Validate, K(have, kept, {}, Checks), K(have, kept, Sealed, Checks))
  BY ValidateFlow DEF Described, Sealed, Checks
<1>2. /\ Flow(Reads(SpdxReads), K(have, kept, Sealed, Checks), K(have, kept, Described, Checks))
      /\ Flow(Step("check", "spdx"), K(have, kept, Described, Checks),
              K(have, kept, Described, Checks))
  BY SpdxFlow DEF Described, Sealed, BuilderWritten
<1> QED
  BY <1>1, <1>2, Then DEF ValidateSbom

LEMMA ValidateAttestedFlow ==
    ASSUME NEW have, NEW kept, Described \subseteq have, BundleFiles \subseteq have
    PROVE  Flow(ValidateAttested, K(have, kept, {}, Checks), K(have, kept, Described, Checks))
<1>1. CheckedOn("bundles", K(have, kept, Described, Checks))
  BY FieldsKnown DEF CheckedOn, K
<1>2. Flow(Step("check", "bundles"), K(have, kept, Described, Checks),
           K(have, kept, Described, Checks))
  BY <1>1, CheckFlow DEF Names, K
<1> QED
  BY <1>2, ValidateSbomFlow, Then DEF ValidateAttested

(* The commands.  The build is sealed, ...                                 *)
LEMMA SealFlow ==
    Flow(Seal, K(BuilderWritten, {}, {}, {}), K(Sealed, {}, Sealed, Checks))
<1> DEFINE first == <<"raw_trace", "source_inventory", "builder">>
           seen == {"raw_trace", "source_inventory", "builder"}
           both == {"raw_trace", "source_inventory", "builder", "trusted"}
           more == BuilderWritten \cup {"trusted"}
           sealable == {"sealable"}
<1>1. /\ first \in Seq(File) /\ Len(first) > 0 /\ ReadIn(first) = seen
      /\ <<"trusted">> \in Seq(File) /\ Len(<<"trusted">>) > 0
      /\ ReadIn(<<"trusted">>) = {"trusted"}
  BY DEF ReadIn, File, Listed, BuilderWritten
<1>2. Flow(Step("check", "unsealed"), K(BuilderWritten, {}, {}, {}), K(BuilderWritten, {}, {}, {}))
  <2>1. CheckedOn("unsealed", K(BuilderWritten, {}, {}, {}))
    BY FieldsKnown DEF CheckedOn, K, BuilderWritten
  <2> QED
    BY <2>1, CheckFlow DEF Names, K
<1>3. Flow(Reads(first), K(BuilderWritten, {}, {}, {}), K(BuilderWritten, {}, seen, {}))
  <2>1. ReadIn(first) \subseteq BuilderWritten /\ seen \subseteq {} \cup ReadIn(first)
    BY <1>1 DEF BuilderWritten
  <2> QED
    BY <1>1, <2>1, ReadSome
<1>4. Flow(Step("check", "sealable"), K(BuilderWritten, {}, seen, {}),
           K(BuilderWritten, {}, seen, sealable))
  <2>1. CheckedOn("sealable", K(BuilderWritten, {}, seen, {}))
    BY FieldsKnown DEF CheckedOn, K
  <2> QED
    BY <2>1, CheckFlow DEF Names, Checks, K
<1>5. Flow(Step("create", "trusted"), K(BuilderWritten, {}, seen, sealable),
           K(more, {}, seen, sealable))
  <2>1. MadeFrom("trusted", K(BuilderWritten, {}, seen, sealable))
    BY FieldsKnown DEF MadeFrom, K
  <2>2. "trusted" \notin BuilderWritten
    BY DEF BuilderWritten
  <2> QED
    BY <2>1, <2>2, MakeFlow DEF MadeFiles
<1>6. Flow(Reads(<<"trusted">>), K(more, {}, seen, sealable), K(more, {}, both, sealable))
  <2>1. ReadIn(<<"trusted">>) \subseteq more /\ both \subseteq seen \cup ReadIn(<<"trusted">>)
    BY <1>1
  <2> QED
    BY <1>1, <2>1, ReadSome
<1>7. Flow(Step("create", "seal"), K(more, {}, both, sealable), K(Sealed, {}, both, sealable))
  <2>1. MadeFrom("seal", K(more, {}, both, sealable))
    BY FieldsKnown DEF MadeFrom, K
  <2>2. "seal" \notin more /\ more \cup {"seal"} = Sealed
    BY DEF BuilderWritten, Sealed
  <2> QED
    BY <2>1, <2>2, MakeFlow DEF MadeFiles
<1>8. Flow(Command(Validate), K(Sealed, {}, both, sealable), K(Sealed, {}, Sealed, Checks))
  BY ValidateFlow, CommandFlow DEF Sealed, Checks
<1> HIDE DEF first, seen, both, more, sealable
<1>9. Flow(Step("check", "unsealed") \o Reads(first) \o Step("check", "sealable")
               \o Step("create", "trusted") \o Reads(<<"trusted">>) \o Step("create", "seal"),
           K(BuilderWritten, {}, {}, {}), K(Sealed, {}, both, sealable))
  BY <1>2, <1>3, <1>4, <1>5, <1>6, <1>7, Then
<1> QED
  BY <1>8, <1>9, CommandFlow, Then DEF Seal, first

(* The scan is described, ...                                              *)
LEMMA NormalizeFlow ==
    ASSUME NEW once
    PROVE  Flow(Normalize, K(Sealed \cup {"syft"}, Sealed, once, Checks),
                K(Described, Sealed, {"dist", "syft", "sbom", "spdx_report"}, Checks))
<1> DEFINE have == Sealed \cup {"syft"}
           seen == {"dist", "syft"}
           all == {"dist", "syft", "sbom", "spdx_report"}
<1>1. /\ <<"dist", "syft">> \in Seq(File) /\ Len(<<"dist", "syft">>) > 0
      /\ ReadIn(<<"dist", "syft">>) = seen
  BY DEF ReadIn, File, Listed, BuilderWritten
<1>2. Flow(Reads(<<"dist", "syft">>), K(have, Sealed, {}, Checks), K(have, Sealed, seen, Checks))
  <2>1. ReadIn(<<"dist", "syft">>) \subseteq have /\ seen \subseteq {} \cup ReadIn(<<"dist", "syft">>)
    BY <1>1 DEF Sealed, BuilderWritten
  <2> QED
    BY <1>1, <2>1, ReadSome
<1>3. Flow(Step("create", "sbom"), K(have, Sealed, seen, Checks),
           K(have \cup {"sbom"}, Sealed, seen, Checks))
  <2>1. MadeFrom("sbom", K(have, Sealed, seen, Checks))
    BY FieldsKnown DEF MadeFrom, K
  <2>2. "sbom" \notin have
    BY DEF Sealed, BuilderWritten
  <2> QED
    BY <2>1, <2>2, MakeFlow DEF MadeFiles
<1>4. Flow(Step("write", "spdx_report"), K(have \cup {"sbom"}, Sealed, seen, Checks),
           K(Described, Sealed, seen, Checks))
  <2>1. MadeFrom("spdx_report", K(have \cup {"sbom"}, Sealed, seen, Checks))
    BY FieldsKnown DEF MadeFrom, K
  <2>2. (have \cup {"sbom"}) \cup {"spdx_report"} = Described
    BY DEF Described
  <2>3. Flow(Step("write", "spdx_report"), K(have \cup {"sbom"}, Sealed, seen, Checks),
             K((have \cup {"sbom"}) \cup {"spdx_report"}, Sealed, seen, Checks))
    BY <2>1, MakeFlow DEF MadeFiles
  <2> QED
    BY <2>2, <2>3
<1>5. /\ Flow(Reads(SpdxReads), K(Described, Sealed, seen, Checks),
              K(Described, Sealed, all, Checks))
      /\ Flow(Step("check", "spdx"), K(Described, Sealed, all, Checks),
              K(Described, Sealed, all, Checks))
  BY SpdxFlow DEF Described
<1> HIDE DEF have, seen, all
<1> QED
  BY <1>2, <1>3, <1>4, <1>5, Then, CommandFlow DEF Normalize, have, all

(* ..., the artifacts are listed, ...                                      *)
LEMMA SubjectChecksumsFlow ==
    ASSUME NEW once
    PROVE  Flow(SubjectChecksums, K(Described, Sealed, once, Checks),
                K(Described \cup {"subjects"}, Sealed, Described, Checks))
<1>1. Flow(ValidateSbom, K(Described, Sealed, {}, Checks), K(Described, Sealed, Described, Checks))
  BY ValidateSbomFlow
<1>2. Flow(Step("create", "subjects"), K(Described, Sealed, Described, Checks),
           K(Described \cup {"subjects"}, Sealed, Described, Checks))
  <2>1. MadeFrom("subjects", K(Described, Sealed, Described, Checks))
    BY FieldsKnown DEF MadeFrom, K, Described, Sealed, BuilderWritten
  <2>2. "subjects" \notin Described
    BY DEF Described, Sealed, BuilderWritten
  <2> QED
    BY <2>1, <2>2, MakeFlow DEF MadeFiles
<1> QED
  BY <1>1, <1>2, Then, CommandFlow DEF SubjectChecksums

(* ... and everything is predicated.                                       *)
LEMMA PredicateFlow ==
    ASSUME NEW once
    PROVE  Flow(Predicate, K(Described \cup {"subjects"}, Sealed, once, Checks),
                K(Described \cup {"subjects", "predicate"}, Sealed,
                  Described \cup {"subjects"}, Checks))
<1> DEFINE have == Described \cup {"subjects"}
           reported == <<"spdx_report", "artifact_inventory", "transforms", "builder",
                         "source_inventory", "trusted", "seal", "trace">>
<1>1. /\ <<"subjects">> \in Seq(File) /\ Len(<<"subjects">>) > 0
      /\ ReadIn(<<"subjects">>) = {"subjects"}
      /\ reported \in Seq(File) /\ Len(reported) > 0 /\ ReadIn(reported) \subseteq Described
  BY DEF ReadIn, File, Listed, BuilderWritten, Described, Sealed
<1>2. Flow(ValidateSbom, K(have, Sealed, {}, Checks), K(have, Sealed, Described, Checks))
  BY ValidateSbomFlow
<1>3. Flow(Reads(<<"subjects">>), K(have, Sealed, Described, Checks),
           K(have, Sealed, have, Checks))
  BY <1>1, ReadSome
<1>4. Flow(Step("check", "subjects"), K(have, Sealed, have, Checks),
           K(have, Sealed, have, Checks))
  <2>1. CheckedOn("subjects", K(have, Sealed, have, Checks))
    BY FieldsKnown DEF CheckedOn, K, Described, Sealed, BuilderWritten
  <2> QED
    BY <2>1, CheckFlow DEF Names, K
<1>5. /\ Flow(Reads(SpdxReads), K(have, Sealed, have, Checks), K(have, Sealed, have, Checks))
      /\ Flow(Step("check", "spdx"), K(have, Sealed, have, Checks),
              K(have, Sealed, have, Checks))
  BY SpdxFlow DEF Described, Sealed, BuilderWritten
<1>6. Flow(Reads(reported), K(have, Sealed, have, Checks), K(have, Sealed, have, Checks))
  BY <1>1, ReadSome
<1>7. Flow(Step("write", "predicate"), K(have, Sealed, have, Checks),
           K(Described \cup {"subjects", "predicate"}, Sealed, have, Checks))
  <2>1. MadeFrom("predicate", K(have, Sealed, have, Checks))
    BY FieldsKnown DEF MadeFrom, K, Described, Sealed, BuilderWritten, PredicateDigests
  <2>2. have \cup {"predicate"} = Described \cup {"subjects", "predicate"}
    OBVIOUS
  <2>3. Flow(Step("write", "predicate"), K(have, Sealed, have, Checks),
             K(have \cup {"predicate"}, Sealed, have, Checks))
    BY <2>1, MakeFlow DEF MadeFiles
  <2> QED
    BY <2>2, <2>3
<1> HIDE DEF have, reported
<1> QED
  BY <1>2, <1>3, <1>4, <1>5, <1>6, <1>7, Then, CommandFlow DEF Predicate, have, reported

(* The manifest is made of everything, and verified.                       *)
LEMMA AssembleFlow ==
    ASSUME NEW kept, NEW once
    PROVE  Flow(Assemble, K(Listed, kept, once, Checks), K(File, kept, Listed, Checks))
<1> DEFINE seen == Described \cup {"subjects"}
           files == <<"artifact_inventory", "dist", "subjects">>
           have == Listed \cup {"manifest"}
<1>1. /\ files \in Seq(File) /\ Len(files) > 0
      /\ ReadIn(files) = {"artifact_inventory", "dist", "subjects"}
  BY DEF ReadIn, File, Listed, BuilderWritten
<1>2. Flow(ValidateAttested, K(Listed, kept, {}, Checks), K(Listed, kept, Described, Checks))
  BY ValidateAttestedFlow DEF Described, Sealed, Listed
<1>3. Flow(Reads(files), K(Listed, kept, Described, Checks), K(Listed, kept, seen, Checks))
  <2>1. ReadIn(files) \subseteq Listed /\ seen \subseteq Described \cup ReadIn(files)
    BY <1>1 DEF Listed, BuilderWritten
  <2> QED
    BY <1>1, <2>1, ReadSome
<1>4. Flow(Step("check", "current_subjects"), K(Listed, kept, seen, Checks),
           K(Listed, kept, seen, Checks))
  <2>1. CheckedOn("current_subjects", K(Listed, kept, seen, Checks))
    BY FieldsKnown DEF CheckedOn, K, Described, Sealed, BuilderWritten
  <2> QED
    BY <2>1, CheckFlow DEF Names, K
<1>5. Flow(Reads(ManifestReads), K(Listed, kept, seen, Checks), K(Listed, kept, Listed, Checks))
  <2>1. ReadIn(ManifestReads) \subseteq Listed /\ Listed \subseteq seen \cup ReadIn(ManifestReads)
        /\ Len(ManifestReads) > 0 /\ ManifestReads \in Seq(File)
    BY FilesRead
  <2> QED
    BY <2>1, ReadSome
<1>6. Flow(Step("write", "manifest"), K(Listed, kept, Listed, Checks),
           K(have, kept, Listed, Checks))
  <2>1. MadeFrom("manifest", K(Listed, kept, Listed, Checks))
    BY FieldsKnown DEF MadeFrom, K
  <2> QED
    BY <2>1, MakeFlow
<1>7. Flow(Reads(ManifestReads), K(have, kept, Listed, Checks), K(have, kept, Listed, Checks))
  <2>1. ReadIn(ManifestReads) \subseteq have /\ Listed \subseteq Listed \cup ReadIn(ManifestReads)
        /\ Len(ManifestReads) > 0 /\ ManifestReads \in Seq(File)
    BY FilesRead
  <2> QED
    BY <2>1, ReadSome
<1>8. Flow(Step("check", "manifest"), K(have, kept, Listed, Checks),
           K(have, kept, Listed, Checks))
  <2>1. CheckedOn("manifest", K(have, kept, Listed, Checks))
    BY FieldsKnown DEF CheckedOn, K
  <2> QED
    BY <2>1, CheckFlow DEF Names, K
<1>9. Flow(Step("write", "build_result"), K(have, kept, Listed, Checks),
           K(File, kept, Listed, Checks))
  <2>1. MadeFrom("build_result", K(have, kept, Listed, Checks))
    BY DEF MadeFrom
  <2>2. have \cup {"build_result"} = File
    BY DEF File
  <2>3. Flow(Step("write", "build_result"), K(have, kept, Listed, Checks),
             K(have \cup {"build_result"}, kept, Listed, Checks))
    BY <2>1, MakeFlow DEF MadeFiles
  <2> QED
    BY <2>2, <2>3
<1> HIDE DEF seen, files, have
<1> QED
  BY <1>2, <1>3, <1>4, <1>5, <1>6, <1>7, <1>8, <1>9, Then, CommandFlow DEF Assemble, files

(* The three jobs, one after another.                                      *)
LEMMA BuildJobFlow == Flow(BuildJob, K({}, {}, {}, {}), K({}, Sealed, {}, Checks))
<1>1. Flow(Command(Validate), K(Sealed, {}, Sealed, Checks), K(Sealed, {}, Sealed, Checks))
  BY ValidateFlow, CommandFlow DEF Sealed, Checks
<1> QED
  BY <1>1, BuildFlow, SealFlow, UploadFlow, Then DEF BuildJob

LEMMA InspectJobFlow ==
    Flow(InspectJob, K({}, Sealed, {}, Checks),
         K({}, Described \cup {"subjects", "predicate"}, {}, Checks))
<1> DEFINE last == Described \cup {"subjects", "predicate"}
<1>1. Flow(Step("download", "job"), K({}, Sealed, {}, Checks), K(Sealed, Sealed, {}, Checks))
  BY DownloadFlow
<1>2. Flow(Command(Validate), K(Sealed, Sealed, {}, Checks), K(Sealed, Sealed, Sealed, Checks))
  BY ValidateFlow, CommandFlow DEF Sealed, Checks
<1>3. Flow(Step("scan", "syft"), K(Sealed, Sealed, Sealed, Checks),
           K(Sealed \cup {"syft"}, Sealed, Sealed, Checks))
  BY ScanFlow
<1>4. Flow(Command(ValidateSbom), K(last, Sealed, Described \cup {"subjects"}, Checks),
           K(last, Sealed, Described, Checks))
  BY ValidateSbomFlow, CommandFlow
<1>5. Flow(Step("upload", "job"), K(last, Sealed, Described, Checks), K({}, last, {}, Checks))
  BY UploadFlow DEF Described
<1>6. /\ Flow(Normalize, K(Sealed \cup {"syft"}, Sealed, Sealed, Checks),
              K(Described, Sealed, {"dist", "syft", "sbom", "spdx_report"}, Checks))
      /\ Flow(SubjectChecksums, K(Described, Sealed, {"dist", "syft", "sbom", "spdx_report"}, Checks),
              K(Described \cup {"subjects"}, Sealed, Described, Checks))
      /\ Flow(Predicate, K(Described \cup {"subjects"}, Sealed, Described, Checks),
              K(last, Sealed, Described \cup {"subjects"}, Checks))
  BY NormalizeFlow, SubjectChecksumsFlow, PredicateFlow
<1> HIDE DEF last
<1> QED
  BY <1>1, <1>2, <1>3, <1>4, <1>5, <1>6, Then DEF InspectJob, last

LEMMA AttestJobFlow ==
    \E b : Flow(AttestJob, K({}, Described \cup {"subjects", "predicate"}, {}, Checks), b)
<1> DEFINE kept == Described \cup {"subjects", "predicate"}
           one == kept \cup {BundleFile("provenance")}
           two == one \cup {BundleFile("sbom")}
<1>1. Flow(Step("download", "job"), K({}, kept, {}, Checks), K(kept, kept, {}, Checks))
  BY DownloadFlow
<1>2. Flow(Command(ValidateSbom), K(kept, kept, {}, Checks), K(kept, kept, Described, Checks))
  BY ValidateSbomFlow, CommandFlow
<1>3. Flow(Step("attest", "provenance"), K(kept, kept, Described, Checks),
           K(one, kept, Described, Checks))
  BY AttestFlow DEF Roles, Described
<1>4. Flow(Step("attest", "sbom"), K(one, kept, Described, Checks),
           K(two, kept, Described, Checks))
  BY AttestFlow DEF Roles, Described
<1>5. Flow(Step("attest", "build"), K(two, kept, Described, Checks),
           K(Listed, kept, Described, Checks))
  <2>1. two \cup {BundleFile("build")} = Listed
    BY DEF BundleFile, Listed, BundleFiles, Described, Sealed
  <2>2. Flow(Step("attest", "build"), K(two, kept, Described, Checks),
             K(two \cup {BundleFile("build")}, kept, Described, Checks))
    BY AttestFlow DEF Roles, Described
  <2> QED
    BY <2>1, <2>2
<1>6. Flow(Command(ValidateAttested), K(Listed, kept, Described, Checks),
           K(Listed, kept, Described, Checks))
  BY ValidateAttestedFlow, CommandFlow DEF Described, Sealed, Listed
<1>7. Flow(Assemble, K(Listed, kept, Described, Checks), K(File, kept, Listed, Checks))
  BY AssembleFlow
<1>8. Flow(Step("finish", "job"), K(File, kept, Listed, Checks), K(File, kept, Listed, Checks))
  BY FinishFlow
<1> HIDE DEF kept, one, two
<1>9. Flow(AttestJob, K({}, kept, {}, Checks), K(File, kept, Listed, Checks))
  BY <1>1, <1>2, <1>3, <1>4, <1>5, <1>6, <1>7, <1>8, Then DEF AttestJob
<1> QED
  BY <1>9 DEF kept

(* What is known at each step of the workflow.                             *)
Course == CHOOSE t : \E b : Leads(Workflow, t, K({}, {}, {}, {}), b)

LEMMA WorkflowCourse ==
    /\ Course[1] = K({}, {}, {}, {})
    /\ \A i \in 1..Len(Workflow) : /\ Possible(Workflow[i], Course[i])
                                   /\ Follows(Workflow[i], Course[i], Course[i + 1])
<1>1. PICK b : Flow(AttestJob, K({}, Described \cup {"subjects", "predicate"}, {}, Checks), b)
  BY AttestJobFlow
<1>2. Flow(Workflow, K({}, {}, {}, {}), b)
  BY <1>1, BuildJobFlow, InspectJobFlow, Then DEF Workflow
<1>3. \E t : \E c : Leads(Workflow, t, K({}, {}, {}, {}), c)
  BY <1>2 DEF Flow
<1>4. \E c : Leads(Workflow, Course, K({}, {}, {}, {}), c)
  BY <1>3 DEF Course
<1> QED
  BY <1>4 DEF Leads

---------------------------------------------------------------------------
(* The files of the directory an undisturbed first attempt retains.        *)
LEMMA BuiltFiles ==
    ASSUME NEW build, NEW scan
    PROVE  /\ Retained(build, scan).dist = build.dist
           /\ Retained(build, scan).raw_artifacts = build.raw
           /\ Retained(build, scan).source_inventory = build.source
           /\ Retained(build, scan).raw_trace = build.trace
           /\ Retained(build, scan).trace = ParseStraceDirectory(build.trace)
           /\ Retained(build, scan).artifact_inventory = build.dist
           /\ Retained(build, scan).transforms = TransformReport(build.raw, build.dist)
           /\ Retained(build, scan).builder = BuilderReport(build)
BY DEF Retained, Bundle, File, Listed, BundleFiles, BuilderWritten, BuilderDirectory

LEMMA DescribedFiles ==
    ASSUME NEW build, NEW scan
    PROVE  /\ Retained(build, scan).trusted = TrustedSource(build.source)
           /\ Retained(build, scan).seal =
                  HandoffSeal(TrustedSource(build.source), build.source, DOMAIN build.trace)
           /\ Retained(build, scan).syft = scan
           /\ Retained(build, scan).sbom = NormalizedSpdx(scan, build.dist)
           /\ Retained(build, scan).spdx_report =
                  SpdxReport(scan, NormalizedSpdx(scan, build.dist), build.dist)
           /\ Retained(build, scan).subjects = build.dist
BY DEF Retained, Bundle, File, Listed, BundleFiles, BuilderWritten, BuilderDirectory

LEMMA ListedFiles ==
    ASSUME NEW build, NEW scan
    PROVE  /\ DOMAIN Retained(build, scan) = File
           /\ Retained(build, scan).manifest = Bundle(build, scan, FirstRun)
           /\ DOMAIN Bundle(build, scan, FirstRun) = Listed
           /\ \A file \in Listed :
                 Retained(build, scan)[file] = Bundle(build, scan, FirstRun)[file]
           /\ Retained(build, scan).build_result = "succeeded"
<1>1. /\ "manifest" \notin Listed /\ "build_result" \notin Listed
      /\ "manifest" \in File /\ "build_result" \in File /\ Listed \subseteq File
  BY DEF File, Listed, BuilderWritten, BundleFiles
<1>2. DOMAIN Bundle(build, scan, FirstRun) = Listed
  BY DEF Bundle
<1> QED
  BY <1>1, <1>2 DEF Retained

LEMMA PredicateFile ==
    ASSUME NEW build, NEW scan
    PROVE  Retained(build, scan).predicate =
               BuildPredicate(build.dist,
                   [file \in PredicateDigests |-> Retained(build, scan)[file]], FirstRun)
<1> DEFINE whole == Bundle(build, scan, FirstRun)
<1>1. whole.predicate =
          BuildPredicate(build.dist, [file \in PredicateDigests |-> whole[file]], FirstRun)
  BY DEF Bundle, Listed, BundleFiles, BuilderWritten, BuilderDirectory, PredicateDigests
<1>2. PredicateDigests \subseteq Listed /\ "predicate" \in Listed
  BY DEF PredicateDigests, Listed, BuilderWritten
<1> HIDE DEF whole
<1> QED
  BY <1>1, <1>2, ListedFiles DEF whole

LEMMA StatementFiles ==
    ASSUME NEW build, NEW scan
    PROVE  /\ Retained(build, scan).provenance_bundle =
                  Attestation("provenance", build.dist, Provenance(FirstRun), FirstRun)
           /\ Retained(build, scan).sbom_bundle =
                  Attestation("sbom", build.dist, NormalizedSpdx(scan, build.dist), FirstRun)
           /\ Retained(build, scan).build_bundle =
                  Attestation("build", build.dist, Retained(build, scan).predicate, FirstRun)
<1> DEFINE whole == Bundle(build, scan, FirstRun)
<1>1. /\ whole.provenance_bundle =
             Attestation("provenance", build.dist, Provenance(FirstRun), FirstRun)
      /\ whole.sbom_bundle =
             Attestation("sbom", build.dist, NormalizedSpdx(scan, build.dist), FirstRun)
      /\ whole.build_bundle = Attestation("build", build.dist, whole.predicate, FirstRun)
  BY DEF Bundle, Listed, BundleFiles, BuilderWritten
<1>2. BundleFiles \cup {"predicate"} \subseteq Listed
  BY DEF Listed
<1> HIDE DEF whole
<1> QED
  BY <1>1, <1>2, ListedFiles DEF whole, BundleFiles

(* What a scan, or a build, does not change.                               *)
LEMMA BeforeScan ==
    ASSUME NEW build, NEW scan, NEW other, NEW file \in Sealed
    PROVE  Retained(build, scan)[file] = Retained(build, other)[file]
BY BuiltFiles, DescribedFiles DEF Sealed, BuilderWritten

---------------------------------------------------------------------------
(* A directory that holds some of the files.                               *)
Filled(have, whole) ==
    [file \in File |-> IF file \in have THEN whole[file] ELSE NONE]

LEMMA FilledAdd ==
    ASSUME NEW have, NEW whole, NEW file \in File
    PROVE  [Filled(have, whole) EXCEPT ![file] = whole[file]] = Filled(have \cup {file}, whole)
BY DEF Filled

LEMMA BuilderFilled ==
    ASSUME NEW build \in Builds, NEW scan \in Scans
    PROVE  Directory(BuilderDirectory(build)) = Filled(BuilderWritten, Retained(build, scan))
<1> DEFINE made == BuilderDirectory(build)
           whole == Retained(build, scan)
<1>1. DOMAIN made = BuilderWritten /\ BuilderWritten \subseteq File
  BY DEF BuilderDirectory, BuilderWritten, File, Listed
<1>2. \A file \in BuilderWritten : made[file] = whole[file]
  BY BuiltFiles DEF BuilderDirectory, BuilderWritten
<1> HIDE DEF made, whole
<1>3. Directory(made) = Filled(BuilderWritten, whole)
  BY <1>1, <1>2 DEF Directory, Filled
<1> QED
  BY <1>3 DEF made, whole

(* The readings of a command, of the files it has, or had, before it.      *)
ReadingsOf(readings, k, whole) ==
    /\ DOMAIN readings = File
    /\ \A file \in File :
          /\ readings[file] \in Seq({whole[file]})
          /\ readings[file] # <<>> => file \in k.have \cup k.kept
          /\ file \in k.once => Len(readings[file]) >= 1
          /\ file \in k.twice => Len(readings[file]) >= 2

LEMMA ReadingAt ==
    ASSUME NEW readings, NEW k, NEW whole, ReadingsOf(readings, k, whole), NEW file \in File
    PROVE  /\ file \in k.once => /\ readings[file][1] = whole[file]
                                 /\ Latest(readings[file]) = whole[file]
           /\ file \in k.twice => readings[file][2] = whole[file]
<1>1. /\ readings[file] \in Seq({whole[file]})
      /\ file \in k.once => Len(readings[file]) >= 1
      /\ file \in k.twice => Len(readings[file]) >= 2
  BY DEF ReadingsOf
<1>2. \A i \in 1..Len(readings[file]) : readings[file][i] = whole[file]
  BY <1>1
<1>3. Len(readings[file]) \in Nat
  BY <1>1
<1> QED
  BY <1>1, <1>2, <1>3 DEF Latest

(* What the two checks that can refuse a build find out about it.          *)
Passed(check, build) ==
    CASE check = "sealable" ->
             /\ DOMAIN build.trace \in (SUBSET TraceNames) \ {{}}
             /\ build.source = InventoryTrustedSource
      [] check = "output" ->
             /\ build.succeeded /\ build.boundary = "fixed"
             /\ ValidSourceInventory(build.source)
             /\ Payload[build.raw] = Payload[build.dist] /\ build.dist \in CanonicalOf
             /\ ValidTrace(ParseStraceDirectory(build.trace))
             /\ ValidRawTraceFiles(build.trace, ParseStraceDirectory(build.trace))

(* A build is honest exactly if it passes both, ...                        *)
LEMMA HonestPasses ==
    ASSUME NEW build \in Builds
    PROVE  Honest(build) <=> Passed("sealable", build) /\ Passed("output", build)
<1> DEFINE trace == ParseStraceDirectory(build.trace)
           accepted == ValidTrace(trace) /\ ValidRawTraceFiles(build.trace, trace)
           good == /\ trace.covered /\ trace.syscall > 0
                   /\ Decodes(build.trace) /\ DOMAIN build.trace \subseteq TraceNames
<1>1. ReductionsAgree(build.trace)
  BY ReductionsAlwaysAgree, EvidenceAssumption
<1>2. accepted <=> good
  BY <1>1 DEF ReductionsAgree
<1>3. trace.covered => DOMAIN build.trace # {}
  BY TraceFields
<1>4. ValidSourceInventory(InventoryTrustedSource)
  BY DEF ValidSourceInventory, InventoryTrustedSource, Inventory
<1>5. Honest(build) <=>
          /\ build.succeeded /\ build.boundary = "fixed"
          /\ build.source = InventoryTrustedSource
          /\ Payload[build.raw] = Payload[build.dist] /\ build.dist \in CanonicalOf
          /\ good
  BY DEF Honest
<1>6. Passed("output", build) <=>
          /\ build.succeeded /\ build.boundary = "fixed"
          /\ ValidSourceInventory(build.source)
          /\ Payload[build.raw] = Payload[build.dist] /\ build.dist \in CanonicalOf
          /\ accepted
  BY DEF Passed
<1>7. good => DOMAIN build.trace \in (SUBSET TraceNames) \ {{}}
  BY <1>3
<1>8. Passed("sealable", build) <=> /\ DOMAIN build.trace \in (SUBSET TraceNames) \ {{}}
                                    /\ build.source = InventoryTrustedSource
  BY DEF Passed
<1> HIDE DEF accepted, good
<1> QED
  BY <1>2, <1>4, <1>5, <1>6, <1>7, <1>8

LEMMA BuilderFields ==
    ASSUME NEW build
    PROVE  /\ BuilderReport(build).succeeded = build.succeeded
           /\ BuilderReport(build).boundary = build.boundary
           /\ BuilderReport(build).source = build.source.tree_sha256
           /\ BuilderReport(build).request = Request
           /\ BuilderReport(build).transforms = TransformReport(build.raw, build.dist)
           /\ BuilderReport(build).trace = TraceSummary(ParseStraceDirectory(build.trace))
           /\ TransformReport(build.raw, build.dist).original = build.raw
           /\ TransformReport(build.raw, build.dist).final = build.dist
           /\ TransformReport(build.raw, build.dist).payload = Payload[build.raw]
           /\ TransformReport(build.raw, build.dist).epoch = Request
BY DEF BuilderReport, TransformReport

(* ... and each check decides just that, whatever else was read.           *)
LEMMA SealableDecides ==
    ASSUME NEW k, NEW build \in Builds, NEW scan \in Scans,
           ReadingsOf(read, k, Retained(build, scan)), CheckedOn("sealable", k)
    PROVE  Sealable <=> Passed("sealable", build)
<1>1. {"raw_trace", "source_inventory", "builder"} \subseteq k.once
  BY DEF CheckedOn
<1>2. {"raw_trace", "source_inventory", "builder"} \subseteq File
  BY DEF File, Listed, BuilderWritten
<1>3. /\ read["raw_trace"][1] = build.trace
      /\ read["source_inventory"][1] = build.source
      /\ read["builder"][1] = BuilderReport(build)
  BY <1>1, <1>2, ReadingAt, BuiltFiles
<1>4. /\ ValidSourceInventory(InventoryTrustedSource)
  BY DEF ValidSourceInventory, InventoryTrustedSource, Inventory
<1> QED
  BY <1>3, <1>4, BuilderFields DEF Sealable, LiveBoundary, Passed

LEMMA OutputDecides ==
    ASSUME NEW k, NEW build \in Builds, NEW scan \in Scans,
           ReadingsOf(read, k, Retained(build, scan)), CheckedOn("output", k)
    PROVE  ValidBuilderOutput(read) <=> Passed("output", build)
<1> DEFINE whole == Retained(build, scan)
<1>1. /\ Sealed \subseteq k.once
      /\ {"trusted", "source_inventory", "raw_trace", "dist", "transforms", "raw_artifacts"}
            \subseteq k.twice
  BY DEF CheckedOn
<1>2. Sealed \subseteq File
  BY DEF Sealed, File, Listed
<1>3. \A file \in Sealed : read[file][1] = whole[file]
  BY <1>1, <1>2, ReadingAt
<1>4. \A file \in {"trusted", "source_inventory", "raw_trace", "dist", "transforms",
                   "raw_artifacts"} : read[file][2] = whole[file]
  BY <1>1, <1>2, ReadingAt DEF Sealed, BuilderWritten
<1>5. /\ read["dist"][1] = build.dist /\ read["dist"][2] = build.dist
      /\ read["raw_artifacts"][1] = build.raw /\ read["raw_artifacts"][2] = build.raw
      /\ read["source_inventory"][1] = build.source /\ read["source_inventory"][2] = build.source
      /\ read["raw_trace"][1] = build.trace /\ read["raw_trace"][2] = build.trace
  BY <1>3, <1>4, BuiltFiles DEF Sealed, BuilderWritten
<1>6. /\ read["trace"][1] = ParseStraceDirectory(build.trace)
      /\ read["artifact_inventory"][1] = build.dist
      /\ read["transforms"][1] = TransformReport(build.raw, build.dist)
      /\ read["transforms"][2] = TransformReport(build.raw, build.dist)
      /\ read["builder"][1] = BuilderReport(build)
  BY <1>3, <1>4, BuiltFiles DEF Sealed, BuilderWritten
<1>7. /\ read["trusted"][1] = TrustedSource(build.source)
      /\ read["trusted"][2] = TrustedSource(build.source)
      /\ read["seal"][1] =
             HandoffSeal(TrustedSource(build.source), build.source, DOMAIN build.trace)
  BY <1>3, <1>4, DescribedFiles DEF Sealed
<1>8. ValidTrustedBinding(read) /\ ValidHandoffSeal(read)
  BY <1>5, <1>6, <1>7, BuilderFields DEF ValidTrustedBinding, ValidHandoffSeal
<1>9. ValidArtifactTransforms(read) <=>
          Payload[build.raw] = Payload[build.dist] /\ build.dist \in CanonicalOf
  BY <1>5, <1>6, BuilderFields DEF ValidArtifactTransforms, ArchivesMatch
<1>10. ValidTraces(read) <=>
          /\ ValidTrace(ParseStraceDirectory(build.trace))
          /\ ValidRawTraceFiles(build.trace, ParseStraceDirectory(build.trace))
  BY <1>5, <1>6, BuilderFields DEF ValidTraces
<1>11. /\ ValidBuilderReport(read.builder[1]) <=> build.succeeded
       /\ ValidExecutionBoundary(read.builder[1]) <=> build.boundary = "fixed"
       /\ ValidSourceInventory(read.source_inventory[1]) <=> ValidSourceInventory(build.source)
  <2>1. read["builder"][1].succeeded = build.succeeded /\ read["builder"][1].request = Request
        /\ read["builder"][1].boundary = build.boundary
    BY <1>6, BuilderFields
  <2>2. ValidBuilderReport(read["builder"][1]) <=> build.succeeded
    <3>1. build.succeeded \in BOOLEAN
      BY EvidenceAssumption
    <3> QED
      BY <2>1, <3>1, Zenon DEF ValidBuilderReport
  <2>3. ValidExecutionBoundary(read["builder"][1]) <=> build.boundary = "fixed"
    BY <2>1 DEF ValidExecutionBoundary
  <2> QED
    BY <1>5, <2>2, <2>3
<1> QED
  BY <1>8, <1>9, <1>10, <1>11 DEF ValidBuilderOutput, Passed

---------------------------------------------------------------------------
(* The readings when a command begins, goes on and reads a file.           *)
LEMMA ReadingsStart ==
    ASSUME NEW k, NEW whole, k.once \subseteq {}, k.twice \subseteq {}
    PROVE  ReadingsOf(NoReadings, k, whole)
BY DEF ReadingsOf, NoReadings

LEMMA ReadingsLast ==
    ASSUME NEW readings, NEW k, NEW n, NEW whole, ReadingsOf(readings, k, whole),
           k.have \cup k.kept \subseteq n.have \cup n.kept,
           n.once \subseteq k.once, n.twice \subseteq k.twice
    PROVE  ReadingsOf(readings, n, whole)
BY DEF ReadingsOf

LEMMA ReadingsGain ==
    ASSUME NEW readings, NEW k, NEW n, NEW whole, ReadingsOf(readings, k, whole),
           NEW file \in File, file \in k.have, n.have = k.have, n.kept = k.kept,
           n.once \subseteq k.once \cup {file},
           n.twice \subseteq k.twice \cup (k.once \cap {file})
    PROVE  ReadingsOf([readings EXCEPT ![file] = Append(@, whole[file])], n, whole)
<1> DEFINE more == [readings EXCEPT ![file] = Append(@, whole[file])]
<1>1. DOMAIN readings = File
  BY DEF ReadingsOf
<1>2. DOMAIN more = File /\ \A other \in File : other # file => more[other] = readings[other]
  BY <1>1
<1>3. /\ readings[file] \in Seq({whole[file]})
      /\ file \in k.once => Len(readings[file]) >= 1
  BY DEF ReadingsOf
<1>4. more[file] = Append(readings[file], whole[file])
  BY <1>1
<1>5. /\ more[file] \in Seq({whole[file]}) /\ Len(more[file]) = Len(readings[file]) + 1
      /\ Len(readings[file]) \in Nat
  BY <1>3, <1>4
<1> HIDE DEF more
<1>6. ASSUME NEW other \in File
      PROVE  /\ more[other] \in Seq({whole[other]})
             /\ more[other] # <<>> => other \in n.have \cup n.kept
             /\ other \in n.once => Len(more[other]) >= 1
             /\ other \in n.twice => Len(more[other]) >= 2
  <2>1. CASE other = file
    <3>1. /\ other \in n.once => Len(more[other]) >= 1
          /\ other \in n.twice => Len(more[other]) >= 2
      <4>1. file \in k.twice => Len(readings[file]) >= 2
        BY DEF ReadingsOf
      <4> QED
        BY <1>3, <1>5, <2>1, <4>1
    <3> QED
      BY <1>5, <2>1, <3>1
  <2>2. CASE other # file
    <3>1. /\ other \in n.once => other \in k.once
          /\ other \in n.twice => other \in k.twice
      BY <2>2
    <3> QED
      BY <1>2, <2>2, <3>1 DEF ReadingsOf
  <2> QED
    BY <2>1, <2>2
<1>7. ReadingsOf(more, n, whole)
  BY <1>2, <1>6 DEF ReadingsOf
<1> QED
  BY <1>7 DEF more

(* What no file that is there tells apart, the readings do not either.     *)
LEMMA ReadingsOfOther ==
    ASSUME NEW readings, NEW k, NEW whole, NEW other, ReadingsOf(readings, k, whole),
           \A file \in k.have \cup k.kept : whole[file] = other[file]
    PROVE  ReadingsOf(readings, k, other)
<1>1. ASSUME NEW file \in File PROVE readings[file] \in Seq({other[file]})
  <2>1. CASE file \in k.have \cup k.kept
    BY <2>1 DEF ReadingsOf
  <2>2. CASE readings[file] = <<>>
    BY <2>2
  <2> QED
    BY <2>1, <2>2 DEF ReadingsOf
<1> QED
  BY <1>1 DEF ReadingsOf

LEMMA FilledOther ==
    ASSUME NEW have, NEW whole, NEW other, \A file \in have : whole[file] = other[file]
    PROVE  Filled(have, whole) = Filled(have, other)
BY DEF Filled

---------------------------------------------------------------------------
(* What the other checks ask always holds, and what is made is as it was   *)
(* to be.                                                                  *)
LEMMA OtherChecksHold ==
    ASSUME NEW build \in Builds, NEW scan \in Scans, NEW k, NEW check, check \notin Checks,
           ReadingsOf(read, k, Retained(build, scan)), CheckedOn(check, k),
           disk = Filled(k.have, Retained(build, scan))
    PROVE  Holds(check)
<1> DEFINE whole == Retained(build, scan)
<1>1. \A file \in File : file \in k.once => Latest(read[file]) = whole[file]
                                            /\ read[file][1] = whole[file]
  BY ReadingAt
<1>2. {"syft", "sbom", "spdx_report", "dist", "subjects", "trusted", "seal", "manifest",
       "artifact_inventory"}
          \cup BundleFiles \cup Listed \subseteq File
  BY DEF File, Listed, BuilderWritten
<1>3. \A file \in File : disk[file] = IF file \in k.have THEN whole[file] ELSE NONE
  BY DEF Filled
<1>4. \A file \in File : whole[file] # NONE
  BY EvidenceAssumption
<1>5. check \in {"unsealed", "spdx", "subjects", "current_subjects", "bundles", "manifest"}
  BY DEF CheckedOn, Checks
<1> HIDE DEF whole
<1>6. CASE check = "unsealed"
  <2>1. "trusted" \notin k.have /\ "seal" \notin k.have
    BY <1>6 DEF CheckedOn
  <2> QED
    BY <1>2, <1>3, <1>6, <2>1 DEF Holds, Unsealed
<1>7. CASE check = "spdx"
  <2>1. {"syft", "sbom", "spdx_report", "dist"} \subseteq k.once
    BY <1>7 DEF CheckedOn
  <2>2. /\ Latest(read.syft) = whole.syft /\ Latest(read.sbom) = whole.sbom
        /\ Latest(read.spdx_report) = whole.spdx_report /\ read.dist[1] = whole.dist
    BY <1>1, <1>2, <2>1
  <2>3. /\ whole.syft = scan /\ whole.sbom = NormalizedSpdx(scan, build.dist)
        /\ whole.spdx_report = SpdxReport(scan, NormalizedSpdx(scan, build.dist), build.dist)
        /\ whole.dist = build.dist
    BY BuiltFiles, DescribedFiles DEF whole
  <2> QED
    BY <1>7, <2>2, <2>3 DEF Holds, ValidSpdxBundle
<1>8. CASE check = "subjects"
  <2>1. "subjects" \in k.once /\ "artifact_inventory" \in k.once
    BY <1>8 DEF CheckedOn
  <2>2. Latest(read.subjects) = whole.subjects /\ read.artifact_inventory[1] = whole.artifact_inventory
    BY <1>1, <1>2, <2>1
  <2>3. whole.subjects = build.dist /\ whole.artifact_inventory = build.dist
    BY BuiltFiles, DescribedFiles DEF whole
  <2> QED
    BY <1>8, <2>2, <2>3 DEF Holds, ValidSubjectChecksums
<1>9. CASE check = "current_subjects"
  <2>1. "subjects" \in k.once /\ "dist" \in k.once
    BY <1>9 DEF CheckedOn
  <2>2. Latest(read.subjects) = whole.subjects /\ Latest(read.dist) = whole.dist
    BY <1>1, <1>2, <2>1
  <2>3. whole.subjects = build.dist /\ whole.dist = build.dist
    BY BuiltFiles, DescribedFiles DEF whole
  <2> QED
    BY <1>9, <2>2, <2>3 DEF Holds, ValidSubjectChecksums
<1>10. CASE check = "bundles"
  <2>1. BundleFiles \subseteq k.have
    BY <1>10 DEF CheckedOn
  <2> QED
    BY <1>2, <1>3, <1>4, <1>10, <2>1 DEF Holds, AttestationsRetained
<1>11. CASE check = "manifest"
  <2>1. Listed \subseteq k.once /\ "manifest" \in k.have
    BY <1>11 DEF CheckedOn
  <2>2. disk.manifest = whole.manifest
    BY <1>2, <1>3, <2>1
  <2>3. \A file \in Listed : whole.manifest[file] = whole[file]
    BY ListedFiles DEF whole
  <2> QED
    BY <1>1, <1>2, <1>11, <2>1, <2>2, <2>3 DEF Holds, ManifestVerifies
<1> QED
  BY <1>5, <1>6, <1>7, <1>8, <1>9, <1>10, <1>11

LEMMA MadeAsItWasToBe ==
    ASSUME NEW build \in Builds, NEW scan \in Scans, NEW k,
           NEW file \in MadeFiles \cup {"manifest"}, MadeFrom(file, k),
           ReadingsOf(read, k, Retained(build, scan)), Run = FirstRun,
           \A check \in k.passed : Passed(check, build)
    PROVE  Made(file) = Retained(build, scan)[file]
<1> DEFINE whole == Retained(build, scan)
<1>1. \A other \in File : other \in k.once => Latest(read[other]) = whole[other]
                                              /\ read[other][1] = whole[other]
  BY ReadingAt
<1>2. {"trusted", "raw_trace", "syft", "dist", "artifact_inventory"}
          \cup PredicateDigests \cup Listed \subseteq File
  BY DEF File, Listed, BuilderWritten, PredicateDigests
<1>3. "sealable" \in k.passed => build.source = InventoryTrustedSource
  BY DEF Passed
<1>4. /\ whole.trusted = TrustedSource(build.source) /\ whole.raw_trace = build.trace
      /\ whole.seal = HandoffSeal(TrustedSource(build.source), build.source,
                                  DOMAIN build.trace)
      /\ whole.syft = scan /\ whole.dist = build.dist
      /\ whole.sbom = NormalizedSpdx(scan, build.dist)
      /\ whole.spdx_report = SpdxReport(scan, NormalizedSpdx(scan, build.dist), build.dist)
      /\ whole.subjects = build.dist /\ whole.artifact_inventory = build.dist
  BY BuiltFiles, DescribedFiles
<1>5. whole.predicate = BuildPredicate(build.dist,
                            [digest \in PredicateDigests |-> whole[digest]], FirstRun)
  BY PredicateFile
<1>6. /\ whole.manifest = [listed \in Listed |-> whole[listed]]
      /\ whole.build_result = "succeeded"
  <2>1. /\ whole.manifest = Bundle(build, scan, FirstRun)
        /\ \A listed \in Listed : whole[listed] = Bundle(build, scan, FirstRun)[listed]
        /\ whole.build_result = "succeeded"
    BY ListedFiles
  <2> DEFINE b == Bundle(build, scan, FirstRun)
  <2>2. b = [listed \in Listed |-> b[listed]]
    BY DEF Bundle
  <2> HIDE DEF b, whole
  <2> QED
    BY <2>1, <2>2 DEF b
<1>7. /\ "artifact_inventory" \in PredicateDigests
      /\ MadeFiles = {"trusted", "seal", "sbom", "spdx_report", "subjects", "predicate",
                      "build_result"}
  BY DEF PredicateDigests, MadeFiles
<1> HIDE DEF whole
<1>8. CASE file = "trusted"
  BY <1>3, <1>4, <1>8 DEF MadeFrom, Made, whole
<1>9. CASE file = "seal"
  <2>1. "sealable" \in k.passed /\ "trusted" \in k.once /\ "raw_trace" \in k.once
    BY <1>9 DEF MadeFrom
  <2>2. Latest(read.trusted) = whole.trusted /\ read.raw_trace[1] = whole.raw_trace
    BY <1>1, <1>2, <2>1
  <2>3. whole[file] = whole.seal
    BY <1>9
  <2> QED
    BY <1>3, <1>4, <1>9, <2>1, <2>2, <2>3 DEF Made, whole
<1>10. CASE file \in {"sbom", "spdx_report"}
  <2>1. "syft" \in k.once /\ "dist" \in k.once
    BY <1>10 DEF MadeFrom
  <2>2. read.syft[1] = whole.syft /\ read.dist[1] = whole.dist
    BY <1>1, <1>2, <2>1
  <2> QED
    BY <1>4, <1>10, <2>2 DEF Made, whole
<1>11. CASE file = "subjects"
  <2>1. "artifact_inventory" \in k.once
    BY <1>11 DEF MadeFrom
  <2>2. read.artifact_inventory[1] = whole.artifact_inventory
    BY <1>1, <1>2, <2>1
  <2> QED
    BY <1>4, <1>11, <2>2 DEF Made, whole
<1>12. CASE file = "predicate"
  <2>1. PredicateDigests \subseteq k.once
    BY <1>12 DEF MadeFrom
  <2>2. \A digest \in PredicateDigests : Latest(read[digest]) = whole[digest]
    BY <1>1, <1>2, <2>1
  <2>3. read.artifact_inventory[1] = whole.artifact_inventory
    BY <1>1, <1>2, <1>7, <2>1
  <2>4. [digest \in PredicateDigests |-> Latest(read[digest])]
            = [digest \in PredicateDigests |-> whole[digest]]
    BY <2>2
  <2>5. Made("predicate") =
            BuildPredicate(read.artifact_inventory[1],
                [digest \in PredicateDigests |-> Latest(read[digest])], Run)
    BY DEF Made
  <2> QED
    BY <1>4, <1>5, <1>12, <2>3, <2>4, <2>5 DEF whole
<1>13. CASE file = "manifest"
  <2>1. Listed \subseteq k.once
    BY <1>13 DEF MadeFrom
  <2>2. \A listed \in Listed : Latest(read[listed]) = whole[listed]
    BY <1>1, <1>2, <2>1
  <2>3. Made("manifest") = [listed \in Listed |-> Latest(read[listed])]
    BY DEF Made
  <2>4. Made("manifest") = whole["manifest"]
    BY <1>6, <2>2, <2>3
  <2> QED
    BY <1>13, <2>4 DEF whole
<1>14. CASE file = "build_result"
  BY <1>6, <1>14 DEF Made, whole
<1> QED
  BY <1>7, <1>8, <1>9, <1>10, <1>11, <1>12, <1>13, <1>14

---------------------------------------------------------------------------
(* The first attempt so far, of a build and a scan of it.                  *)
HandoffOf(build, scan) ==
    /\ disk = Filled(Course[at].have, Retained(build, scan))
    /\ stored = Filled(Course[at].kept, Retained(build, scan))
    /\ status = "running" => ReadingsOf(read, Course[at], Retained(build, scan))
    /\ \A check \in Course[at].passed : Passed(check, build)
    /\ status = "uploaded" => Now.op = "finish"
    /\ status = "refused" => ~Honest(build) /\ BuilderWritten \subseteq Course[at].have

LEMMA NowIsPossible ==
    ASSUME SignedInv
    PROVE  Possible(Now, Course[at]) /\ Follows(Now, Course[at], Course[at + 1])
BY WorkflowCourse DEF SignedInv, Now

LEMMA HandoffAdvances ==
    ASSUME NEW build \in Builds, NEW scan \in Scans, Continue, status = "running",
           disk' = Filled(Course[at + 1].have, Retained(build, scan)),
           stored' = Filled(Course[at + 1].kept, Retained(build, scan)),
           ReadingsOf(read', Course[at + 1], Retained(build, scan)),
           \A check \in Course[at + 1].passed : Passed(check, build)
    PROVE  HandoffOf(build, scan)'
BY DEF Continue, HandoffOf

(* The steps of the workflow, one by one.                                  *)
LEMMA HonestBuild ==
    ASSUME SignedInv, NEW build \in Builds, NEW scan \in Scans, HandoffOf(build, scan), Build
    PROVE  \E other \in Builds : HandoffOf(other, scan)'
<1>1. Now.op = "build" /\ status = "running"
  BY DEF Build, Doing
<1>2. PICK other \in Builds : disk' = Directory(BuilderDirectory(other))
  BY DEF Build
<1> DEFINE k == Course[at]
           n == Course[at + 1]
           whole == Retained(other, scan)
<1>3. /\ k.have = {} /\ k.kept = {} /\ k.passed = {}
      /\ n.have = BuilderWritten /\ n.kept = {} /\ n.passed = {}
      /\ n.once \subseteq k.once /\ n.twice \subseteq k.twice
  BY <1>1, NowIsPossible DEF Possible, Follows
<1>4. ReadingsOf(read, k, Retained(build, scan)) /\ stored = Filled(k.kept, Retained(build, scan))
  BY <1>1 DEF HandoffOf
<1> HIDE DEF k, n
<1>5. disk' = Filled(n.have, whole)
  BY <1>2, <1>3, BuilderFilled
<1>6. stored' = Filled(n.kept, whole)
  BY <1>3, <1>4, FilledOther DEF Build
<1>7. ReadingsOf(read, k, whole)
  BY <1>3, <1>4, ReadingsOfOther
<1>8. ReadingsOf(read', n, whole)
  <2>1. read' = read
    BY DEF Build
  <2> QED
    BY <1>3, <1>7, <2>1, ReadingsLast
<1>9. \A check \in n.passed : Passed(check, other)
  BY <1>3
<1>10. Continue
  BY DEF Build
<1> QED
  BY <1>1, <1>5, <1>6, <1>8, <1>9, <1>10, HandoffAdvances DEF n

LEMMA HonestBegin ==
    ASSUME SignedInv, NEW build \in Builds, NEW scan \in Scans, HandoffOf(build, scan), Begin
    PROVE  HandoffOf(build, scan)'
<1> DEFINE k == Course[at]
           n == Course[at + 1]
           whole == Retained(build, scan)
<1>1. Now.op = "begin" /\ status = "running" /\ Continue
  BY DEF Begin, Doing
<1>2. /\ n.have = k.have /\ n.kept = k.kept /\ n.passed \subseteq k.passed
      /\ n.once \subseteq {} /\ n.twice \subseteq {}
  BY <1>1, NowIsPossible DEF Follows, Adds
<1>3. /\ disk = Filled(k.have, whole) /\ stored = Filled(k.kept, whole)
      /\ \A check \in k.passed : Passed(check, build)
  BY DEF HandoffOf
<1>4. read' = NoReadings /\ disk' = disk /\ stored' = stored
  BY DEF Begin
<1> HIDE DEF k, n, whole
<1>5. ReadingsOf(read', n, whole)
  BY <1>2, <1>4, ReadingsStart
<1> QED
  BY <1>1, <1>2, <1>3, <1>4, <1>5, HandoffAdvances DEF n, whole

LEMMA HonestRead ==
    ASSUME SignedInv, NEW build \in Builds, NEW scan \in Scans, HandoffOf(build, scan), ReadFile
    PROVE  HandoffOf(build, scan)'
<1> DEFINE k == Course[at]
           n == Course[at + 1]
           whole == Retained(build, scan)
           file == Now.of
<1>1. Now.op = "read" /\ status = "running" /\ Continue
  BY DEF ReadFile, Doing
<1>2. file \in File
  BY <1>1, NowIsTyped DEF Typed, Plain, WriteManifest
<1>3. /\ file \in k.have
      /\ n.have = k.have /\ n.kept = k.kept /\ n.passed \subseteq k.passed
      /\ n.once \subseteq k.once \cup {file}
      /\ n.twice \subseteq k.twice \cup (k.once \cap {file})
  BY <1>1, NowIsPossible DEF Possible, Follows, Adds
<1>4. /\ disk = Filled(k.have, whole) /\ stored = Filled(k.kept, whole)
      /\ ReadingsOf(read, k, whole)
      /\ \A check \in k.passed : Passed(check, build)
  BY <1>1 DEF HandoffOf
<1>5. read' = [read EXCEPT ![file] = Append(@, disk[file])] /\ disk' = disk /\ stored' = stored
  BY DEF ReadFile
<1> HIDE DEF k, n, whole, file
<1>6. disk[file] = whole[file]
  BY <1>2, <1>3, <1>4 DEF Filled
<1>7. ReadingsOf(read', n, whole)
  BY <1>2, <1>3, <1>4, <1>5, <1>6, ReadingsGain
<1> QED
  BY <1>1, <1>3, <1>4, <1>5, <1>7, HandoffAdvances DEF n, whole

LEMMA HonestPass ==
    ASSUME SignedInv, NEW build \in Builds, NEW scan \in Scans, HandoffOf(build, scan), Pass
    PROVE  HandoffOf(build, scan)'
<1> DEFINE k == Course[at]
           n == Course[at + 1]
           whole == Retained(build, scan)
           check == Now.of
<1>1. Now.op = "check" /\ status = "running" /\ Continue /\ Holds(check)
  BY DEF Pass, Doing
<1>2. /\ CheckedOn(check, k)
      /\ n.have = k.have /\ n.kept = k.kept
      /\ n.once \subseteq k.once /\ n.twice \subseteq k.twice
      /\ n.passed \subseteq k.passed \cup (Checks \cap {check})
  BY <1>1, NowIsPossible DEF Possible, Follows, Adds
<1>3. /\ disk = Filled(k.have, whole) /\ stored = Filled(k.kept, whole)
      /\ ReadingsOf(read, k, whole)
      /\ \A one \in k.passed : Passed(one, build)
  BY <1>1 DEF HandoffOf
<1>4. disk' = disk /\ stored' = stored /\ read' = read
  BY DEF Pass
<1>5. check = "sealable" => Passed(check, build)
  BY <1>1, <1>2, <1>3, SealableDecides DEF Holds
<1>6. check = "output" => Passed(check, build)
  BY <1>1, <1>2, <1>3, OutputDecides DEF Holds
<1> HIDE DEF k, n, whole, check
<1>7. \A one \in n.passed : Passed(one, build)
  BY <1>2, <1>3, <1>5, <1>6 DEF Checks
<1>8. ReadingsOf(read', n, whole)
  BY <1>2, <1>3, <1>4, ReadingsLast
<1> QED
  BY <1>1, <1>2, <1>3, <1>4, <1>7, <1>8, HandoffAdvances DEF n, whole

LEMMA HonestRefuse ==
    ASSUME SignedInv, NEW build \in Builds, NEW scan \in Scans, HandoffOf(build, scan), Refuse
    PROVE  HandoffOf(build, scan)'
<1> DEFINE k == Course[at]
           whole == Retained(build, scan)
           of == Now.of
<1>1. status = "running"
  BY DEF Refuse, Doing
<1>2. /\ disk = Filled(k.have, whole)
      /\ ReadingsOf(read, k, whole)
  BY <1>1 DEF HandoffOf
<1>3. ~(Doing("read") /\ disk[Now.of] = NONE)
  <2> SUFFICES ASSUME Now.op = "read" PROVE disk[of] # NONE
    BY DEF Doing
  <2>1. of \in File /\ of \in k.have
    BY NowIsTyped, NowIsPossible DEF Typed, Plain, WriteManifest, Possible
  <2> QED
    BY <1>2, <2>1, EvidenceAssumption DEF Filled
<1>4. ~(Doing("create") /\ disk[Now.of] # NONE)
  <2> SUFFICES ASSUME Now.op = "create" PROVE disk[of] = NONE
    BY DEF Doing
  <2>1. of \in File /\ of \notin k.have
    BY NowIsTyped, NowIsPossible
       DEF Typed, Plain, WriteManifest, Possible, MadeFiles, File, Listed, BuilderWritten
  <2> QED
    BY <1>2, <2>1 DEF Filled
<1>5. Now.op = "check" /\ ~Holds(of)
  BY <1>3, <1>4 DEF Refuse, Doing
<1>6. CheckedOn(of, k)
  BY <1>5, NowIsPossible DEF Possible
<1>7. of \in Checks
  BY <1>2, <1>5, <1>6, OtherChecksHold
<1>8. BuilderWritten \subseteq k.have
  BY <1>6, <1>7 DEF CheckedOn, Checks
<1>9. ~Honest(build)
  <2>1. CASE of = "sealable"
    <3>1. ~Passed("sealable", build)
      BY <1>2, <1>5, <1>6, <2>1, SealableDecides DEF Holds
    <3> QED
      BY <3>1, HonestPasses
  <2>2. CASE of = "output"
    <3>1. ~Passed("output", build)
      BY <1>2, <1>5, <1>6, <2>2, OutputDecides DEF Holds
    <3> QED
      BY <3>1, HonestPasses
  <2> QED
    BY <1>7, <2>1, <2>2 DEF Checks
<1> QED
  BY <1>8, <1>9 DEF Refuse, HandoffOf

LEMMA HonestWrite ==
    ASSUME SignedInv, NEW build \in Builds, NEW scan \in Scans, HandoffOf(build, scan),
           attempt = 1, WriteFile
    PROVE  HandoffOf(build, scan)'
<1> DEFINE k == Course[at]
           n == Course[at + 1]
           whole == Retained(build, scan)
           file == Now.of
<1>1. Now.op \in {"write", "create"} /\ status = "running" /\ Continue
  BY DEF WriteFile, Doing
<1>2. file \in MadeFiles \cup {"manifest"}
  BY <1>1, NowIsTyped DEF Typed, Plain, WriteManifest
<1>3. file \in File
  BY <1>2 DEF MadeFiles, File, Listed
<1>4. /\ MadeFrom(file, k)
      /\ n.have = k.have \cup {file} /\ n.kept = k.kept /\ n.passed \subseteq k.passed
      /\ n.once \subseteq k.once /\ n.twice \subseteq k.twice
  BY <1>1, NowIsPossible DEF Possible, Follows, Adds
<1>5. /\ disk = Filled(k.have, whole) /\ stored = Filled(k.kept, whole)
      /\ ReadingsOf(read, k, whole)
      /\ \A check \in k.passed : Passed(check, build)
  BY <1>1 DEF HandoffOf
<1>6. disk' = [disk EXCEPT ![file] = Made(file)] /\ stored' = stored /\ read' = read
  BY DEF WriteFile
<1>7. Made(file) = whole[file]
  BY <1>2, <1>4, <1>5, MadeAsItWasToBe DEF Run, FirstRun
<1> HIDE DEF k, n, whole, file
<1>8. disk' = Filled(n.have, whole)
  BY <1>3, <1>4, <1>5, <1>6, <1>7, FilledAdd
<1>9. ReadingsOf(read', n, whole)
  BY <1>4, <1>5, <1>6, ReadingsLast
<1> QED
  BY <1>1, <1>4, <1>5, <1>6, <1>8, <1>9, HandoffAdvances DEF n, whole

LEMMA HonestScan ==
    ASSUME SignedInv, NEW build \in Builds, NEW scan \in Scans, HandoffOf(build, scan), Scan
    PROVE  \E other \in Scans : HandoffOf(build, other)'
<1> DEFINE k == Course[at]
           n == Course[at + 1]
<1>1. Now.op = "scan" /\ status = "running" /\ Continue
  BY DEF Scan, Doing
<1>2. PICK other \in Scans : disk' = [disk EXCEPT !.syft = other]
  BY DEF Scan
<1> DEFINE before == Retained(build, scan)
           whole == Retained(build, other)
<1>3. /\ k.have \cup k.kept \subseteq Sealed
      /\ n.have = k.have \cup {"syft"} /\ n.kept = k.kept /\ n.passed \subseteq k.passed
      /\ n.once \subseteq k.once /\ n.twice \subseteq k.twice
  BY <1>1, NowIsPossible DEF Possible, Follows, Adds
<1>4. /\ disk = Filled(k.have, before) /\ stored = Filled(k.kept, before)
      /\ ReadingsOf(read, k, before)
      /\ \A check \in k.passed : Passed(check, build)
  BY <1>1 DEF HandoffOf
<1>5. stored' = stored /\ read' = read
  BY DEF Scan
<1>6. \A file \in k.have \cup k.kept : before[file] = whole[file]
  BY <1>3, BeforeScan
<1>7. whole["syft"] = other /\ "syft" \in File
  BY DescribedFiles DEF File, Listed
<1> HIDE DEF k, n, whole, before
<1>8. disk = Filled(k.have, whole) /\ stored = Filled(k.kept, whole)
  BY <1>4, <1>6, FilledOther
<1>9. disk' = Filled(n.have, whole)
  BY <1>2, <1>3, <1>7, <1>8, FilledAdd
<1>10. ReadingsOf(read', n, whole)
  <2>1. ReadingsOf(read, k, whole)
    BY <1>4, <1>6, ReadingsOfOther
  <2> QED
    BY <1>3, <1>5, <2>1, ReadingsLast
<1> QED
  BY <1>1, <1>3, <1>4, <1>5, <1>8, <1>9, <1>10, HandoffAdvances DEF n, whole

LEMMA HonestAttest ==
    ASSUME SignedInv, NEW build \in Builds, NEW scan \in Scans, HandoffOf(build, scan),
           attempt = 1, Attest
    PROVE  HandoffOf(build, scan)'
<1> DEFINE k == Course[at]
           n == Course[at + 1]
           whole == Retained(build, scan)
           role == Now.of
           predicate == CASE role = "provenance" -> Provenance(Run)
                          [] role = "sbom" -> disk.sbom
                          [] role = "build" -> disk.predicate
           statement == Attestation(role, disk.subjects, predicate, Run)
<1>1. Now.op = "attest" /\ status = "running" /\ Continue
  BY DEF Attest, Doing
<1>2. role \in Roles
  BY <1>1, NowIsTyped DEF Typed, Plain, WriteManifest
<1>3. /\ {"subjects", "sbom", "predicate"} \subseteq k.have
      /\ n.have = k.have \cup {BundleFile(role)} /\ n.kept = k.kept
      /\ n.passed \subseteq k.passed /\ n.once \subseteq k.once /\ n.twice \subseteq k.twice
  BY <1>1, NowIsPossible DEF Possible, Follows, Adds
<1>4. /\ disk = Filled(k.have, whole) /\ stored = Filled(k.kept, whole)
      /\ ReadingsOf(read, k, whole)
      /\ \A check \in k.passed : Passed(check, build)
  BY <1>1 DEF HandoffOf
<1>5. /\ disk' = [disk EXCEPT ![BundleFile(role)] = statement]
      /\ stored' = stored /\ read' = read
  BY DEF Attest
<1>6. BundleFile(role) \in File
  BY <1>2 DEF BundleFile, Roles, File, Listed, BundleFiles
<1>7. Run = FirstRun
  BY DEF Run, FirstRun
<1>8. statement = whole[BundleFile(role)]
  <2>1. {"subjects", "sbom", "predicate"} \subseteq File
    BY DEF File, Listed
  <2>2. /\ disk.subjects = whole.subjects /\ disk.sbom = whole.sbom
        /\ disk.predicate = whole.predicate
    BY <1>3, <1>4, <2>1 DEF Filled
  <2>3. whole.subjects = build.dist /\ whole.sbom = NormalizedSpdx(scan, build.dist)
    BY DescribedFiles
  <2>4. /\ whole.provenance_bundle =
               Attestation("provenance", build.dist, Provenance(FirstRun), FirstRun)
        /\ whole.sbom_bundle =
               Attestation("sbom", build.dist, NormalizedSpdx(scan, build.dist), FirstRun)
        /\ whole.build_bundle = Attestation("build", build.dist, whole.predicate, FirstRun)
    BY StatementFiles
  <2> HIDE DEF whole, k, role
  <2>5. CASE role = "provenance"
    BY <1>7, <2>2, <2>3, <2>4, <2>5 DEF BundleFile
  <2>6. CASE role = "sbom"
    BY <1>7, <2>2, <2>3, <2>4, <2>6 DEF BundleFile
  <2>7. CASE role = "build"
    BY <1>7, <2>2, <2>3, <2>4, <2>7 DEF BundleFile
  <2> QED
    BY <1>2, <2>5, <2>6, <2>7 DEF Roles
<1> HIDE DEF k, n, whole, role, statement
<1>9. disk' = Filled(n.have, whole)
  BY <1>3, <1>4, <1>5, <1>6, <1>8, FilledAdd
<1>10. ReadingsOf(read', n, whole)
  BY <1>3, <1>4, <1>5, ReadingsLast
<1> QED
  BY <1>1, <1>3, <1>4, <1>5, <1>9, <1>10, HandoffAdvances DEF n, whole

LEMMA HonestUpload ==
    ASSUME SignedInv, NEW build \in Builds, NEW scan \in Scans, HandoffOf(build, scan), Upload
    PROVE  HandoffOf(build, scan)'
<1> DEFINE k == Course[at]
           n == Course[at + 1]
           whole == Retained(build, scan)
<1>1. Now.op = "upload" /\ status = "running" /\ Continue
  BY DEF Upload, Doing
<1>2. /\ k.kept \subseteq k.have
      /\ n.have = {} /\ n.kept = k.have /\ n.passed \subseteq k.passed
      /\ n.once \subseteq k.once /\ n.twice \subseteq k.twice
  BY <1>1, NowIsPossible DEF Possible, Follows
<1>3. /\ disk = Filled(k.have, whole) /\ ReadingsOf(read, k, whole)
      /\ \A check \in k.passed : Passed(check, build)
  BY <1>1 DEF HandoffOf
<1>4. stored' = disk /\ disk' = Nothing /\ read' = read
  BY DEF Upload
<1> HIDE DEF k, n, whole
<1>5. disk' = Filled(n.have, whole)
  BY <1>2, <1>4 DEF Nothing, Filled
<1>6. ReadingsOf(read', n, whole)
  BY <1>2, <1>3, <1>4, ReadingsLast
<1> QED
  BY <1>1, <1>2, <1>3, <1>4, <1>5, <1>6, HandoffAdvances DEF n, whole

LEMMA HonestDownload ==
    ASSUME SignedInv, NEW build \in Builds, NEW scan \in Scans, HandoffOf(build, scan), Download
    PROVE  HandoffOf(build, scan)'
<1> DEFINE k == Course[at]
           n == Course[at + 1]
           whole == Retained(build, scan)
<1>1. Now.op = "download" /\ status = "running" /\ Continue
  BY DEF Download, Doing
<1>2. /\ n.have = k.kept /\ n.kept = k.kept /\ n.passed \subseteq k.passed
      /\ n.once \subseteq {} /\ n.twice \subseteq {}
  BY <1>1, NowIsPossible DEF Follows
<1>3. /\ stored = Filled(k.kept, whole)
      /\ \A check \in k.passed : Passed(check, build)
  BY DEF HandoffOf
<1>4. disk' = stored /\ stored' = stored /\ read' = NoReadings
  BY DEF Download
<1> HIDE DEF k, n, whole
<1>5. ReadingsOf(read', n, whole)
  BY <1>2, <1>4, ReadingsStart
<1> QED
  BY <1>1, <1>2, <1>3, <1>4, <1>5, HandoffAdvances DEF n, whole

LEMMA HonestFinish ==
    ASSUME NEW build \in Builds, NEW scan \in Scans, HandoffOf(build, scan), Finish
    PROVE  HandoffOf(build, scan)'
BY DEF Finish, HandoffOf, Doing, Now

LEMMA HonestCommand ==
    ASSUME SignedInv, attempt = 1, HandoffStep,
           \E build \in Builds, scan \in Scans : HandoffOf(build, scan)
    PROVE  \E build \in Builds, scan \in Scans : HandoffOf(build, scan)'
BY HonestBuild, HonestBegin, HonestRead, HonestPass, HonestRefuse, HonestWrite, HonestScan,
   HonestAttest, HonestUpload, HonestDownload, HonestFinish DEF HandoffStep

---------------------------------------------------------------------------
(* What the verifier has found out so far, of the whole directory.         *)
VerifiesWhole(whole) ==
    /\ phase \in Phases \ {"refused"}
    /\ phase # "idle" => status = "uploaded" /\ entry = whole.manifest
    /\ phase = "files" => todo \in Seq(Listed) /\ todo # <<>>
    /\ phase = "raw_traces" => observed = whole.trace

(* Each file of an honest build's directory, as the manifest has it.       *)
LEMMA WholeFiles ==
    ASSUME NEW build, NEW scan, NEW listed, listed = Retained(build, scan).manifest
    PROVE  \A file \in Listed : listed[file] = Retained(build, scan)[file]
BY ListedFiles

(* Every check of the verifier's holds of an honest build's evidence, ...  *)
LEMMA WholeReports ==
    ASSUME NEW build \in Builds, NEW scan \in Scans, Honest(build),
           NEW listed, listed = Retained(build, scan).manifest
    PROVE  /\ listed.subjects = listed.dist
           /\ RetainedSpdx(listed)
           /\ RetainedSource(listed) /\ RetainedHandoffSeal(listed) /\ RetainedTransform(listed)
           /\ RetainedBuilderReport(listed)
           /\ ArchivesMatch(listed.raw_artifacts, listed.dist, listed.transforms)
<1> DEFINE whole == Retained(build, scan)
<1>1. /\ listed.dist = build.dist /\ listed.raw_artifacts = build.raw
      /\ listed.source_inventory = build.source /\ listed.raw_trace = build.trace
      /\ listed.trace = ParseStraceDirectory(build.trace)
      /\ listed.artifact_inventory = build.dist
      /\ listed.transforms = TransformReport(build.raw, build.dist)
      /\ listed.builder = BuilderReport(build)
  <2>1. BuilderWritten \subseteq Listed
    BY DEF Listed
  <2> QED
    BY <2>1, WholeFiles, BuiltFiles DEF BuilderWritten
<1>2. /\ listed.trusted = TrustedSource(build.source)
      /\ listed.seal = HandoffSeal(TrustedSource(build.source), build.source,
                                   DOMAIN build.trace)
      /\ listed.syft = scan /\ listed.sbom = NormalizedSpdx(scan, build.dist)
      /\ listed.spdx_report = SpdxReport(scan, NormalizedSpdx(scan, build.dist), build.dist)
      /\ listed.subjects = build.dist
  <2>1. {"trusted", "seal", "syft", "sbom", "spdx_report", "subjects"} \subseteq Listed
    BY DEF Listed
  <2> QED
    BY <2>1, WholeFiles, DescribedFiles
<1>3. /\ build.succeeded /\ build.boundary = "fixed"
      /\ build.source = InventoryTrustedSource
      /\ Payload[build.raw] = Payload[build.dist] /\ build.dist \in CanonicalOf
  BY DEF Honest
<1>4. RetainedSpdx(listed)
  BY <1>1, <1>2 DEF RetainedSpdx
<1>5. RetainedSource(listed)
  <2>1. ValidSourceInventory(build.source)
    BY <1>3 DEF ValidSourceInventory, InventoryTrustedSource, Inventory
  <2> QED
    BY <1>1, <1>2, <2>1 DEF RetainedSource
<1>6. RetainedHandoffSeal(listed)
  BY <1>1, <1>2 DEF RetainedHandoffSeal
<1>7. RetainedTransform(listed)
  BY <1>1, BuilderFields DEF RetainedTransform
<1>8. RetainedBuilderReport(listed)
  <2>1. /\ listed.builder.request = Request
        /\ listed.builder.source = listed.source_inventory.tree_sha256
        /\ listed.builder.transforms = listed.transforms
        /\ listed.builder.trace = TraceSummary(listed.trace)
    BY <1>1, BuilderFields
  <2>4. RawIdentityBoundary(listed.builder)
    <3>1. build.boundary = "fixed"
      BY <1>3, Zenon
    <3>2. listed.builder.boundary = build.boundary
      BY <1>1, BuilderFields
    <3> QED
      BY <3>1, <3>2 DEF RawIdentityBoundary
  <2>2. listed.builder.succeeded = build.succeeded
    BY <1>1, BuilderFields
  <2>3. listed.builder.succeeded
    BY <1>3, <2>2, Zenon
  <2> QED
    BY <2>1, <2>3, <2>4, Zenon DEF RetainedBuilderReport
<1>9. ArchivesMatch(listed.raw_artifacts, listed.dist, listed.transforms)
  BY <1>1, <1>3, BuilderFields DEF ArchivesMatch
<1> QED
  BY <1>1, <1>2, <1>4, <1>5, <1>6, <1>7, <1>8, <1>9

LEMMA WholeStatements ==
    ASSUME NEW build \in Builds, NEW scan \in Scans, Honest(build),
           NEW listed, listed = Retained(build, scan).manifest
    PROVE  /\ RetainedPredicate(listed)
           /\ RetainedTrace(Retained(build, scan).trace, listed.raw_trace)
           /\ \A role \in Roles : ValidVerifiedStatement(role, listed[BundleFile(role)], listed)
<1> DEFINE whole == Retained(build, scan)
<1>1. /\ listed.dist = build.dist /\ listed.raw_trace = build.trace
      /\ listed.sbom = NormalizedSpdx(scan, build.dist)
      /\ listed.predicate = whole.predicate
      /\ listed.provenance_bundle = whole.provenance_bundle
      /\ listed.sbom_bundle = whole.sbom_bundle
      /\ listed.build_bundle = whole.build_bundle
  <2>1. {"dist", "raw_trace", "sbom", "predicate", "provenance_bundle", "sbom_bundle",
         "build_bundle"} \subseteq Listed
    BY DEF Listed, BuilderWritten, BundleFiles
  <2> QED
    BY <2>1, WholeFiles, BuiltFiles, DescribedFiles
<1>2. /\ whole.predicate = BuildPredicate(build.dist,
                               [digest \in PredicateDigests |-> whole[digest]], FirstRun)
      /\ \A digest \in PredicateDigests : listed[digest] = whole[digest]
  <2>1. PredicateDigests \subseteq Listed
    BY DEF PredicateDigests, Listed, BuilderWritten
  <2> QED
    BY <2>1, WholeFiles, PredicateFile
<1>3. whole.trace = ParseStraceDirectory(build.trace)
  BY BuiltFiles
<1>4. /\ whole.provenance_bundle =
             Attestation("provenance", build.dist, Provenance(FirstRun), FirstRun)
      /\ whole.sbom_bundle =
             Attestation("sbom", build.dist, NormalizedSpdx(scan, build.dist), FirstRun)
      /\ whole.build_bundle = Attestation("build", build.dist, whole.predicate, FirstRun)
  BY StatementFiles
<1> HIDE DEF whole
<1>5. [digest \in PredicateDigests |-> listed[digest]]
          = [digest \in PredicateDigests |-> whole[digest]]
  BY <1>2
<1> DEFINE digests == [digest \in PredicateDigests |-> listed[digest]]
<1>6. listed.predicate = BuildPredicate(listed.dist, digests, FirstRun)
  BY <1>1, <1>2, <1>5
<1> HIDE DEF digests
<1>7. listed.predicate.run = FirstRun
  BY <1>6 DEF BuildPredicate
<1>8. RetainedPredicate(listed)
  <2>1. FirstRun.attempt = 1
    BY DEF FirstRun
  <2> QED
    BY <1>6, <1>7, <2>1 DEF RetainedPredicate, digests
<1>9. RetainedTrace(whole.trace, listed.raw_trace)
  <2> DEFINE trace == ParseStraceDirectory(build.trace)
  <2>1. ReductionsAgree(build.trace)
    BY ReductionsAlwaysAgree, EvidenceAssumption
  <2>2. /\ trace.covered /\ trace.syscall > 0
        /\ Decodes(build.trace) /\ DOMAIN build.trace \subseteq TraceNames
    BY DEF Honest
  <2>3. /\ ~RawTraceRefused(build.trace)
        /\ ValidCompleteTrace(trace, VerifyRawTraceRecords(build.trace))
    BY <2>1, <2>2 DEF ReductionsAgree
  <2> HIDE DEF trace
  <2> QED
    BY <1>1, <1>3, <2>3 DEF RetainedTrace, trace
<1>10. ValidVerifiedStatement("provenance", listed.provenance_bundle, listed)
  BY <1>1, <1>4, <1>7 DEF ValidVerifiedStatement, ValidCertificate, ValidProvenance,
                          Attestation, Provenance
<1>11. ValidVerifiedStatement("sbom", listed.sbom_bundle, listed)
  BY <1>1, <1>4, <1>7 DEF ValidVerifiedStatement, ValidCertificate, Attestation
<1>12. ValidVerifiedStatement("build", listed.build_bundle, listed)
  BY <1>1, <1>4, <1>7 DEF ValidVerifiedStatement, ValidCertificate, Attestation
<1>13. /\ BundleFile("provenance") = "provenance_bundle" /\ BundleFile("sbom") = "sbom_bundle"
       /\ BundleFile("build") = "build_bundle"
  BY DEF BundleFile
<1> QED
  BY <1>8, <1>9, <1>10, <1>11, <1>12, <1>13 DEF Roles, whole

(* ... so it refuses nothing, in any phase, ...                            *)
LEMMA WholeIsAcceptable ==
    ASSUME NEW build \in Builds, NEW scan \in Scans, Honest(build),
           disk = Retained(build, scan), VerifiesWhole(Retained(build, scan)), Verifying
    PROVE  Acceptable
<1> DEFINE whole == Retained(build, scan)
<1>1. entry = whole.manifest
  BY DEF VerifiesWhole, Verifying
<1>2. \A file \in Listed : entry[file] = whole[file] /\ disk[file] = whole[file]
  BY <1>1, WholeFiles
<1>3. /\ entry.subjects = entry.dist
      /\ RetainedSpdx(entry)
      /\ RetainedSource(entry) /\ RetainedHandoffSeal(entry) /\ RetainedTransform(entry)
      /\ RetainedBuilderReport(entry)
      /\ ArchivesMatch(entry.raw_artifacts, entry.dist, entry.transforms)
  BY <1>1, WholeReports
<1>4. /\ RetainedPredicate(entry)
      /\ RetainedTrace(whole.trace, entry.raw_trace)
      /\ \A role \in Roles : ValidVerifiedStatement(role, entry[BundleFile(role)], entry)
  BY <1>1, WholeStatements
<1>5. \A files \in SUBSET Listed : Unchanged(files)
  BY <1>2 DEF Unchanged
<1>6. {"raw_artifacts", "dist", "trace"} \subseteq Listed /\ Listed \subseteq File
  BY DEF Listed, BuilderWritten, File
<1>7. /\ disk.raw_artifacts = entry.raw_artifacts /\ disk.dist = entry.dist
      /\ disk.raw_artifacts # NONE /\ disk.dist # NONE /\ disk.trace # NONE
  BY <1>2, <1>6, EvidenceAssumption
<1>8. /\ phase = "files" => todo \in Seq(Listed) /\ todo # <<>>
      /\ phase = "raw_traces" => observed = whole.trace
  BY DEF VerifiesWhole
<1> HIDE DEF whole
<1>9. CASE phase = "files"
  <2>1. Head(todo) \in Listed
    BY <1>8, <1>9
  <2> QED
    BY <1>5, <1>8, <1>9, <2>1 DEF Acceptable, FileHolds
<1>10. CASE phase = "subjects"
  <2>1. {"subjects"} \subseteq Listed
    BY DEF Listed
  <2> QED
    BY <1>3, <1>5, <1>10, <2>1 DEF Acceptable, SubjectsHold
<1>11. CASE phase = "spdx"
  <2>1. {"spdx_report", "syft", "sbom"} \subseteq Listed
    BY DEF Listed
  <2> QED
    BY <1>3, <1>5, <1>11, <2>1 DEF Acceptable, SpdxHolds
<1>12. CASE phase = "reports"
  <2>1. ReportFiles \subseteq Listed
    BY DEF ReportFiles, Listed, BuilderWritten
  <2> QED
    BY <1>3, <1>5, <1>12, <2>1 DEF Acceptable, ReportsHold
<1>13. CASE phase = "archives"
  BY <1>3, <1>7, <1>13 DEF Acceptable, ArchivesHold
<1>14. CASE phase = "predicate"
  <2>1. {"predicate"} \subseteq Listed
    BY DEF Listed
  <2> QED
    BY <1>4, <1>5, <1>14, <2>1 DEF Acceptable, PredicateHolds
<1>15. CASE phase = "trace"
  BY <1>7, <1>15 DEF Acceptable, TraceThere
<1>16. CASE phase = "raw_traces"
  <2>1. {"raw_trace"} \subseteq Listed
    BY DEF Listed, BuilderWritten
  <2> QED
    BY <1>4, <1>5, <1>8, <1>16, <2>1 DEF Acceptable, RawTracesHold
<1>17. CASE phase \in Roles
  <2> DEFINE files == {BundleFile(phase)} \cup {file \in {"dist"} : phase = "provenance"}
  <2>1. files \subseteq Listed
    BY <1>6, <1>17 DEF BundleFile, Roles, Listed, BundleFiles
  <2>2. Unchanged(files)
    BY <1>5, <2>1
  <2>3. BundleHolds(phase)
    BY <1>4, <1>17, <2>2 DEF BundleHolds
  <2>4. Acceptable <=> BundleHolds(phase)
    BY <1>17 DEF Acceptable, Roles
  <2> QED
    BY <2>3, <2>4
<1> QED
  BY <1>9, <1>10, <1>11, <1>12, <1>13, <1>14, <1>15, <1>16, <1>17
     DEF VerifiesWhole, Verifying, Phases, Roles

(* ... and goes on.                                                        *)
LEMMA WholeIsVerified ==
    ASSUME NEW build \in Builds, NEW scan \in Scans, Honest(build),
           disk = Retained(build, scan), VerifiesWhole(Retained(build, scan)),
           status = "uploaded", status' = status, VerifierStep
    PROVE  VerifiesWhole(Retained(build, scan))'
<1> DEFINE whole == Retained(build, scan)
<1>1. /\ phase \in Phases \ {"refused"}
      /\ phase # "idle" => entry = whole.manifest
      /\ phase = "files" => todo \in Seq(Listed) /\ todo # <<>>
      /\ phase = "raw_traces" => observed = whole.trace
  BY DEF VerifiesWhole
<1>2. CASE RefuseEvidence
  BY <1>2, WholeIsAcceptable DEF RefuseEvidence
<1>3. CASE SnapshotManifest
  <2>1. StreamOrder \in Seq(Listed) /\ StreamOrder # <<>>
    BY DEF StreamOrder, Listed, BuilderWritten, BundleFiles
  <2>2. phase' = "files" /\ todo' = StreamOrder /\ entry' = whole.manifest
    BY <1>3 DEF SnapshotManifest
  <2> HIDE DEF whole
  <2> QED
    BY <2>1, <2>2 DEF VerifiesWhole, Phases, whole
<1>4. CASE StreamFile
  <2>1. /\ phase = "files" /\ todo \in Seq(Listed) /\ todo # <<>> /\ entry' = entry
        /\ todo' = Tail(todo) /\ phase' = IF Tail(todo) = <<>> THEN "subjects" ELSE "files"
    BY <1>1, <1>4 DEF StreamFile
  <2>2. Tail(todo) \in Seq(Listed)
    BY <2>1
  <2> HIDE DEF whole
  <2> QED
    BY <1>1, <2>1, <2>2 DEF VerifiesWhole, Phases, whole
<1>5. CASE ReadTrace
  <2>1. phase = "trace" /\ phase' = "raw_traces" /\ observed' = whole.trace /\ entry' = entry
    BY <1>5 DEF ReadTrace
  <2> HIDE DEF whole
  <2> QED
    BY <1>1, <2>1 DEF VerifiesWhole, Phases, whole
<1>6. CASE VerifyBuildBundle
  <2>1. phase = "build" /\ phase' = "done" /\ entry' = entry
    BY <1>6 DEF VerifyBuildBundle
  <2> HIDE DEF whole
  <2> QED
    BY <1>1, <2>1 DEF VerifiesWhole, Phases, whole
<1>7. CASE \/ VerifySubjects \/ VerifySpdx \/ VerifyReports \/ VerifyArchives \/ VerifyPredicate
           \/ VerifyRawTraces \/ VerifyProvenance \/ VerifySbomBundle
  <2>1. /\ phase # "idle" /\ entry' = entry
        /\ phase' \in {"spdx", "reports", "archives", "predicate", "trace", "provenance",
                       "sbom", "build"}
    BY <1>7 DEF VerifySubjects, VerifySpdx, VerifyReports, VerifyArchives, VerifyPredicate,
                VerifyRawTraces, VerifyProvenance, VerifySbomBundle, Accept
  <2> HIDE DEF whole
  <2> QED
    BY <1>1, <2>1 DEF VerifiesWhole, Phases, whole
<1> QED
  BY <1>2, <1>3, <1>4, <1>5, <1>6, <1>7 DEF VerifierStep

(* Left alone, the first attempt is that of one build and one scan of it.  *)
AttemptOf(build, scan) == HandoffOf(build, scan) /\ VerifiesWhole(Retained(build, scan))

HonestInv ==
    /\ attempt \in Nat \ {0} /\ swaps \in Nat
    /\ status \in {"running", "refused", "uploaded"}
    /\ swaps = 0 /\ attempt = 1 => \E build \in Builds, scan \in Scans : AttemptOf(build, scan)

(* What was uploaded is the whole directory, of an honest build.           *)
LEMMA UploadedIsWhole ==
    ASSUME SignedInv, NEW build \in Builds, NEW scan \in Scans, HandoffOf(build, scan),
           status = "uploaded"
    PROVE  disk = Retained(build, scan) /\ Honest(build)
<1> DEFINE k == Course[at]
           whole == Retained(build, scan)
<1>1. k.have = File /\ k.passed = Checks
  <2>1. Now.op = "finish"
    BY DEF HandoffOf
  <2> QED
    BY <2>1, NowIsPossible DEF Possible
<1>2. disk = Filled(k.have, whole) /\ \A check \in k.passed : Passed(check, build)
  BY DEF HandoffOf
<1>3. whole = [file \in File |-> whole[file]]
  BY DEF Retained
<1>4. Honest(build)
  <2>1. Passed("sealable", build) /\ Passed("output", build)
    BY <1>1, <1>2 DEF Checks
  <2> QED
    BY <2>1, HonestPasses
<1> HIDE DEF k, whole
<1>5. disk = whole
  BY <1>1, <1>2, <1>3 DEF Filled
<1> QED
  BY <1>4, <1>5 DEF whole

LEMMA InitHonest == Init => HonestInv
<1> SUFFICES ASSUME Init PROVE HonestInv
  OBVIOUS
<1>1. PICK build \in Builds, scan \in Scans : TRUE
  BY EvidenceAssumption
<1> DEFINE k == Course[1]
           whole == Retained(build, scan)
<1>2. k.have = {} /\ k.kept = {} /\ k.once = {} /\ k.twice = {} /\ k.passed = {}
  BY WorkflowCourse, FieldsKnown DEF K
<1>3. /\ at = 1 /\ disk = Nothing /\ stored = Nothing /\ read = NoReadings
      /\ status = "running" /\ attempt = 1 /\ swaps = 0 /\ phase = "idle"
  BY DEF Init, HandoffInit, VerifierInit
<1> HIDE DEF k, whole
<1>4. Nothing = Filled(k.have, whole) /\ Nothing = Filled(k.kept, whole)
  BY <1>2 DEF Nothing, Filled
<1>5. ReadingsOf(NoReadings, k, whole)
  BY <1>2, ReadingsStart
<1>6. HandoffOf(build, scan)
  BY <1>2, <1>3, <1>4, <1>5 DEF HandoffOf, k, whole
<1>7. VerifiesWhole(whole)
  BY <1>3 DEF VerifiesWhole, Phases
<1> QED
  BY <1>3, <1>6, <1>7 DEF HonestInv, AttemptOf, whole

(* The invariant is inductive: another attempt or an interference ends it. *)
LEMMA NextHonest ==
    ASSUME SignedInv, HonestInv, [Next]_vars
    PROVE  HonestInv'
<1>1. /\ attempt \in Nat \ {0} /\ swaps \in Nat
      /\ status \in {"running", "refused", "uploaded"}
  BY DEF HonestInv
<1>2. CASE Produce
  <2>1. status = "running" /\ HandoffStep /\ UNCHANGED verifierVars
    BY <1>2 DEF Produce, HandoffStep, Build, Begin, ReadFile, Pass, Refuse, WriteFile, Scan,
                Attest, Upload, Download, Finish, Doing
  <2>2. attempt' = attempt /\ swaps' = swaps /\ status' \in {"running", "refused", "uploaded"}
    BY <2>1 DEF HandoffStep, Build, Begin, ReadFile, Pass, Refuse, WriteFile, Scan,
                Attest, Upload, Download, Finish, Continue
  <2>3. ASSUME swaps = 0, attempt = 1
        PROVE  \E build \in Builds, scan \in Scans : AttemptOf(build, scan)'
    <3>1. PICK build \in Builds, scan \in Scans : AttemptOf(build, scan)
      BY <2>3 DEF HonestInv
    <3>2. phase = "idle"
      BY <2>1, <3>1 DEF AttemptOf, VerifiesWhole
    <3>3. phase' = "idle"
      BY <2>1, <3>2 DEF verifierVars
    <3>4. PICK other \in Builds, again \in Scans : HandoffOf(other, again)'
      BY <2>1, <2>3, <3>1, HonestCommand DEF AttemptOf
    <3>5. VerifiesWhole(Retained(other, again))'
      BY <3>3 DEF VerifiesWhole, Phases
    <3> QED
      BY <3>4, <3>5 DEF AttemptOf
  <2> QED
    BY <1>1, <2>2, <2>3 DEF HonestInv
<1>3. CASE Disturb
  <2>1. CASE Rerun
    <3>1. attempt' = attempt + 1 /\ swaps' = swaps /\ status' = "running"
      BY <2>1 DEF Rerun
    <3> QED
      BY <1>1, <3>1 DEF HonestInv
  <2>2. CASE Swap
    <3>1. attempt' = attempt /\ swaps' = swaps + 1 /\ status' = status
      BY <2>2 DEF Swap
    <3> QED
      BY <1>1, <3>1 DEF HonestInv
  <2> QED
    BY <1>3, <2>1, <2>2 DEF Disturb
<1>4. CASE Verify
  <2>1. /\ status = "uploaded" /\ VerifierStep
        /\ disk' = disk /\ stored' = stored /\ at' = at /\ read' = read /\ status' = status
        /\ attempt' = attempt /\ swaps' = swaps
    BY <1>4 DEF Verify, handoffVars
  <2>2. ASSUME swaps = 0, attempt = 1
        PROVE  \E build \in Builds, scan \in Scans : AttemptOf(build, scan)'
    <3>1. PICK build \in Builds, scan \in Scans : AttemptOf(build, scan)
      BY <2>2 DEF HonestInv
    <3>2. disk = Retained(build, scan) /\ Honest(build)
      BY <2>1, <3>1, UploadedIsWhole DEF AttemptOf
    <3>3. VerifiesWhole(Retained(build, scan))'
      BY <2>1, <3>1, <3>2, WholeIsVerified DEF AttemptOf
    <3>4. HandoffOf(build, scan)'
      BY <2>1, <3>1 DEF AttemptOf, HandoffOf, Now
    <3> QED
      BY <3>3, <3>4 DEF AttemptOf
  <2> QED
    BY <1>1, <2>1, <2>2 DEF HonestInv
<1>5. CASE UNCHANGED vars
  <2>1. /\ disk' = disk /\ stored' = stored /\ at' = at /\ read' = read /\ status' = status
        /\ attempt' = attempt /\ swaps' = swaps
        /\ phase' = phase /\ todo' = todo /\ entry' = entry /\ observed' = observed
    BY <1>5 DEF vars, handoffVars, verifierVars
  <2>2. ASSUME swaps = 0, attempt = 1
        PROVE  \E build \in Builds, scan \in Scans : AttemptOf(build, scan)'
    <3>1. PICK build \in Builds, scan \in Scans : AttemptOf(build, scan)
      BY <2>2 DEF HonestInv
    <3>2. HandoffOf(build, scan)'
      BY <2>1, <3>1 DEF AttemptOf, HandoffOf, Now
    <3>3. VerifiesWhole(Retained(build, scan))'
      BY <2>1, <3>1 DEF AttemptOf, VerifiesWhole
    <3> QED
      BY <3>2, <3>3 DEF AttemptOf
  <2> QED
    BY <1>1, <2>1, <2>2 DEF HonestInv
<1> QED
  BY <1>2, <1>3, <1>4, <1>5 DEF Next

(* For any builds, scans, requests, archives and raw traces: left alone,   *)
(* the workflow refuses no build that nothing is wrong with and uploads no *)
(* other, what it uploads is that build's directory, and the verifier      *)
(* refuses nothing of it, in whatever phase and however often it is run.   *)
THEOREM HonestBuildsAreAccepted == Spec => []HonestIsAccepted
<1>1. Spec => [](SignedInv /\ HonestInv)
  <2>1. Init => SignedInv /\ HonestInv
    BY InitSigned, InitHonest
  <2>2. SignedInv /\ HonestInv /\ [Next]_vars => (SignedInv /\ HonestInv)'
    BY NextSigned, NextHonest
  <2> QED
    BY <2>1, <2>2, PTL DEF Spec
<1>2. SignedInv /\ HonestInv => HonestIsAccepted
  <2> SUFFICES ASSUME SignedInv, HonestInv, swaps = 0, attempt = 1
               PROVE  /\ phase # "refused"
                      /\ status = "running" \/
                         \E build \in Builds :
                            /\ Honest(build) <=> status = "uploaded"
                            /\ \A file \in BuilderWritten :
                                  disk[file] = BuilderDirectory(build)[file]
    BY DEF HonestIsAccepted
  <2>1. PICK build \in Builds, scan \in Scans : AttemptOf(build, scan)
    BY DEF HonestInv
  <2>2. phase # "refused"
    BY <2>1 DEF AttemptOf, VerifiesWhole
  <2>3. \A file \in BuilderWritten :
            Retained(build, scan)[file] = BuilderDirectory(build)[file]
    BY BuiltFiles DEF BuilderWritten, BuilderDirectory
  <2>4. BuilderWritten \subseteq File
    BY DEF File, Listed
  <2>5. CASE status = "refused"
    <3>1. ~Honest(build) /\ BuilderWritten \subseteq Course[at].have
          /\ disk = Filled(Course[at].have, Retained(build, scan))
      BY <2>1, <2>5 DEF AttemptOf, HandoffOf
    <3>2. \A file \in BuilderWritten : disk[file] = BuilderDirectory(build)[file]
      BY <2>3, <2>4, <3>1 DEF Filled
    <3> QED
      BY <2>2, <2>5, <3>1, <3>2
  <2>6. CASE status = "uploaded"
    <3>1. disk = Retained(build, scan) /\ Honest(build)
      BY <2>1, <2>6, UploadedIsWhole DEF AttemptOf
    <3> QED
      BY <2>2, <2>3, <2>6, <3>1
  <2> QED
    BY <2>2, <2>5, <2>6 DEF HonestInv
<1> QED
  BY <1>1, <1>2, PTL
==============================================================================
