--------------------------- MODULE EvidenceHandoff ---------------------------
(***************************************************************************)
(* The producer of evidence: the commands of builder_handoff_v3.py as the  *)
(* three jobs of reusable-python-build-v3.yml call them.                   *)
(*                                                                         *)
(* A command reads the directory one file after another and decides on     *)
(* what it read, so `read' keeps every reading of the current command.     *)
(* Between any two steps the job can fail, to be run again as another      *)
(* attempt from what the job before it uploaded, and files can be replaced *)
(* by those of another complete run.                                       *)
(***************************************************************************)
EXTENDS EvidenceBundle

CONSTANTS
    Builds,        \* what the supervised builder may leave behind
    OtherBuilds,   \* what it left in other runs, which completed
    Scans,         \* what the scanner may report
    SwapSets,      \* the sets of files one interference replaces
    MaxAttempts,   \* bound on the runs of a workflow run's jobs
    MaxSwaps       \* bound on interferences

VARIABLES
    stored,    \* the directory the job before it uploaded
    at,        \* the next step of the workflow
    read,      \* file -> the contents the current command read of it
    status,    \* "running", "refused" or "uploaded"
    attempt,   \* the attempt of the workflow run
    signed,    \* every statement ever signed
    swaps      \* interferences so far

handoffVars == <<disk, stored, at, read, status, attempt, signed, swaps>>

Run == [id |-> 1, attempt |-> attempt]
OtherRun == [id |-> 2, attempt |-> 1]

Nothing == [file \in File |-> NONE]
NoReadings == [file \in File |-> <<>>]
Directory(entry) == [file \in File |-> IF file \in DOMAIN entry THEN entry[file] ELSE NONE]

---------------------------------------------------------------------------
(* The workflow, step by step.                                             *)

Step(op, of) == <<[op |-> op, of |-> of]>>
Reads(files) == [i \in 1..Len(files) |-> [op |-> "read", of |-> files[i]]]

(* validate_builder_output: the order in which it opens the files.         *)
ValidationReads ==
    <<"builder", "source_inventory", "trusted", "seal", "trusted",
      "source_inventory", "raw_trace", "artifact_inventory", "dist", "transforms",
      "transforms", "raw_artifacts", "raw_artifacts", "dist", "trace", "raw_trace">>
SpdxReads == <<"syft", "sbom", "spdx_report">>

Validate == Reads(ValidationReads) \o Step("check", "output")
ValidateSbom == Validate \o Reads(SpdxReads) \o Step("check", "spdx")
ValidateAttested == ValidateSbom \o Step("check", "bundles")

Command(steps) == Step("begin", "command") \o steps

Seal ==
    Command(Step("check", "unsealed") \o Reads(<<"raw_trace", "source_inventory", "builder">>)
            \o Step("check", "sealable") \o Step("create", "trusted")
            \o Reads(<<"trusted">>) \o Step("create", "seal"))
    \o Command(Validate)

Normalize ==
    Command(Reads(<<"dist", "syft">>) \o Step("create", "sbom")
            \o Step("write", "spdx_report") \o Reads(SpdxReads) \o Step("check", "spdx"))

SubjectChecksums == Command(ValidateSbom \o Step("create", "subjects"))

Predicate ==
    Command(ValidateSbom \o Reads(<<"subjects">>) \o Step("check", "subjects")
            \o Reads(SpdxReads) \o Step("check", "spdx")
            \o Reads(<<"spdx_report", "artifact_inventory", "transforms", "builder",
                       "source_inventory", "trusted", "seal", "trace">>)
            \o Step("write", "predicate"))

(* create_evidence_manifest digests every listed file, and the manifest is *)
(* verified against the directory once it is written.                      *)
ManifestReads ==
    <<"dist", "raw_artifacts", "syft", "sbom", "build_bundle", "provenance_bundle",
      "sbom_bundle", "trace", "predicate", "artifact_inventory", "subjects",
      "transforms", "builder", "seal", "source_inventory", "spdx_report", "trusted",
      "raw_trace">>

Assemble ==
    Command(ValidateAttested \o Reads(<<"artifact_inventory", "dist", "subjects">>)
            \o Step("check", "current_subjects") \o Reads(ManifestReads)
            \o Step("write", "manifest") \o Reads(ManifestReads)
            \o Step("check", "manifest") \o Step("write", "build_result"))

BuildJob == Step("build", "job") \o Seal \o Command(Validate) \o Step("upload", "job")
InspectJob ==
    Step("download", "job") \o Command(Validate) \o Step("scan", "syft") \o Normalize
    \o SubjectChecksums \o Predicate \o Command(ValidateSbom) \o Step("upload", "job")
AttestJob ==
    Step("download", "job") \o Command(ValidateSbom)
    \o Step("attest", "provenance") \o Step("attest", "sbom") \o Step("attest", "build")
    \o Command(ValidateAttested) \o Assemble \o Step("finish", "job")

Workflow == BuildJob \o InspectJob \o AttestJob

JobStarts == {1, 1 + Len(BuildJob), 1 + Len(BuildJob) + Len(InspectJob)}
JobStart == CHOOSE start \in JobStarts :
                /\ start <= at
                /\ \A other \in JobStarts : other <= at => other <= start

Now == Workflow[at]
Doing(op) == status = "running" /\ Now.op = op
Continue == at' = at + 1 /\ UNCHANGED <<status, attempt, swaps>>

---------------------------------------------------------------------------
(* What a check demands of the readings, and of the directory when it only *)
(* asks whether a file exists.                                             *)

Unsealed == disk.trusted = NONE /\ disk.seal = NONE

(* The raw traces are there, under their names, and the collector's own;   *)
(* the builder's inventory is the host's, and its report the request's.    *)
LiveBoundary == DOMAIN read.raw_trace[1] \in (SUBSET TraceNames) \ {{}}

Sealable ==
    /\ LiveBoundary
    /\ ValidSourceInventory(read.source_inventory[1])
    /\ read.source_inventory[1] = InventoryTrustedSource
    /\ read.builder[1].request = Request
    /\ read.builder[1].source = InventoryTrustedSource.tree_sha256

ValidSubjectChecksums(expected) == Latest(read.subjects) = expected

AttestationsRetained == \A file \in BundleFiles : disk[file] # NONE

ManifestVerifies ==
    \A file \in Listed : Latest(read[file]) = disk.manifest[file]

Holds(check) ==
    CASE check = "unsealed" -> Unsealed
      [] check = "sealable" -> Sealable
      [] check = "output" -> ValidBuilderOutput(read)
      [] check = "spdx" -> ValidSpdxBundle(read)
      [] check = "subjects" -> ValidSubjectChecksums(read.artifact_inventory[1])
      [] check = "current_subjects" -> ValidSubjectChecksums(Latest(read.dist))
      [] check = "bundles" -> AttestationsRetained
      [] check = "manifest" -> ManifestVerifies

(* What a step writes, from the readings of its command.                   *)
Made(file) ==
    CASE file = "trusted" -> TrustedSource(InventoryTrustedSource)
      [] file = "seal" -> HandoffSeal(Latest(read.trusted), InventoryTrustedSource,
                                      DOMAIN read.raw_trace[1])
      [] file = "sbom" -> NormalizedSpdx(read.syft[1], read.dist[1])
      [] file = "spdx_report" ->
             SpdxReport(read.syft[1], NormalizedSpdx(read.syft[1], read.dist[1]),
                        read.dist[1])
      [] file = "subjects" -> read.artifact_inventory[1]
      [] file = "predicate" ->
             BuildPredicate(read.artifact_inventory[1],
                 [digest \in PredicateDigests |-> Latest(read[digest])], Run)
      [] file = "manifest" -> [listed \in Listed |-> Latest(read[listed])]
      [] file = "build_result" -> "succeeded"

---------------------------------------------------------------------------
HandoffInit ==
    /\ disk = Nothing /\ stored = Nothing
    /\ at = 1 /\ read = NoReadings /\ status = "running"
    /\ attempt = 1 /\ signed = {} /\ swaps = 0

(* The supervised builder fills an empty directory.                        *)
Build ==
    /\ Doing("build")
    /\ \E build \in Builds : disk' = Directory(BuilderDirectory(build))
    /\ Continue
    /\ UNCHANGED <<stored, read, signed>>

Begin ==
    /\ Doing("begin")
    /\ read' = NoReadings
    /\ Continue
    /\ UNCHANGED <<disk, stored, signed>>

ReadFile ==
    /\ Doing("read") /\ disk[Now.of] # NONE
    /\ read' = [read EXCEPT ![Now.of] = Append(@, disk[Now.of])]
    /\ Continue
    /\ UNCHANGED <<disk, stored, signed>>

Pass ==
    /\ Doing("check") /\ Holds(Now.of)
    /\ Continue
    /\ UNCHANGED <<disk, stored, read, signed>>

(* A missing file, a failed check, or an exclusive write that finds the    *)
(* file already there ends the command, and with it the job.               *)
Refuse ==
    /\ \/ Doing("read") /\ disk[Now.of] = NONE
       \/ Doing("check") /\ ~Holds(Now.of)
       \/ Doing("create") /\ disk[Now.of] # NONE
    /\ status' = "refused"
    /\ UNCHANGED <<disk, stored, at, read, attempt, signed, swaps>>

WriteFile ==
    /\ \/ Doing("write")
       \/ Doing("create") /\ disk[Now.of] = NONE
    /\ disk' = [disk EXCEPT ![Now.of] = Made(Now.of)]
    /\ Continue
    /\ UNCHANGED <<stored, read, signed>>

Scan ==
    /\ Doing("scan")
    /\ \E scan \in Scans : disk' = [disk EXCEPT !.syft = scan]
    /\ Continue
    /\ UNCHANGED <<stored, read, signed>>

(* The attestation service signs the files as they are at this moment, for *)
(* the invocation that asks; the bundle is kept in the directory.          *)
Attest ==
    /\ Doing("attest")
    /\ LET role == Now.of
           predicate == CASE role = "provenance" -> Provenance(Run)
                          [] role = "sbom" -> disk.sbom
                          [] role = "build" -> disk.predicate
           statement == Attestation(role, disk.subjects, predicate, Run)
       IN  /\ signed' = signed \cup {statement}
           /\ disk' = [disk EXCEPT ![BundleFile(role)] = statement]
    /\ Continue
    /\ UNCHANGED <<stored, read>>

Upload ==
    /\ Doing("upload")
    /\ stored' = disk
    /\ disk' = Nothing
    /\ Continue
    /\ UNCHANGED <<read, signed>>

Download ==
    /\ Doing("download")
    /\ disk' = stored
    /\ read' = NoReadings
    /\ Continue
    /\ UNCHANGED <<stored, signed>>

(* The retained evidence is uploaded: what a verifier will be given.       *)
Finish ==
    /\ Doing("finish")
    /\ status' = "uploaded"
    /\ read' = NoReadings
    /\ UNCHANGED <<disk, stored, at, attempt, signed, swaps>>

(* A job fails, or is cancelled, anywhere; its next attempt starts over in *)
(* a fresh workspace.  The build job begins with a refusal of every        *)
(* attempt but the first (reusable-python-build-v3.yml:83), so that only   *)
(* the other two get any further when they are run again.                  *)
Rerun ==
    /\ status # "uploaded" /\ attempt < MaxAttempts
    /\ JobStart # 1 /\ at # JobStart
    /\ attempt' = attempt + 1
    /\ at' = JobStart
    /\ status' = "running"
    /\ disk' = Nothing /\ read' = NoReadings
    /\ UNCHANGED <<stored, signed, swaps>>

(* Whether the next step can tell if the files were replaced before it or  *)
(* after it: a step that looks at no file, or at others, cannot.           *)
Distinguishes(step, files) ==
    CASE step.op = "read" -> step.of \in files
      [] step.op = "check" -> step.of \in {"unsealed", "bundles"}
      [] step.op = "begin" -> FALSE
      [] OTHER -> TRUE

(* Files of another complete run of the same request take the place of     *)
(* this run's.  Nothing can tell when exactly before the next step that    *)
(* looks at them this happened, so it happens just before that step.       *)
Swap ==
    /\ swaps < MaxSwaps
    /\ \E files \in SwapSets, build \in OtherBuilds, scan \in Scans :
          /\ status = "running" => Distinguishes(Now, files)
          /\ LET other == Bundle(build, scan, OtherRun)
             IN  disk' = [file \in File |->
                             CASE file \notin files -> disk[file]
                               [] file = "manifest" -> other
                               [] OTHER -> other[file]]
    /\ disk' # disk
    /\ swaps' = swaps + 1
    /\ UNCHANGED <<stored, at, read, status, attempt, signed>>

HandoffStep ==
    \/ Build \/ Begin \/ ReadFile \/ Pass \/ Refuse \/ WriteFile \/ Scan
    \/ Attest \/ Upload \/ Download \/ Finish
==============================================================================
