--------------------------- MODULE EvidencePipeline ---------------------------
(***************************************************************************)
(* The producer of evidence and its verifier over one directory: the       *)
(* workflow of EvidenceHandoff uploads the retained evidence, which the    *)
(* verifier of EvidenceVerification reads while files may still change.    *)
(***************************************************************************)
EXTENDS EvidenceHandoff, EvidenceVerification

CONSTANT RawTraces     \* what a build's trace collector may leave

(* The directory an undisturbed first attempt retains.                     *)
FirstRun == [id |-> 1, attempt |-> 1]
Retained(build, scan) ==
    LET whole == Bundle(build, scan, FirstRun)
        last == [manifest |-> whole, build_result |-> "succeeded"]
    IN  [file \in File |-> IF file \in Listed THEN whole[file] ELSE last[file]]

ASSUME EvidenceAssumption ==
    /\ \A raw \in RawTraces : RawDirectory(raw)
    /\ Builds # {} /\ Scans # {}
    /\ \A build \in Builds : build.trace \in RawTraces /\ build.succeeded \in BOOLEAN
    /\ \A build \in Builds, scan \in Scans, file \in File :
          Retained(build, scan)[file] # NONE

vars == <<handoffVars, verifierVars>>

Init == HandoffInit /\ VerifierInit

Produce == HandoffStep /\ UNCHANGED verifierVars
Disturb == (Rerun \/ Swap) /\ UNCHANGED verifierVars
Verify == status = "uploaded" /\ VerifierStep /\ UNCHANGED handoffVars

Next == Produce \/ Disturb \/ Verify

(* The runner executes the workflow's steps, the operator the verifier.    *)
Spec == Init /\ [][Next]_vars /\ WF_vars(Produce) /\ WF_vars(Verify)

---------------------------------------------------------------------------
SameRun(evidence, build, scan, run) ==
    LET whole == Bundle(build, scan, run)
    IN  /\ \A file \in Listed \ {"raw_trace"} : evidence[file] = whole[file]
        /\ ParseStraceDirectory(evidence.raw_trace) = whole.trace

(* Verified evidence is the directory of one build, one scan and one       *)
(* workflow run, file for file, if a file or a group of files of another   *)
(* run took its place once, at whatever moment, before, while or after a   *)
(* command or the verifier read them.  Only the raw traces are bound by    *)
(* what they reduce to rather than byte for byte; two replacements, of the *)
(* raw traces and of the trace, make them those of another run.            *)
RecordedIsOneRun ==
    record # NONE /\ swaps <= 1 =>
        \E build \in Builds \cup OtherBuilds, scan \in Scans,
           run \in [id : {1, 2}, attempt : 1..MaxAttempts] :
            SameRun(record.evidence, build, scan, run)

(* What this workflow run is recorded to have signed, it signed, and in    *)
(* its first attempt: once any job was run again, nothing it signs since,  *)
(* though genuine, is ever verified, not even when only the attestations   *)
(* were repeated.                                                          *)
RecordedIsSigned ==
    record # NONE /\ record.run.id = Run.id =>
        \A file \in BundleFiles :
            /\ record.evidence[file] \in signed
            /\ record.evidence[file].certificate.attempt = 1

(* A build nothing is wrong with.                                          *)
Honest(build) ==
    LET trace == ParseStraceDirectory(build.trace)
    IN  /\ build.succeeded /\ build.boundary = "fixed"
        /\ build.source = InventoryTrustedSource
        /\ Payload[build.raw] = Payload[build.dist] /\ build.dist \in CanonicalOf
        /\ trace.covered /\ trace.syscall > 0
        /\ Decodes(build.trace) /\ DOMAIN build.trace \subseteq TraceNames

(* Left alone, the workflow refuses no honest build and uploads no other,  *)
(* and the verifier refuses nothing that the workflow uploaded.            *)
HonestIsAccepted ==
    swaps = 0 /\ attempt = 1 =>
        /\ phase # "refused"
        /\ status = "running" \/
           \E build \in Builds :
              /\ Honest(build) <=> status = "uploaded"
              /\ \A file \in BuilderWritten :
                    disk[file] = BuilderDirectory(build)[file]

(* What the builder, the handoff and the verifier each make of a raw trace *)
(* is the same, and they accept the same ones.  It is a fact of the three  *)
(* programs, asked in the first state only.                                *)
TraceReductionsAgree ==
    at = 1 /\ attempt = 1 /\ swaps = 0 => \A raw \in RawTraces : ReductionsAgree(raw)

(* Left alone, every build ends verified or refused.                       *)
EvidenceIsDecided ==
    [](swaps = 0 /\ attempt = 1) => <>(record # NONE \/ status = "refused")
==============================================================================
