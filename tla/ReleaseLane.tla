---------------------------- MODULE ReleaseLane ----------------------------
(***************************************************************************)
(* The release evidence lane (evidence_agents.py): five agents that hand   *)
(* one build result from file to file in one run directory.  The inputs    *)
(* are snapshots under their digest and never change; the index of them    *)
(* and everything that the agents write have fixed names, which the retry  *)
(* of an attempt, an attempt that outlives its lease and another start of  *)
(* the lane write as well.  An agent compares a file with the digest its   *)
(* event carries, and opens it again to read it; every such step is one    *)
(* step here.  What agent_store and agent_runtime do between the agents    *)
(* (claims, fencing, retries) is reduced to its outcome.                   *)
(***************************************************************************)
EXTENDS ReleaseVerification
LOCAL INSTANCE SequencesExt

CONSTANTS
  Input,        \* build results
  Result,       \* what each of them says and names; its lists are JSON arrays
  Allow,        \* --allow-test-fixture
  MaxStarts,    \* bound on the invocations of evidence-run
  MaxAttempts,  \* max_attempts of a work item
  MaxExpiries,  \* bound on the leases that run out while a handler works
  Nil

ASSUME LaneAssumption ==
  /\ Input \subseteq DOMAIN Result /\ Nil \notin Input
  /\ \A i \in Input : Result[i].bundles \in Seq(ToSet(Result[i].bundles))
  /\ Allow \in BOOLEAN
  /\ MaxAttempts \in Nat \ {0}
  /\ MaxStarts \in Nat /\ MaxExpiries \in Nat

VARIABLES
  starter,      \* the invocations: where they are, and their build result
  config,       \* the input index that the run was created for, by digest
  disk,         \* the index and the files that the agents write
  item,         \* the work item of each agent
  attempt,      \* its attempts, with those that have lost their lease
  verified,     \* history: the manifests that a verification accepted
  candidate,    \* what EvidenceCandidateReady names
  expiries

laneVars == <<starter, config, disk, item, attempt, verified, candidate, expiries>>

\* The invocations, in the order in which they begin.
Starter == 1..MaxStarts

Stage == {"build", "trace", "attestation", "verifier", "governor"}

After ==
  [build |-> "trace", trace |-> "attestation", attestation |-> "verifier",
   verifier |-> "governor"]

LaneFile ==
  {"index", "normalized", "trace-policy", "statement", "manifest",
   "verification", "availability", "evaluation"}

\* The files that an agent's event names by the digest it has just taken.
Outputs ==
  [build |-> {"index"}, trace |-> {"normalized", "trace-policy"},
   attestation |-> {"manifest", "verification"}, verifier |-> {"availability"}]

\* What is known of no file, and of one more.
Nothing == [f \in {} |-> Nil]

With(known, file, content) ==
  [f \in DOMAIN known \cup {file} |-> IF f = file THEN content ELSE known[f]]

-----------------------------------------------------------------------------
(* What the handlers do, file by file.                                      *)

Op(do, on) == [do |-> do, on |-> on]

\* read_json(verified_path(...)) is a "compare" and a "read", of two readings of
\* the file.  write_json_atomic is a "write", and artifact_reference a "digest"; a
\* manifest takes the digests of what it lists, and so does who verifies it.  A
\* "gate" that does not pass blocks the run; a "require" that is not met is an
\* exception.
Program ==
  [build |->
     <<Op("compare", "index"), Op("read", "index"),
       Op("gate", "intake"), Op("digest", "index")>>,
   trace |->
     <<Op("compare", "index"), Op("read", "index"),
       Op("write", "normalized"), Op("digest", "normalized"),
       Op("write", "trace-policy"), Op("gate", "policy"),
       Op("digest", "trace-policy")>>,
   attestation |->
     <<Op("compare", "index"), Op("read", "index"),
       Op("compare", "trace-policy"), Op("read", "trace-policy"),
       Op("require", "policy"),
       Op("compare", "normalized"), Op("read", "normalized"),
       Op("write", "statement"),
       Op("digest", "statement"), Op("digest", "normalized"),
       Op("digest", "trace-policy"), Op("write", "manifest"),
       Op("digest", "statement"), Op("digest", "normalized"),
       Op("digest", "trace-policy"), Op("write", "verification"),
       Op("gate", "manifest"),
       Op("digest", "manifest"), Op("digest", "verification")>>,
   verifier |->
     <<Op("compare", "index"), Op("read", "index"),
       Op("compare", "manifest"), Op("read", "manifest"),
       Op("digest", "statement"), Op("digest", "normalized"),
       Op("digest", "trace-policy"), Op("require", "release"),
       Op("read", "manifest"), Op("digest", "manifest"), Op("require", "record"),
       Op("write", "availability"), Op("digest", "availability")>>,
   rejection |-> <<Op("write", "availability"), Op("digest", "availability")>>,
   governor |->
     <<Op("compare", "index"), Op("read", "index"),
       Op("compare", "manifest"), Op("read", "manifest"),
       Op("compare", "verification"), Op("read", "verification"),
       Op("compare", "availability"), Op("read", "availability"),
       Op("compare", "trace-policy"), Op("read", "trace-policy"),
       Op("write", "evaluation"), Op("gate", "candidate"),
       Op("digest", "evaluation")>>]

-----------------------------------------------------------------------------
\* "seen" is what an attempt has read or made of each file, "ref" the digests it
\* has taken.
Fresh(s) == [doing |-> s, pc |-> 1, seen |-> Nothing, ref |-> Nothing]

LaneInit ==
  /\ starter = [c \in Starter |-> [at |-> "idle", input |-> Nil]]
  /\ config = Nil
  /\ disk = [f \in LaneFile |-> Nil]
  /\ item = [s \in Stage |-> [at |-> "none", attempts |-> 0, payload |-> Nothing]]
  /\ attempt = [s \in Stage |-> [k \in 1..MaxAttempts |-> Nil]]
  /\ verified = {} /\ candidate = Nil /\ expiries = 0

\* The item of an agent, and its first attempt.
Opened(s, payload) == [at |-> "open", attempts |-> 1, payload |-> payload]

-----------------------------------------------------------------------------
(* run_release_evidence_agent_system.                                       *)

\* prepare_release_evidence_inputs: the snapshots, then the index, over the one
\* of an earlier start.
Prepare(c, i) ==
  /\ starter[c].at = "idle"
  /\ \A d \in 1..(c - 1) : starter[d].at # "idle"
  /\ starter' = [starter EXCEPT ![c] = [at |-> "pin", input |-> i]]
  /\ disk' = [disk EXCEPT !["index"] = i]
  /\ UNCHANGED <<config, item, attempt, verified, candidate, expiries>>

\* The index as it then is becomes the config of the run, and its first event;
\* or ensure_evidence_run compares it with that config, and the invocation works
\* on the run or ends with an error.
Pin(c) ==
  /\ starter[c].at = "pin"
  /\ starter' = [starter EXCEPT ![c].at = "done"]
  /\ IF config = Nil
     THEN /\ config' = disk["index"]
          /\ item' = [item EXCEPT
               !["build"] = Opened("build", With(Nothing, "index", disk["index"]))]
          /\ attempt' = [attempt EXCEPT !["build"][1] = Fresh("build")]
     ELSE UNCHANGED <<config, item, attempt>>
  /\ UNCHANGED <<disk, verified, candidate, expiries>>

-----------------------------------------------------------------------------
(* What the handlers write and decide.                                      *)

\* validate_input_index
Intake(i) ==
  LET r == Result[i]
  IN  /\ r.status = "succeeded"
      /\ r.isolated /\ r.network = "deny"
      /\ r.mode = "external" \/ (r.mode = "fixture" /\ Allow)
      /\ r.artifacts # <<>> /\ r.sboms # <<>> /\ r.bundles # <<>>

\* normalize_trace: without order, repetition and unknown kinds; the events are
\* given without the path of the workspace and volatile names.
Normalized(trace) ==
  {e \in ToSet(trace) : e.kind \in {"process", "file", "network", "syscall", "signal"}}

\* trace_policy_failures: network under a deny policy, privileged system calls,
\* changes of the host's files.
Failures(r) ==
  {e \in ToSet(r.trace) :
     \/ e.kind = "network" /\ r.network = "deny" /\ ~e.denied
     \/ e.kind = "syscall" /\ e.sensitive /\ ~e.denied
     \/ e.kind = "file" /\ e.sensitive}

\* snapshot_regular_file gives a copy the name <digest>-<name>, and file_entry
\* takes the name of an entry from the path of the copy.
SnapshotName(a) == <<a.digest, a.name>>

Entries(artifacts) ==
  [n \in DOMAIN artifacts |->
     [name |-> SnapshotName(artifacts[n]), digest |-> artifacts[n].digest]]

\* What a manifest says of the inputs.
Evidence(m) ==
  LET r == Result[m.input]
  IN  [project |-> r.project, artifacts |-> Entries(r.artifacts),
       sboms |-> r.sboms, bundles |-> r.bundles]

\* verify_evidence_manifest
Unchanged(m, ref) ==
  /\ m.statement = ref["statement"]
  /\ m.normalized = ref["normalized"]
  /\ m.tracePolicy = ref["trace-policy"]

\* The record that verify_release_attestations returns.
Verification(m, k) ==
  [status |-> "verified", evidence |-> m, project |-> Result[m.input].project,
   subjects |-> {a.digest : a \in ToSet(Entries(Result[m.input].artifacts))},
   at |-> k]

Rejection(k) == [status |-> "rejected", evidence |-> Nil, at |-> k]

\* Mutant: the subjects are compared by name.
ValidRecordByName(a) ==
  LET record == a.seen["availability"]
      artifacts == Evidence(a.seen["manifest"]).artifacts
  IN  /\ {e.name : e \in ToSet(artifacts)} = record.subjects
      /\ record.evidence = a.ref["manifest"]

\* validate_release_verification_record, with the manifest read and hashed once
\* more; a record for a fixture never comes from this verifier.
ValidRecord(a) ==
  LET record == a.seen["availability"]
      r == Result[a.seen["index"]]
      artifacts == Evidence(a.seen["manifest"]).artifacts
  IN  /\ artifacts # <<>>
      /\ {e.digest : e \in ToSet(artifacts)} = record.subjects
      /\ Cardinality(record.subjects) = Len(artifacts)
      /\ ~(Allow /\ r.mode = "fixture")
      /\ record.evidence = a.ref["manifest"]
      /\ record.project.target = r.project.target
      /\ record.project.overlay = r.project.overlay
      /\ record.project.tag = r.project.tag

\* evaluate_release_candidate for the target Attested.
CandidateShape(seen) ==
  LET e == Evidence(seen["manifest"])
      r == Result[seen["index"]]
  IN  /\ e.artifacts # <<>> /\ e.sboms # <<>> /\ e.bundles # <<>>
      /\ seen["verification"].ok
      /\ seen["availability"].status = "verified"
      /\ {a.digest : a \in ToSet(e.artifacts)} \subseteq seen["availability"].subjects
      /\ r.tooling /\ r.risk

\* The content of a file.  What carries the time of its making differs from one
\* attempt to the next; the trace policy and the statement do not carry it.
Written(f, a, k) ==
  LET i == a.seen["index"]
  IN  CASE f = "normalized" -> [events |-> Normalized(Result[i].trace), at |-> k]
        [] f = "trace-policy" -> [failures |-> Failures(Result[i])]
        [] f = "statement" -> [input |-> i, traces |-> a.seen["normalized"].events]
        [] f = "manifest" ->
             [input |-> i, statement |-> a.ref["statement"],
              normalized |-> a.ref["normalized"],
              tracePolicy |-> a.ref["trace-policy"], at |-> k]
        [] f = "verification" ->
             [ok |-> Unchanged(a.seen["manifest"], a.ref), at |-> k]
        [] f = "availability" -> a.seen["availability"]
        [] f = "evaluation" -> [passed |-> CandidateShape(a.seen), at |-> k]

\* Whether the attempt may go on.
Passes(on, a) ==
  CASE on = "intake" -> Intake(a.seen["index"])
    [] on = "policy" -> a.seen["trace-policy"].failures = {}
    [] on = "manifest" -> a.seen["verification"].ok
    [] on = "release" ->
         /\ Unchanged(a.seen["manifest"], a.ref)
         /\ Accepts(Evidence(a.seen["manifest"]), Result[a.seen["index"]].policy)
    [] on = "record" -> ValidRecord(a)
    [] on = "candidate" -> a.seen["evaluation"].passed

-----------------------------------------------------------------------------
(* The steps of an attempt.                                                 *)

Working(s, k) == attempt[s][k] # Nil

Done(s, k) ==
  Working(s, k) /\ attempt[s][k].pc > Len(Program[attempt[s][k].doing])

\* What the attempt does next.
Now(s, k) == Program[attempt[s][k].doing][attempt[s][k].pc]

\* The lease belongs to this attempt.
Current(s, k) == item[s].at = "open" /\ item[s].attempts = k

Goes(s, k, a) == attempt' = [attempt EXCEPT ![s][k] = [a EXCEPT !.pc = @ + 1]]

Ends(s, k) == attempt' = [attempt EXCEPT ![s][k] = Nil]

\* Mutant: the store takes the outcome of any attempt.
CloseUnfenced(s, k, outcome) == item' = [item EXCEPT ![s].at = outcome]

\* The store takes the outcome of the current attempt only: the item is closed,
\* and the next one opened by the event.
Close(s, k, outcome) ==
  item' = IF Current(s, k) THEN [item EXCEPT ![s].at = outcome] ELSE item

\* Another attempt, or the dead letter queue; "left" is what becomes of this one.
Again(s, k, left) ==
  IF item[s].attempts < MaxAttempts
  THEN /\ item' = [item EXCEPT ![s].attempts = @ + 1]
       /\ attempt' = [attempt EXCEPT ![s][k] = left, ![s][k + 1] = Fresh(s)]
  ELSE /\ item' = [item EXCEPT ![s].at = "dead"]
       /\ attempt' = [attempt EXCEPT ![s][k] = left]

\* An exception.  The verifier makes a rejection of it.
Raises(s, k) ==
  IF s = "verifier"
  THEN /\ attempt' = [attempt EXCEPT ![s][k] =
            [Fresh("rejection") EXCEPT !.seen = With(Nothing, "availability", Rejection(k))]]
       /\ item' = item
  ELSE IF Current(s, k) THEN Again(s, k, Nil)
  ELSE Ends(s, k) /\ item' = item

\* Mutant: the governor believes its event.
CheckDigestBelieving(s, k) ==
  LET f == Now(s, k).on
  IN  /\ Now(s, k).do = "compare"
      /\ IF disk[f] = item[s].payload[f] \/ s = "governor"
         THEN Goes(s, k, attempt[s][k]) /\ item' = item
         ELSE Raises(s, k)
      /\ UNCHANGED <<starter, config, disk, verified, candidate, expiries>>

\* verified_path
CheckDigest(s, k) ==
  LET f == Now(s, k).on
  IN  /\ Now(s, k).do = "compare"
      /\ IF disk[f] = item[s].payload[f]
         THEN Goes(s, k, attempt[s][k]) /\ item' = item
         ELSE Raises(s, k)
      /\ UNCHANGED <<starter, config, disk, verified, candidate, expiries>>

\* read_json
Read(s, k) ==
  LET f == Now(s, k).on
  IN  /\ Now(s, k).do = "read"
      /\ Goes(s, k, [attempt[s][k] EXCEPT !.seen = With(@, f, disk[f])])
      /\ UNCHANGED <<starter, config, disk, item, verified, candidate, expiries>>

\* sha256_file, artifact_reference
Digest(s, k) ==
  LET f == Now(s, k).on
  IN  /\ Now(s, k).do = "digest"
      /\ Goes(s, k, [attempt[s][k] EXCEPT !.ref = With(@, f, disk[f])])
      /\ UNCHANGED <<starter, config, disk, item, verified, candidate, expiries>>

\* write_json_atomic
Write(s, k) ==
  LET f == Now(s, k).on
      content == Written(f, attempt[s][k], k)
  IN  /\ Now(s, k).do = "write"
      /\ disk' = [disk EXCEPT ![f] = content]
      /\ Goes(s, k, [attempt[s][k] EXCEPT !.seen = With(@, f, content)])
      /\ verified' = IF f = "availability" /\ content.status = "verified"
                     THEN verified \cup {content.evidence} ELSE verified
      /\ UNCHANGED <<starter, config, item, candidate, expiries>>

\* A decision that blocks the run.
Decide(s, k) ==
  /\ Now(s, k).do = "gate"
  /\ IF Passes(Now(s, k).on, attempt[s][k])
     THEN Goes(s, k, attempt[s][k]) /\ item' = item
     ELSE Ends(s, k) /\ Close(s, k, "blocked")
  /\ UNCHANGED <<starter, config, disk, verified, candidate, expiries>>

\* A decision that raises; the record of a verification exists once it passed.
Require(s, k) ==
  LET on == Now(s, k).on
      a == attempt[s][k]
  IN  /\ Now(s, k).do = "require"
      /\ IF Passes(on, a)
         THEN /\ Goes(s, k,
                   IF on = "release"
                   THEN [a EXCEPT !.seen =
                           With(@, "availability", Verification(@["manifest"], k))]
                   ELSE a)
              /\ item' = item
         ELSE Raises(s, k)
      /\ UNCHANGED <<starter, config, disk, verified, candidate, expiries>>

\* An agent succeeds, and its event opens the item of the next.
Succeed(s, k) ==
  LET ref == attempt[s][k].ref
      payload == [f \in Outputs[s] \cup DOMAIN item[s].payload |->
                    IF f \in Outputs[s] THEN ref[f] ELSE item[s].payload[f]]
  IN  /\ Done(s, k) /\ attempt[s][k].doing = s /\ s # "governor"
      /\ IF Current(s, k)
         THEN /\ item' = [item EXCEPT ![s].at = "done",
                                      ![After[s]] = Opened(After[s], payload)]
              /\ attempt' = [attempt EXCEPT ![s][k] = Nil,
                                            ![After[s]][1] = Fresh(After[s])]
         ELSE Ends(s, k) /\ item' = item
      /\ UNCHANGED <<starter, config, disk, verified, candidate, expiries>>

\* ReleaseAttestationsRejected, which has no subscriber.
Reject(k) ==
  /\ Done("verifier", k) /\ attempt["verifier"][k].doing = "rejection"
  /\ Ends("verifier", k) /\ Close("verifier", k, "rejected")
  /\ UNCHANGED <<starter, config, disk, verified, candidate, expiries>>

\* EvidenceCandidateReady: the evaluation, and the manifest of the event.
Announce(k) ==
  /\ Done("governor", k)
  /\ Ends("governor", k) /\ Close("governor", k, "done")
  /\ candidate' = IF Current("governor", k)
                  THEN item["governor"].payload["manifest"] ELSE candidate
  /\ UNCHANGED <<starter, config, disk, verified, expiries>>

\* The lease runs out; the handler that held it works on, unless it was killed.
Expire(s, k) ==
  /\ Current(s, k)
  /\ expiries < MaxExpiries /\ expiries' = expiries + 1
  /\ Again(s, k, attempt[s][k])
  /\ UNCHANGED <<starter, config, disk, verified, candidate>>

Works(s, k) ==
  /\ Working(s, k) /\ ~Done(s, k)
  /\ CheckDigest(s, k) \/ Read(s, k) \/ Digest(s, k) \/ Write(s, k)
     \/ Decide(s, k) \/ Require(s, k)

LaneNext ==
  \/ \E c \in Starter : Pin(c) \/ \E i \in Input : Prepare(c, i)
  \/ \E s \in Stage, k \in 1..MaxAttempts : Works(s, k) \/ Succeed(s, k) \/ Expire(s, k)
  \/ \E k \in 1..MaxAttempts : Reject(k) \/ Announce(k)

LaneSpec == LaneInit /\ [][LaneNext]_laneVars

-----------------------------------------------------------------------------
\* The bundles of a manifest are signed by the release workflow of its project
\* and are about exactly its artifacts.
Signed(m) ==
  LET e == Evidence(m)
  IN  /\ Len(e.bundles) = 3
      /\ \A b \in ToSet(e.bundles) :
           /\ b.signed /\ b.logged
           /\ b.certificate = CertificateOf(e.project)
           /\ ToSet(b.subjects) = ToSet(e.artifacts)

\* "The Release Verifier cryptographically verifies the three retained Sigstore
\* bundles" (README.md): the manifest that a candidate names is one that a
\* verification accepted, although it is opened six times on the way under a
\* name that attempts without a lease write as well; its three bundles are
\* signed by the release workflow of its own project and are about exactly the
\* artifacts that it lists.
CandidateIsVerified ==
  candidate # Nil => candidate \in verified /\ Signed(candidate)

\* Nobody has started the lane with another build result in this directory.
Alone == \A c \in Starter : starter[c].input \in {Nil, config}

\* What the lane is to find out about a build result.  No two of its artifacts
\* are the same file: ValidRecord refuses what Accepts lets pass.
Fit(i) ==
  /\ Intake(i) /\ Failures(Result[i]) = {}
  /\ Accepts([project |-> Result[i].project, artifacts |-> Entries(Result[i].artifacts),
               sboms |-> Result[i].sboms, bundles |-> Result[i].bundles],
              Result[i].policy)
  /\ Cardinality({a.digest : a \in ToSet(Entries(Result[i].artifacts))})
       = Len(Entries(Result[i].artifacts))
  /\ Result[i].mode # "fixture"
  /\ Result[i].tooling /\ Result[i].risk

Refusals == {"blocked", "rejected", "dead"}

Refused == \E s \in Stage : item[s].at \in Refusals

\* The refinement mapping: a run is as its last agent has left it.
LaneOutcome ==
  IF item["governor"].at = "done" THEN "candidate"
  ELSE IF Refused THEN CHOOSE r \in Refusals : \E s \in Stage : item[s].at = r
  ELSE "open"

\* Of whatever build result.
SignedFor(m, i) == Signed(m)

Decision == INSTANCE CandidateDecision WITH
  Earned <- SignedFor, Refusal <- Refusals,
  subject <- config, outcome <- LaneOutcome, named <- candidate

\* The lane implements the decision about a candidate: however many attempts are
\* at work without a lease, and however often the lane is started again, a run
\* that was blocked, rejected, dead-lettered or made a candidate stays so, and
\* what it has named is not replaced.
ImplementsDecision == Decision!Spec

\* "A release candidate decision" (docs/AGENT_RUNTIME.md) is the one that the
\* build result deserves: unless another one was prepared in the directory, a
\* candidate is of the build result the run was created for and that is fit;
\* and as long as no attempt loses its lease, a fit one is not refused.
LaneDecidesRight ==
  Alone =>
    /\ candidate # Nil => candidate.input = config /\ Fit(config)
    /\ (Refused /\ expiries = 0) => ~Fit(config)

\* A build result that hands over what the generated workflow uploads.
FromWorkflow(r) ==
  LET m == WorkflowManifest(r.project, r.artifacts)
  IN  r.sboms = m.sboms /\ r.bundles = m.bundles

\* "The Release Verifier cryptographically verifies the three retained Sigstore
\* bundles against a digest-anchored policy, exact workflow identity, [...]
\* artifact subjects, SBOM" and "the lane emits EvidenceCandidateReady"
\* (README.md:281): what the project's own workflow has signed for an approved
\* project is not rejected, if no file is disturbed.
GenuineIsAccepted ==
  (Alone /\ expiries = 0 /\ item["verifier"].at = "rejected") =>
    LET r == Result[config]
    IN  ~(/\ FromWorkflow(r) /\ r.mode = "external"
          /\ r.policy = TrustedPolicy /\ ValidProject(r.project, r.policy))
=============================================================================
