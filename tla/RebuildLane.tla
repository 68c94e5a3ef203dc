---------------------------- MODULE RebuildLane ----------------------------
(***************************************************************************)
(* The comparison of two builds (reproducibility_agents_v3.py): one agent  *)
(* verifies both retained bundles and compares them, another one decides   *)
(* whether they are a candidate.  The bundles are snapshots, but the two   *)
(* manifests that name their files, the comparison and the review of a     *)
(* mismatch have fixed names in the run directory, which every start of    *)
(* the lane, every retry and every attempt that lost its lease write as    *)
(* well.  Each reading or writing of one of them is a step.                *)
(*                                                                         *)
(* A manifest stands for the bundle it names, and either for its digest.   *)
(* How a single bundle is verified is EvidenceVerification's matter.       *)
(***************************************************************************)
EXTENDS Naturals, Sequences, FiniteSets
LOCAL INSTANCE SequencesExt

CONSTANTS
  Bundle,       \* evidence bundles
  Content,      \* what the verifier finds in each of them
  Requested,    \* [bundle, run], for "left" and "right": what an operator asks for
  MaxStarts,    \* bound on the invocations of reproducibility-v3-run
  MaxTries,     \* max_attempts of a work item
  MaxExpiries,  \* bound on the leases that run out while a handler works
  Nil

Side == {"left", "right"}

\* What the config of a run names.
Config ==
  [bundle : [Side -> Bundle \cup {Nil}], run : {q.run : q \in Requested}]

ASSUME RebuildAssumption ==
  /\ \A q \in Requested : q.bundle \in [Side -> Bundle]
  /\ Nil \notin Requested \cup Config
  /\ MaxStarts \in Nat \ {0} /\ MaxTries \in Nat \ {0} /\ MaxExpiries \in Nat

VARIABLES
  starter,    \* the invocations: what they do next and what they found
  config,     \* the config of the run
  manifest,   \* inputs/left/evidence-v3.json and inputs/right/evidence-v3.json
  file,       \* rebuild-comparison-v3.json and rebuild-mismatch-v3.json
  item,       \* the work items of repro-v3 and of governor-v3
  handling,   \* their attempts, with those that have lost their lease
  candidate,  \* the comparison that ReproducibilityV3CandidateReady names
  expiries

rebuildVars == <<starter, config, manifest, file, item, handling, candidate, expiries>>

Handler == {"repro", "governor"}

-----------------------------------------------------------------------------
(* compare_verified_builds_v3.                                              *)

\* A record of verify_build_attestations; it holds what its bundle holds.
Authoritative(b) == Content[b].verified

\* normalize_trace: a set of events, without their order.
Behavior(trace) == ToSet(trace)

\* The builder's report without its times and the digest of its other report.
StableBuilder(b) == Content[b].builder

CoreChecks(l, r) ==
  [identity |-> Content[l].identity = Content[r].identity,
   project |-> Content[l].project = Content[r].project,
   artifacts |-> Content[l].artifacts = Content[r].artifacts,
   normalizedSpdx |-> Content[l].spdx = Content[r].spdx,
   sourceInventory |-> Content[l].source = Content[r].source,
   trustedSourceInventory |-> Content[l].trusted = Content[r].trusted,
   stableBuilder |-> StableBuilder(l) = StableBuilder(r),
   distinctAttestationSets |-> Content[l].attestations # Content[r].attestations]

\* The report, made from two manifests for two execution ids by an attempt.
Comparison(l, r, run, k) ==
  LET core == CoreChecks(l, r)
      matched == \A check \in DOMAIN core : core[check]
  IN  [evidence |-> [left |-> l, right |-> r], executions |-> run, core |-> core,
       reproducible |-> matched,
       behavior |-> matched /\ Behavior(Content[l].trace) = Behavior(Content[r].trace),
       at |-> k]

\* An execution id names the run that the bundle's certificate is of.
BoundToRuns(l, r, run) ==
  /\ run.left # run.right
  /\ Content[l].run = run.left /\ Content[r].run = run.right

\* Mutant: the comparison is believed to be of the bundles of the event.
GateChecksUnbound(comparison, matched, payload) ==
  /\ comparison.reproducible = matched
  /\ (\A check \in DOMAIN comparison.core : comparison.core[check]) = matched
  /\ comparison.executions = payload.run
  /\ comparison.behavior = matched

\* reproducibility_v3_gate_checks
GateChecks(comparison, matched, payload) ==
  /\ comparison.reproducible = matched
  /\ (\A check \in DOMAIN comparison.core : comparison.core[check]) = matched
  /\ comparison.executions = payload.run
  /\ comparison.evidence = payload.bundle
  /\ comparison.behavior = matched

-----------------------------------------------------------------------------
NoBundles == [side \in Side |-> Nil]

\* "left" and "right" of an attempt are the bundles it has verified; "ref" is the
\* digest of the comparison it has written.
Fresh(s) ==
  [at |-> IF s = "repro" THEN "check_left" ELSE "check_comparison",
   left |-> Nil, right |-> Nil, comparison |-> Nil, ref |-> Nil, mismatch |-> Nil]

RebuildInit ==
  /\ starter = [c \in 1..MaxStarts |-> [at |-> "idle", request |-> Nil, found |-> NoBundles]]
  /\ config = Nil
  /\ manifest = NoBundles
  /\ file = [comparison |-> Nil, mismatch |-> Nil]
  /\ item = [s \in Handler |-> [at |-> "none", attempts |-> 0, payload |-> Nil]]
  /\ handling = [s \in Handler |-> [k \in 1..MaxTries |-> Nil]]
  /\ candidate = Nil /\ expiries = 0

-----------------------------------------------------------------------------
(* run_reproducibility_v3_agent_system.                                     *)

AtStart(c, place) == starter[c].at = place

Moves(c, place) == starter' = [starter EXCEPT ![c].at = place]

\* snapshot_evidence_bundle_v3 writes the manifest of the copies, checks it and
\* takes the digest of what is there then; the starts begin in order.
Begin(c, q) ==
  /\ AtStart(c, "idle")
  /\ \A d \in 1..(c - 1) : ~AtStart(d, "idle")
  /\ starter' = [starter EXCEPT ![c] =
       [at |-> "find_left", request |-> q, found |-> NoBundles]]
  /\ manifest' = [manifest EXCEPT !["left"] = q.bundle["left"]]
  /\ UNCHANGED <<config, file, item, handling, candidate, expiries>>

StageRight(c) ==
  /\ AtStart(c, "stage_right") /\ Moves(c, "find_right")
  /\ manifest' = [manifest EXCEPT !["right"] = starter[c].request.bundle["right"]]
  /\ UNCHANGED <<config, file, item, handling, candidate, expiries>>

Find(c, side, from, to) ==
  /\ AtStart(c, from)
  /\ starter' = [starter EXCEPT ![c].at = to, ![c].found[side] = manifest[side]]
  /\ UNCHANGED <<config, manifest, file, item, handling, candidate, expiries>>

\* ensure_reproducibility_v3_run and publish_external: the first one creates the
\* run, and another one works on it or ends with an error.
Pin(c) ==
  /\ AtStart(c, "pin") /\ Moves(c, "done")
  /\ LET payload == [bundle |-> starter[c].found, run |-> starter[c].request.run]
     IN  IF config = Nil
         THEN /\ config' = payload
              /\ item' = [item EXCEPT !["repro"] =
                   [at |-> "open", attempts |-> 1, payload |-> payload]]
              /\ handling' = [handling EXCEPT !["repro"][1] = Fresh("repro")]
         ELSE UNCHANGED <<config, item, handling>>
  /\ UNCHANGED <<manifest, file, candidate, expiries>>

-----------------------------------------------------------------------------
(* The steps of an attempt.                                                 *)

At(s, k, place) == handling[s][k] # Nil /\ handling[s][k].at = place

\* The lease belongs to this attempt.
Current(s, k) == item[s].at = "open" /\ item[s].attempts = k

Becomes(s, k, a) == handling' = [handling EXCEPT ![s][k] = a]

\* The store takes the outcome of the current attempt only.
Ends(s, k, outcome) ==
  /\ Becomes(s, k, Nil)
  /\ item' = IF Current(s, k) THEN [item EXCEPT ![s].at = outcome] ELSE item

\* Another attempt, or the dead letter queue; "left" is what becomes of this one.
Again(s, k, left) ==
  IF item[s].attempts < MaxTries
  THEN /\ item' = [item EXCEPT ![s].attempts = @ + 1]
       /\ handling' = [handling EXCEPT ![s][k] = left, ![s][k + 1] = Fresh(s)]
  ELSE /\ item' = [item EXCEPT ![s].at = "dead"]
       /\ handling' = [handling EXCEPT ![s][k] = left]

\* Rejected by repro-v3, which blocks the run; an exception in governor-v3.
Fails(s, k) ==
  IF s = "repro" THEN Ends(s, k, "blocked")
  ELSE IF Current(s, k) THEN Again(s, k, Nil)
  ELSE Becomes(s, k, Nil) /\ item' = item

\* On to the next place if the condition holds.
Passes(s, k, condition, a) ==
  IF condition THEN Becomes(s, k, a) /\ item' = item ELSE Fails(s, k)

Unwritten == UNCHANGED <<starter, config, manifest, file, candidate, expiries>>

\* verified_artifact_path, for the manifests of both sides.
CheckInputs(k) ==
  LET mine == handling["repro"][k]
      checked == item["repro"].payload.bundle
  IN  /\ \/ /\ At("repro", k, "check_left")
            /\ Passes("repro", k, manifest["left"] = checked["left"],
                      [mine EXCEPT !.at = "check_right"])
         \/ /\ At("repro", k, "check_right")
            /\ Passes("repro", k, manifest["right"] = checked["right"],
                      [mine EXCEPT !.at = "verify_left"])
      /\ Unwritten

\* verify_build_attestations opens the manifest again.
Verifies(k, side, from, to) ==
  /\ At("repro", k, from)
  /\ Passes("repro", k, Authoritative(manifest[side]),
            [handling["repro"][k] EXCEPT !.at = to, ![side] = manifest[side]])
  /\ Unwritten

\* load_verified_bundle: the manifest that is opened here is the verified one.
Load(k, side, from, to) ==
  /\ At("repro", k, from)
  /\ Passes("repro", k, manifest[side] = handling["repro"][k][side],
            [handling["repro"][k] EXCEPT !.at = to])
  /\ Unwritten

\* validate_run_binding, the comparison and its file; its digest is taken below.
WriteComparison(k) ==
  LET mine == handling["repro"][k]
      run == item["repro"].payload.run
      comparison == Comparison(mine.left, mine.right, run, k)
  IN  /\ At("repro", k, "compare")
      /\ IF BoundToRuns(mine.left, mine.right, run)
         THEN /\ file' = [file EXCEPT !.comparison = comparison]
              /\ Becomes("repro", k,
                         [mine EXCEPT !.at = "refer", !.comparison = comparison])
              /\ item' = item
         ELSE Fails("repro", k) /\ file' = file
      /\ UNCHANGED <<starter, config, manifest, candidate, expiries>>

Refer(k) ==
  LET mine == handling["repro"][k]
  IN  /\ At("repro", k, "refer")
      /\ Becomes("repro", k,
           [mine EXCEPT !.ref = file.comparison,
                     !.at = IF mine.comparison.reproducible THEN "done" ELSE "mismatch"])
      /\ item' = item
      /\ Unwritten

\* The review of a mismatch names the comparison.
WriteMismatch(k) ==
  LET mine == handling["repro"][k]
  IN  /\ At("repro", k, "mismatch")
      /\ file' = [file EXCEPT !.mismatch = mine.ref]
      /\ Becomes("repro", k, [mine EXCEPT !.at = "refer_mismatch"])
      /\ item' = item
      /\ UNCHANGED <<starter, config, manifest, candidate, expiries>>

ReferMismatch(k) ==
  /\ At("repro", k, "refer_mismatch")
  /\ Becomes("repro", k,
             [handling["repro"][k] EXCEPT !.at = "done", !.mismatch = file.mismatch])
  /\ item' = item
  /\ Unwritten

\* RebuildV3Compared or RebuildV3Mismatch opens the governor's item.
Announce(k) ==
  LET mine == handling["repro"][k]
      payload == [comparison |-> mine.ref, mismatch |-> mine.mismatch,
                  matched |-> mine.comparison.reproducible,
                  bundle |-> item["repro"].payload.bundle,
                  run |-> item["repro"].payload.run]
  IN  /\ At("repro", k, "done")
      /\ IF Current("repro", k)
         THEN /\ item' = [item EXCEPT
                   !["repro"].at = IF payload.matched THEN "done" ELSE "review",
                   !["governor"] = [at |-> "open", attempts |-> 1, payload |-> payload]]
              /\ handling' = [handling EXCEPT !["repro"][k] = Nil,
                                            !["governor"][1] = Fresh("governor")]
         ELSE Becomes("repro", k, Nil) /\ item' = item
      /\ Unwritten

-----------------------------------------------------------------------------
(* ReproducibilityV3GovernorHandler.                                        *)

\* verified_current_run_artifact, and the file is opened again to be read.
CheckComparison(k) ==
  /\ At("governor", k, "check_comparison")
  /\ Passes("governor", k, file.comparison = item["governor"].payload.comparison,
            [handling["governor"][k] EXCEPT !.at = "read_comparison"])
  /\ Unwritten

ReadComparison(k) ==
  /\ At("governor", k, "read_comparison")
  /\ Becomes("governor", k,
       [handling["governor"][k] EXCEPT
          !.comparison = file.comparison,
          !.at = IF item["governor"].payload.matched THEN "gate" ELSE "check_mismatch"])
  /\ item' = item
  /\ Unwritten

CheckMismatch(k) ==
  /\ At("governor", k, "check_mismatch")
  /\ Passes("governor", k, file.mismatch = item["governor"].payload.mismatch,
            [handling["governor"][k] EXCEPT !.at = "read_mismatch"])
  /\ Unwritten

ReadMismatch(k) ==
  /\ At("governor", k, "read_mismatch")
  /\ Becomes("governor", k,
       [handling["governor"][k] EXCEPT !.mismatch = file.mismatch, !.at = "gate"])
  /\ item' = item
  /\ Unwritten

\* The decision: a candidate, a coherent mismatch for people, or a block.
Judge(k) ==
  LET mine == handling["governor"][k]
      payload == item["governor"].payload
      coherent == /\ GateChecks(mine.comparison, payload.matched, payload)
                  /\ payload.matched \/ mine.mismatch = payload.comparison
  IN  /\ At("governor", k, "gate")
      /\ Ends("governor", k,
              IF ~coherent THEN "blocked"
              ELSE IF payload.matched THEN "done" ELSE "review")
      /\ candidate' = IF coherent /\ payload.matched /\ Current("governor", k)
                      THEN payload.comparison ELSE candidate
      /\ UNCHANGED <<starter, config, manifest, file, expiries>>

\* The lease runs out; the handler that held it works on, unless it was killed.
Expire(s, k) ==
  /\ Current(s, k)
  /\ expiries < MaxExpiries /\ expiries' = expiries + 1
  /\ Again(s, k, handling[s][k])
  /\ UNCHANGED <<starter, config, manifest, file, candidate>>

Starts(c) ==
  \/ \E q \in Requested : Begin(c, q)
  \/ Find(c, "left", "find_left", "stage_right")
  \/ StageRight(c)
  \/ Find(c, "right", "find_right", "pin")
  \/ Pin(c)

Repro(k) ==
  \/ CheckInputs(k)
  \/ Verifies(k, "left", "verify_left", "verify_right")
  \/ Verifies(k, "right", "verify_right", "load_left")
  \/ Load(k, "left", "load_left", "load_right")
  \/ Load(k, "right", "load_right", "compare")
  \/ WriteComparison(k) \/ Refer(k) \/ WriteMismatch(k) \/ ReferMismatch(k)
  \/ Announce(k)

Governor(k) ==
  \/ CheckComparison(k) \/ ReadComparison(k)
  \/ CheckMismatch(k) \/ ReadMismatch(k) \/ Judge(k)

RebuildNext ==
  \/ \E c \in 1..MaxStarts : Starts(c)
  \/ \E k \in 1..MaxTries :
       Repro(k) \/ Governor(k) \/ \E s \in Handler : Expire(s, k)

RebuildSpec == RebuildInit /\ [][RebuildNext]_rebuildVars

-----------------------------------------------------------------------------
\* Two builds that count as one build made twice: two runs that were verified,
\* whose inputs, results and behaviour are the same, and that were signed apart.
MadeTwice(bundle, run) ==
  LET l == bundle["left"]
      r == bundle["right"]
  IN  /\ Content[l].verified /\ Content[r].verified
      /\ Content[l].run = run.left /\ Content[r].run = run.right /\ run.left # run.right
      /\ \A part \in {"identity", "project", "artifacts", "spdx", "source", "trusted",
                      "builder"} : Content[l][part] = Content[r][part]
      /\ ToSet(Content[l].trace) = ToSet(Content[r].trace)
      /\ Content[l].attestations # Content[r].attestations

\* "Two v3 evidence bundles matched as a same-provider artifact and behavior
\* reproducibility candidate" (the summary of ReproducibilityV3Handler): there is
\* a candidate only if the two bundles of the run's config are one build made
\* twice, although the manifests and the comparison are opened five times on the
\* way under names that others write; and if nobody else uses the directory and
\* no lease runs out, such bundles become one.
RebuildIsJudgedRight ==
  /\ candidate # Nil => MadeTwice(config.bundle, config.run)
  /\ (/\ \A c \in 2..MaxStarts : starter[c].request = Nil
      /\ expiries = 0
      /\ \E s \in Handler : item[s].at \in {"blocked", "review", "dead"})
       => ~MadeTwice(config.bundle, config.run)

Stopped == {"blocked", "review", "dead"}

\* The refinement mapping: a run is as the last of its agents has left it.
RebuildOutcome ==
  LET last == IF item["governor"].at = "none" THEN "repro" ELSE "governor"
  IN  IF item[last].at = "done" THEN "candidate"
      ELSE IF item[last].at \in Stopped THEN item[last].at
      ELSE "open"

MadeTwiceFor(comparison, cfg) == MadeTwice(cfg.bundle, cfg.run)

RebuildDecision == INSTANCE CandidateDecision WITH
  Earned <- MadeTwiceFor, Refusal <- Stopped,
  subject <- config, outcome <- RebuildOutcome, named <- candidate

\* The lane implements the decision about a candidate: a run is decided once, and
\* a comparison that it has named, or has handed to people, is not replaced.
RebuildImplementsDecision == RebuildDecision!Spec
=============================================================================
