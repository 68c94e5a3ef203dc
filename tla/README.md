# A verification of assured-downstream

assured-downstream maintains security-hardened forks of open-source
repositories. A set of "agents" (small typed handlers) discovers repositories,
plans and reconciles forks, plans overlays, commits approved patches, publishes
secure branches and ingests and verifies build evidence. The agents exchange
durable events through one SQLite file; everything else is Git, files and
command-line tools around it. This directory holds TLA+ models of that system,
TLC configurations that check them, and TLAPS proofs about them.

Paths below are relative to `src/src/assured_downstream/` unless they start
with `docs/` or `tests/`.

## 1. The system: inventory

| component | state | operations | hard behaviour | what makes it correct |
|---|---|---|---|---|
| agent store `agent_store.py`, `agent_contracts.py` | tables runs, events, work_items, attempts, artifacts, handoffs | create_run, publish_event, claim_work (with the recovery of expired leases), complete_work, fail_work, set_run_status; reads | concurrent processes, leases that expire under a live worker, stale clock readings, retries | one live attempt per item, one winner, provenance, delivery atomic with publication, exact retry budget, immutable history |
| agent runtime `agent_runtime.py`, `agent_registry.py` | locals of run_once and drain; artifact files | run_once, drain, publish_external | crashes between any two steps; zombies; a verdict from non-atomic reads | every step is within the store's contract; a verdict is earned; every run is decided |
| lane commands `cli.py`, `*_agents*.py` | run row, request event, snapshots on disk | ensure a run, publish its request, drain | resume after a crash | a resumed run is the same run |
| publication `publication_*.py`, `secure_publish.py` | a global ledger, the remote ref | verify authorization, reserve, push with lease, mark | crash between push and mark; expiry between push and retry; an independent writer of the remote | an authorization is consumed once; nothing is pushed outside its scope or after its expiry |
| patch creation `secure_patch.py`, `patch_approval.py`, `overlay*.py` | Git objects and `refs/heads/secure/*` | build a commit, compare-and-swap the ref | retry after a crash between object and ref | the ref only moves from the approved base to the approved commit |
| managed checkout `sync_apply.py`, `sync_plan.py`, `checkout_pipeline.py`, `recon.py` | refs of a checkout, lifecycle state | clone or fetch, reconcile refs, detached analysis worktree | failure between ref updates; upstream moves or rewrites | `secure/<default>` is preserved, `upstream/<default>` mirrors what was fetched |
| forks `fork_plan.py`, `fork_apply.py`, `lifecycle.py`, `selection.py` | lifecycle state file, GitHub | select, plan, fork, record | partial application, repetition, several commands on one file saved in place | what the file calls verified is a fork of that repository; repetition ends with all of them verified |
| catalog and scoring `scoring.py`, `catalog.py`, `seed.py`, `pipeline.py` | catalog file | seed, score, rank | (heuristics) | the order they give is total |
| source reacquisition `source_reacquisition_v3.py` | inventories | reacquire at a commit, compare | source changes while it is read | a match is a match of every entry |
| sandboxed builder `src/builders/python-v3/entrypoint.py` | a pid namespace, `/out` | run the build under strace, kill and reap what is left, snapshot, canonicalize, report | processes that survive the build, fork and write; a failure in the middle | nobody is left when the artifacts are read; a success is about all of them |
| builder handoff `builder_handoff*.py` | an evidence directory, handed from job to job of a workflow | seal, normalize the SBOM, subject checksums, predicate, assemble; validate before and after each | many readings of files that must be of one run; jobs that are run again; reductions and normalisers that exist twice or thrice | only an honest build is uploaded, and it is |
| build verification `build_verification*.py`, `archive_validation_v3.py` | none (reads a retained evidence directory) | verify | files that change between two readings; files of two runs mixed; one gate forgotten | what is verified is one run, signed by it at its first attempt |
| reproducibility `reproducibility*.py` | a run directory with files of fixed names | verify both bundles, compare, gate | other starts and attempts without a lease that write the same files | a candidate is one build made twice |
| release evidence `evidence_agents.py`, `release_*.py`, `evidence.py`, `custody.py`, `attestations.py` | a run directory with an index and files of fixed names | the five agents of evidence-run; verify; render the workflow that signs | the same; a signer and a verifier written apart | a candidate is of the run's own fit build result; what is accepted is what the workflow signs |
| policy and profiles `policy_eval.py`, `behavior.py`, `ecosystem_profile.py`, `workflow_yaml.py`, `pin_resolver.py` | none | evaluate, profile | rule precedence | the strictest rule wins |
| adapters `codex_driver.py`, `command_runner.py`, `github_api.py`, `secure_path.py`, `account_boundary.py` | none | subprocess, HTTP, paths | time-outs | (input and output only) |

Interactions: a lane command and any number of `agent-work` processes open the
same SQLite file and call the store; every call is one `BEGIN IMMEDIATE`
transaction, so calls are serialised but their order is not. Handlers run
between a claim and a completion, write artifact files, and call Git or a
verifier. There are no threads and no in-process callbacks: concurrency is
between processes, and a process can stop between any two steps.

## 2. Modules

| module | models | lines of code it stands for |
|---|---|---|
| `AgentStore` | the tables and every transaction over them | `agent_store.py` |
| `DurableHandoff` | what the store promises, without attempts, leases or a clock | (abstract specification) |
| `AgentRuntime` | processes: starting a lane, run_once, drain, crashes | `agent_runtime.py`, the lane commands |
| `Publication` | authorizer, publisher, ledger, push, remote and its other writers | `publication_agents.py`, `publication_authorization.py`, `publication_ledger.py`, `secure_publish.py`, `command_runner.py` |
| `OneTimeAuthorization` | what the publication lane promises about the remote branch | (abstract specification) |
| `ManagedCheckout` | the branches of a managed checkout, reconciliations and secure patches | `sync_apply.py`, `secure_patch.py`, `patch_agents.py`, `patch_approval.py` |
| `ForkLifecycle` | plans, forks on GitHub, the lifecycle state file, the gate that asks it | `fork_plan.py`, `fork_apply.py`, `lifecycle.py`, `managed_checkout_agents.py` |
| `BuildSupervisor` | process 1 of the builder, the kernel's process table and the build | `src/builders/python-v3/entrypoint.py` |
| `StraceReduction` | the three reductions of raw strace files | the builder, `builder_handoff_v3.py`, `build_verification_v3.py` |
| `SpdxNormalization` | the two normalisers of an SPDX document | `builder_handoff_v3.py`, `build_verification_v3.py` |
| `ReleaseArchives` | the writer of the canonical sdist, its second reader, and the wheel's RECORD | the builder, `archive_validation_v3.py` |
| `EvidenceBundle` | the files of an evidence directory, what they hold, and both sets of validators | `builder_handoff_v3.py`, `build_verification_v3.py` |
| `EvidenceHandoff` | the three jobs of the reusable workflow, command by command and reading by reading | `builder_handoff_v3.py`, the builder, `reusable-python-build-v3.yml` |
| `EvidenceVerification` | the verifier, reading by reading | `build_verification_v3.py` |
| `EvidencePipeline` | the two over one directory | (composition) |
| `ReleaseVerification` | what the generated workflow signs and what the release verifier demands | `release_render.py`, `release_verification.py` |
| `ReleaseLane` | the five agents of evidence-run over one run directory | `evidence_agents.py`, `evidence.py`, `policy_eval.py`, `behavior.py` |
| `RebuildLane` | the two agents of the third reproducibility lane over one run directory | `reproducibility_agents_v3.py`, `reproducibility_v3.py` |
| `CandidateDecision` | what a lane promises that turns evidence into a candidate | (abstract specification) |
| `MCAgents`, `MCRecovery`, `MCLanes` | two models side by side each, for one run (section 3) | |
| `MCEvidencePipeline`, `MCEvidenceContents`, `MCReleaseLane`, `MCReleaseCases`, `MCRebuildCases` | small instances and the contents they are about | |
| `MCAgentStore`, `MCAgentRuntime`, `MCPublication`, `MCManagedCheckout`, `MCForkLifecycle`, `MCBuildSupervisor` | small instances | |
| `AgentStoreProofs` | proofs about `AgentStore`, with its refinement of `DurableHandoff` | |
| `AgentRuntimeProofs` | proofs about `AgentRuntime` | |
| `PublicationProofs` | proofs about `Publication` | |
| `CheckoutAndRebuildProofs` | proofs about `ManagedCheckout` and about `RebuildLane` | |
| `BuildSupervisorProofs` | proofs about `BuildSupervisor` | |
| `EvidencePipelineProofs` | proofs about `EvidencePipeline` | |
| `ReleaseLaneProofs` | proofs about `ReleaseLane` | |
| `ForkLifecycleProofs` | proofs about `ForkLifecycle` | |

**AgentStore.** One variable per table: `runStatus`, `event` (keyed by the
idempotency key, so `UNIQUE(run_id, event_type, dedupe_key)` holds by the
representation), `work` (keyed by event and agent, which is what the digest
`work_id` identifies), `attempt` (by work item and attempt number; an
`attempt_id` is a fresh uuid, so it is identified with that pair) and `handoff`
(with the digests of its artifacts). `clock` is wall-clock time in ticks.
`CreateRun`, `SetRunStatus`, `PublishEvent`, `Recover`/`ClaimWork` (claim_work
without and with a result; the recovery is part of both), `CompleteWork` and
`FailWork` are the transactions. Where the code reads `utc_now()` before it
waits for the write lock, the action takes the instant `now` as a parameter that
may lie in the past; the values it reads inside the transaction are `clock`.
A transaction that raises changes nothing and is not a step. In `AgentStore` the
clients are arbitrary: any attempt ever handed out may report at any later time,
with any result its agent may emit.

**AgentRuntime** replaces the arbitrary clients by the processes of the code.
Each has a program counter with one label per transaction, read or effect of
`run_once` and `drain`; `since` is the time of its last look, so that its next
`utc_now()` is not earlier. `Hash` is the part of complete_work before its
transaction (the first look at the lease and the hashing of the artifacts).
`ReadPending`, `ReadHandoffs`, `ReadSummary`, `ReadArtifacts` and `WriteStatus`
are the five separate store calls with which drain ends. `Crash` may strike at
any label. `Startup` chooses how a lane starts: `create` (intake), `ensure`
(publish the request only if this command created the run) or `republish`
(reacquisition). `AttemptScoped` chooses between artifact paths per attempt and
per run. `Selections` are the agent subsets that agent-work is started with; a
lane with no agents is `enqueue_only`. The cause of an exception is abstracted: completion may raise at any
time (a lock time-out, a collision, a lost lease).

**DurableHandoff** has two variables: the accepted events and what became of each
piece of work. `Inject`, `Finish` and `Abandon` are its only steps; retries,
leases and claims are stutters under the mapping (`Accepted`, `Outcome`).

**Publication.** The publisher works across four stores that share no transaction:
the agent store of a run, the ledger of the account, the local checkout and the
remote branch. `item` and `attempt` are what AgentStore shows of the publisher's
work (`Claim`, `Complete`, `Fail` are its transactions, restricted to the columns
that matter here: status, current attempt, counter and lease), for items of any
number of runs and so of any number of stores; `ledger` is
`publication_consumptions`, by request_id; `remote` is the branch, and `writer`,
a history variable, who set it. An attempt walks through `at`: `Validate` (the
snapshots, `validate_authorization_record`, `guarded_checkout_path`,
`ensure_unexpired_work_lease`), `Reserve`, `Inspect` (publish_secure_branch up to
its first ls-remote), `Look`, `Push` and `PushReturns`, `Verify`, `Mark`,
`Complete`. The push is a process of its own with the state `push`: `Land` is the
compare-and-swap of the remote and may happen at any time while it is sent, also
after the publisher was killed, or after git was killed at its deadline with
everything already received by the remote. Every step may also raise, and `Raise`
sorts exceptions as the handler does: blocked before the reservation, failed and
retried after it. `Foreign` sets or deletes the branch. The content of requests,
bundles, policies and of the checkout is abstracted to "this check may fail";
issued_at and expires_at are kept. `writer` and the item of a ledger row stand
for the (run_id, work_id) pair.

**OneTimeAuthorization** has the branch, its last writer and the holder of each
authorization: `Take` once, and `Apply`, the only change the holder makes.

**ManagedCheckout** has one variable per ref: `source` is upstream's default
branch, `tracking` is `refs/remotes/upstream/<default>`, `mirror` is
`upstream/<default>` and `secure` is `secure/<default>`. `sync` holds the
reconciliations (place, `upstream_sha`, `secure_sha`) and `patch` the work items of
the patch agent (place, approval, the action they report). `approval` is what an
approval binds: base, required upstream commit and, for the ancestry check, what
the base contains. `removed` is a history variable, what was taken off the secure
branch by hand. One git command is one step, since git locks the ref it writes and
the programs hold no lock between two commands: `Fetch`, `ReadUpstream`,
`MoveMirror`, `ReadSecure`, `CreateSecure`, `RereadSecure` and `Compare` are the
commands of reconcile_repository that touch a branch, in its order; `Inspect`,
`Cas`, `CasFails`, `Actual` and `Verify` those of apply_secure_patch. The commit
that it builds is a function of the approval (parent, tree, message with the digest
of the approval, date of the approval), so the approval stands for its commit, and
two attempts for one approval build the same. `SyncFails` is a failed command, a
check that raises or a kill; the work goes to the start, for the retry or a later
run. `Retry` is the same for a patch item; `Block` is its error, of which an expired
approval or pin is one. What is rendered is reduced to `adds`, whether any path is
to be added to the base.

**ForkLifecycle.** `Selected`, `TargetName` and `PlanOf` are create_fork_plan over a
catalog that is already ranked; the sort and the cut of the source are stated as the
position that each eligible repository gets (`Eligible`, `Sooner`, `Position`). A policy is an allowlist, suppressions and a limit,
and `Plain` and `Qualified` are the two names a fork can get. `remote` maps names of
the target owner to the parent of what is there. `file` is the state file: a record
per repository, reduced to its target and to whether the gate counts its
`current_state` as verified, or contents that are not JSON. A command holds a copy of
it (`data`) from `Load` to `Truncate` and `Write`, the two halves of the save: opening
the file empties it, and the text of another writer may lie behind one's own.
`Preflight`, `Lookup`, `Fork` and `Verify` are the commands to GitHub, one step each,
in the order of apply_fork_plan, and `GitHubFails` one that fails, with or without its
effect. `StartOther` is a command that only records (a dry run, apply-sync-plan).
`Pin` and `Gate` are a checkout run with `--execute-sync` up to its gate; a file
written since it was pinned has another digest (`Stale`). `gh repo fork` is modelled as
GitHub behaves: an account has one fork of a repository, and asking for a second one
is answered with the first; that some versions of gh then rename it, and that GitHub
redirects names of renamed repositories, is left out.

**BuildSupervisor.** `process` is the process table of the private pid namespace:
for every id in use its parent and whether it runs or is a zombie. `Fork` (also as
a sibling, CLONE_PARENT), `Exit` (orphans go to the supervisor or to an ancestor
that asked for them), `Wait` and `WriteOutput` are what the kernel lets the build
do; they are external, and ids are reused at once. `at` is the place of the
supervisor in `main`. In enforce_process_quiescence every `waitpid`, every entry of
the listing of `/proc`, every second look at an entry and every `os.kill` is a step
of its own, and a killed process is only `doomed` until it `Exit`s. After that come
`Boundary`, `Walk`, `Copy` and `Recheck` per file, `Canonicalize` per file,
`Canonicalized`, `Inventory` and `Report`; `Raise` is the except clause that all of
them share, and `Abort` a killed container or a step outside the try statement.
An artifact is reduced to its content; that Recheck compares digest, size, inode and
times is abstracted to comparing contents, and `Regular` stands for the limits and the kinds
of files that are refused. The count of killed processes is left out.

**StraceReduction, SpdxNormalization, ReleaseArchives** are operators without state.
Where the source holds an algorithm twice or thrice, written independently, so does
the module: each copy is translated from its own source, and that they agree is
checked, not assumed. A line of a trace is a record of what the regular expressions
and the argument scans tell apart, a digest is what it digests, a sorted list
of distinct elements is a set.

**EvidenceHandoff, EvidenceVerification, EvidencePipeline.** `disk` is the evidence
directory. The workflow is a sequence of steps (`BuildJob`, `InspectJob`,
`AttestJob`): each command of `builder_handoff_v3.py` is the files it opens, in its
order, the checks between, and the files it writes (`create` is an exclusive write).
`read` keeps every reading of the current command, and a check is an operator over
readings, so that it matters which of two readings of one file it was given.
`Rerun` runs a job again as the next attempt, from what the job before it uploaded (the inspection
and the attestation; the build job refuses every attempt but the first, `reusable-python-build-v3.yml:83`);
`Swap` replaces a file, or a group of files that vouch for each other, by those of
another complete run, at any moment. The verifier (`phase`, `entry`, `observed`)
takes one snapshot of the manifest, checks every listed file against it, and opens
most of them again; what it compares with the manifest's digest is the
manifest's content or a refusal, and what it reads without a digest (the second
reading of the observed trace) it takes from `disk` as it then is. `record` is the
verification record with the evidence it is about.

**ReleaseVerification** has both sides of the release attestations: `Workflow`,
`Identity`, `CertificateOf`, `ProvenanceOf`, `BoundSbom` and `SignedBundles` are what
the rendered workflow signs, and `Accepts` is verify_release_attestations.

**ReleaseLane** is the run directory of evidence-run. `Program` lists what each of the
five agents does with its files, in order: compare with the event's digest (`digest`),
open again to read, write, take the digest of what one wrote. Each is a step.
`starter` are invocations of the command, which rewrite the index before they know
whether the run is theirs; `item` and `attempt` are what the store and the runtime
make of the work: an attempt whose lease runs out goes on and its outcome is not
taken. The inputs are snapshots under their digest and never change.

**RebuildLane** is the same for the agents repro-v3 and governor-v3 (`starter` are the
invocations, `handling` the attempts). A manifest stands for the bundle it names; `Content` says what verify_build_attestations, whose own
steps are `EvidenceVerification`'s, would find in it. `CoreChecks` and `Comparison`
are the comparison, `GateChecks` the governor's.

**CandidateDecision** has the subject of a run, its outcome and what it names: a run is
decided at most once, no decision is taken back, and what is named as the candidate has
earned it. Both lanes implement it. The subject is the run's configuration, and the outcome of
the run is read off its last agents: a candidate that was named, or how the item ended after
which nothing is to come (`LaneOutcome`, `RebuildOutcome`). Starts, attempts, leases and every access
to a file are stutters. What is earned differs: in the release lane the manifest is signed by
the workflow (`Signed`), in the rebuild lane the two bundles of the configuration are one build made
twice (`MadeTwice`). In the latter it does not say that the comparison which is named is itself of
those bundles, because that is not so (section 7).

## 3. Runs

| run | instance | what it shows |
|---|---|---|
| `store` | 2 events, 3 agents, two of which emit the same key; 2 attempts, lease 1, clock 0..2 | the properties of the store, and that it implements `DurableHandoff` |
| `runtime` | 2 processes with one worker_id, 2 agents in a chain, `ensure`, 1 crash, attempt-scoped; or the rebuild lane with 2 starts, 2 attempts, 1 expiry, 6 bundles | attempts are told apart, artifacts stay those of the winner, the processes keep to the contract of `AgentStore`; a rebuild candidate is one build made twice |
| `live` | 2 processes, 1 crash, `republish`, fairness | the run is decided and its request served or dead-lettered; `succeeded` is earned |
| `resume` | 1 process, 1 crash, `ensure` | violated: resumed without its request (section 7) |
| `race` | 2 processes, 1 attempt | violated: a stale verdict (section 7) |
| `publication` | one request delivered in 2 runs; 2 attempts, lease 2, clock 0..3, 1 crash, 1 foreign change | one consumer, success is recorded in both databases, a live push lands in its window, and the lane implements `OneTimeAuthorization` |
| `blocked` | one item, 1 crash | violated: a landed push is reported as blocked (section 7) |
| `recovery` | forks: 2 repositories of one name, 3 policies, 3 names, the operator and 1 other command, 1 checkout run, 1 failure or crash, 1 change by hand; or publication: one request in two runs, one of them with execute False, 1 crash; fairness | what passes the gate are forks under the plan's names, and repetition ends with every fork verified, or with a damaged file; every publication is decided |
| `supervisor` | 3 process ids, a wheel and an sdist, each canonical, to be rewritten or a link; 2 rounds; fairness | nobody is left behind the barrier, a success is about all artifacts, the supervisor gives up after its rounds |
| `evidence` | 9 builds, of which 8 are wrong in one respect each, 2 other runs, 2 scans; 2 attempts, 1 interference with 1 file or group; all small traces, documents and archives; fairness | what is verified is one run, file for file, signed by it at its first attempt; only honest builds are uploaded and all of them are verified; the algorithms that exist twice or thrice agree |
| `lanes` | a checkout: 2 reconciliations, 2 patch items, 2 approvals, upstream at a commit or its successor, 1 movement of upstream, 1 change by hand, 3 of the 4 programs at once; or the release lane: 2 starts, a fit and an unfit build result, 2 attempts, 1 expiry | a reported patch stays on the secure branch, a patched branch contains what was analysed for it, what is analysed is what upstream was meanwhile; a release candidate's manifest was verified and is of the run's own fit build result, and the lane implements `CandidateDecision`; the release verifier accepts exactly what the workflow signs |
| `genuine` | the release lane undisturbed, with what the generated workflow delivers | violated: the verifier rejects it (section 7) |

The runs `runtime`, `recovery` and `lanes` each check two models that share nothing
and are put side by side in one module: a behaviour is one of the first or of the
second, and what is claimed of one of them holds trivially while it rests. Nothing is composed by
that; it only lets one run check both.

Bounds and why they suffice for the cases that matter: two attempts give a zombie
and its replacement, and a budget that is reached; a lease of one tick and a clock
of two give an attempt that expires, one that is live when another process works
with an older reading, and a second expiry; two agents that may emit one key give
the collision; two processes give every pairwise race; one crash can hit any
label. `MaxCrashes` and `MaxClock` are bounds of the model; in `AgentRuntime` a
crash (or a failure that cannot be recorded) is allowed only while the clock has
room to pass the lease, so that the bound does not make a lease eternal.
In the publication runs the authorization lasts until the end of the clock or one
tick less: with a lease of two the lease ends before the authorization for an
early attempt and after it for a late one, so that both halves of the window
count. A foreign change and the two shas reach every case of `Look` and `Verify`,
and one crash each of a reservation, a push and a mark. In `Publication`, too, a
crash is allowed only while the clock can still pass the lease.
In the checkout part of `lanes` two approvals may have one base, or one the commit of the
other as its base; two reconciliations give the race for the creation of the
branch, and a third actor would do nothing that one of them, back at its start,
cannot do. `MaxMoves` and `MaxByHand` bound what others do: one movement, forward or
back, comes before, between or after the fetches, and one change by hand (a
deletion, too) between any two commands. `MaxBusy` lets at most three of the two
reconciliations and the two patch items be at work at the same time: any pair of them and
a third that has interfered with either; the theorems of section 5 have no such bound.
In the forks part of `recovery` the first policy names the fork of one repository plainly, the
second qualifies both names, and the third gives the plain name to the other
repository, so that each kind of collision occurs. The operator may repeat for ever,
so one other command is enough to overwrite what any of the repetitions saw, and
one fault hits any point of either.
In the `supervisor` run three ids give an orphan of an orphan, a child that is forked
under an id that was already listed while its parent is still to come, and an id that
is reused; two rounds give one that comes back and one that raises.
In the `evidence` run one interference is enough for every single pair of readings, since
any group of files may change between them (`RecordedIsOneRun` is about one and is false with
two, section 7; `RecordIsSound` and `RecordedIsSigned` are proved for any number); groups are those that vouch for each
other (a trace with its raw files, the builder's report, the three bundles, and all
that the manifest lists, with the manifest), because a smaller one is found out by
the digests. It happens just before a step that looks at or writes a file it
replaces, or that writes elsewhere: placed before a step that looks at no file of the
group it gives the same states one step later (`Distinguishes`). Two attempts give
statements of both. Of the other runs one reproduced
the artifacts and was traced differently, so that the subjects of its genuine bundles
are those of this run. `TraceBound`, `SpdxBound`, `SdistBound` and `WheelBound` bound
the lines, elements and members of the inputs over which the algorithms are compared: three
lines in two files, four elements or members, with values enough for duplicates, case
variants, aliases and each kind of refusal; every order of them is an input.
In the two lanes of agents one expiry gives an attempt that works on beside its
replacement, through all of its steps, and two starts another writer of the files
which a start writes. For the release lane the inputs are a fit and an unfit build result. For the
rebuild lane they are a build and its repetition, the same build under another manifest,
and four requests that must be refused, each for one reason (other artifacts, other behaviour,
not verified, twice the same run); two starts may ask for any two of these.
Deadlock is not checked in the `lanes`, `genuine`, `recovery`, `evidence` and
`supervisor` runs, where everybody may be done, nor in the `store` run, where the clock ends
and a store without clients may stop, nor in the publication runs, which end when
every item is decided and the clock has stopped. In `runtime` it is; the rebuild lane
rests there when all its work is done (`LaneRests`).

## 4. Fairness

Liveness (`RunIsDecided`) is checked under `Fairness`: time
passes (weak), a process that is not killed takes its next step (weak: its next
step stays enabled until it is taken, since transactions never block for ever),
and the operator repeats the lane command, with draining, as long as the run has
no verdict (strong: the command can only be started while the process is off).
The repository has no supervisor: repeating the command is what
docs/AGENT_RUNTIME.md tells the operator to do. Crashes are bounded, not fair.
`ItemsAreDecided` assumes the same of the publisher: time passes, a handler that is
not killed goes on (every command it waits for returns, with an error if need be),
and drains go on claiming (weak). Nothing is assumed of the remote or of others.
`RepetitionConverges` assumes that the operator repeats apply-fork-plan whenever it is
not running and the file can be read (weak), which docs/WBS_EXECUTION_PLAN.md:193
calls the purpose of the operation, and that a command goes on until it is killed;
faults are bounded.
`SupervisorGivesUp` assumes only that the supervisor takes its next step when it has
one (weak). Nothing is assumed of the build, nor that a process which was sent a
SIGKILL ever dies; hence the second disjunct, orphans that keep coming.
`EvidenceIsDecided` assumes that the runner goes through the steps of the workflow
(`WF(Produce)`) and that the operator runs the verifier over what was uploaded
(`WF(Verify)`); nothing is assumed of reruns and interferences, and the property is
about behaviours without them. In `RecoverySpec` the fairness of either model is that
of its own specification, for its own behaviours.

## 5. What is proved

For every value of the constants that satisfies the named assumptions of
`AgentStore` (`RoutingAssumption`, `BoundsAssumption`, `NullAssumption`):

* `TypeCorrect`, `Fencing`, `EventsAreAttributed`, `Delivery`, `Budget`: the invariants TypeOK,
  OneHolder, OneWinner, Provenance, FanOut and RetryBudget. They follow from one
  inductive invariant `IInv`, their conjunction with `LeaseColumns` (the lease
  columns of an item follow its attempts). TypeOK alone is not inductive: the
  counter stays within its range only because a queued item has an attempt left,
  and that needs the attempts to be numbered without a gap and the running one
  to be the latest. The proof has one lemma per transaction; claim_work is
  proved in two halves, over the invariant of a single item (`RowInv`), because
  it recovers any number of items and claims one of them in the same step.
* `LeasesAreHonoured` and `HistoryIsImmutable`: the action properties, from `IInv`
  and a lemma per transaction that says what it changes.
* `StoreImplementsHandoff`: the refinement, step by step.

For every value of the constants that also satisfies `RuntimeAssumption`
(`AgentRuntimeProofs`):

* `RuntimeImplementsStore`: a process never leaves the contract of `AgentStore`,
  so the theorems above hold of any number of crashing processes. The invariant
  `RInv` says what a process knows of the attempt in its hands (`TaskInv`: it was
  made, by a claim of this worker_id, at an instant before the last look at the
  clock); what it knows is stable under the steps of the others (`OthersStable`)
  because a row of an attempt keeps its worker and the instant of its claim.
* `DistinctAttempts` and `ArtifactIsolation`, conjuncts of `RInv`. For the second,
  the digest taken by `Hash` must already be the attempt's own, so the invariant
  speaks of the disk between `Handle` and `CompleteStep`.
* `SuccessIsAlwaysEarned` (for `republish` lanes without agent-work): once a drain
  has seen that nothing is pending the run is `Settled`, and `SettledIsFrozen`
  shows that no step, not even of a zombie, changes anything in it afterwards; so
  what the later reads see is still so when the verdict is written.

For every value of the constants that satisfies the assumptions of `Publication`
(`PublicationProofs`): `TypeCorrect`, `AuthorizationHasOneConsumer`, `EverySuccessIsRecorded`,
`PushesLandInWindow` and the refinement `PublicationIsOneTime`. The inductive
invariant `PInv` says of each attempt, from its place alone, what it has a right
to (`RowInv`): whoever is past the reservation or has a push under way owns the
ledger row, whoever reports a success has marked it, and the deadline of a push
lies between the clock and the end of both its lease and its authorization.
OneConsumer alone is not inductive, since it does not cover what an attempt may
report. `LedgerGrows`, that a row never changes hands nor loses its mark, carries the
claim of every attempt over the steps of the others (`AttemptStep`).

For every value of the constants that satisfies the assumptions of
`ManagedCheckout` (`CheckoutAndRebuildProofs`; the assumption about `Ancestors` is that
containment of commits is reflexive and transitive): `TypeCorrect`, `ReportsStay`,
`PatchedBranchContainsAnalysed` and `AnalysisIsCurrent`. None of the three
properties is inductive. The invariant adds that whatever can be reached from a
branch, or was once, is `Known`: if it was built for an approval, then for one whose
base contains what it requires (`RefInv`); that the content of the base which an
approval was given for is closed under reachability (`HistoryInv`); and what the two
programs know at each place (`SyncInv`, `PatchInv`). `SecureStep` names the only
three ways in which the branch moves, and `BranchKeeps` concludes that what is on
it stays on it or is in `removed`. Approvals are immutable (`ApprovalStep`), so what
is known stays known (`KnownStays`).

For every value of the constants that satisfies the assumptions of `BuildSupervisor`
(`BuildSupervisorProofs`): `TypeCorrect`, `BarrierIsReal` and `EvidenceIsFaithful`. That an
empty listing proves anything is not evident, because processes fork and exit between
the entries. The invariant `ListingIsSound` says why: unless there is nobody, some child
of the supervisor is yet to be listed or looked at. The build cannot take that child
away, since only the supervisor reaps its own children and it does not while it
lists; and there is such a child because the table is a `Forest`: parents run and
parenthood is well founded, also when orphans go to a subreaper (`EndedForest`, where the
sets that show it are extended by the processes between the one that ended and its
heir). `Quiet` then says that nobody is left at the later places, and `SealInv` what
the evidence is at each of them. The type invariant is proved only; no run repeats it.

For every value of the constants that satisfies `EvidenceAssumption` (a raw trace is finitely many files of
lines; there is a build and a scan; `NONE` is no content of a file), and whatever is done to the directory
(`EvidencePipelineProofs`):
`RecordsAreSound`, that a verification record implies every retained check of the
evidence it is about, in the one state that the manifest describes. The validators stay opaque:
the argument is that the manifest is read once, that what follows each phase is known
of that one snapshot (`SubjectsFact`, `SpdxFact`, ...), and that the only reading
which is not compared with it, the second one of the observed trace, is compared
with the raw traces and enters nothing else. `SignaturesAreOwn`, that what is recorded as
signed by this workflow run was signed by it and in its first attempt, needs the whole
workflow. `SignedInv` follows the attestations through the directory, what was uploaded,
the readings of a command, the manifest and the verifier's snapshot: each is one that was
signed, here or in another run. Its hard part is that the manifest lists what was read: a
command that wrote it without having read the bundles would list anything. That it has is
a fact about the sequence of the workflow's steps (`ManifestIsRead`), kept by concatenation
(`Sequenced`) and shown where the manifest is written (`ReadJustBefore`). The certificate,
which names the run and its attempt, then tells this run's from others'.
`ForeignRecords` is about the others: what is verified under the name of another run is one
complete run of it, file for file but for the raw traces, however its files were mixed
with those of a third or of this one. It takes the three statements from `SignedInv`, finds that
this run cannot have signed them (`SignedHere`), and lets the predicate of one of them, which
covers eleven files, decide about all the rest (`PredicateOfBundle`).
`TracesAreReducedAlike` (TraceReductionsAgree) is about any raw traces, not the small ones of the run. The hard part is
that the events, which are counted by their keys, add up to the numbers of calls, signals
and exits that are counted by line: a line has one key of its own kind, besides any others
(`TaggedTotal`, `EventsAddUp`).
`HonestBuildsAreAccepted` (HonestIsAccepted) is the other direction of all this: left
alone, the workflow uploads exactly the honest builds and the verifier refuses nothing of
them. An invariant cannot speak of "the steps so far", so the proof computes, once for
all builds, what is known before each of the workflow's 275 steps (`Course`): which files are in
the directory and in the last upload, which files the current command has read once and twice, and
which of the two checks that can fail at all were passed. `Leads` says that each step of
a sequence is possible where it stands (a file that is read is there, one that is created is not, a
check has the readings it looks at, what is written is made of what was read); it is kept by
concatenation, so each command is done once, whatever it is called after. The invariant `HonestInv` then needs only
say that there are one build and one scan of it of which the directory, the upload
and every reading are the part that `Course` names. The theorem needs `TracesAreReducedAlike`,
because the verifier's reduction has to accept what the handoff's did.

For every value of the constants that satisfies `LaneAssumption` (`ReleaseLaneProofs`): any
build results, any number of starts, attempts and expired leases.

* `LaneHasShape`: agents work one after the other, an attempt has the number of a try
  that was made, and `StepIs` sums the kinds of step up: an attempt gets on to its next
  operation (`Advances`), or attempts begin and end while the files of the agents rest
  (`Rests`), and with that the event of one agent may open the item of the next
  (`Hands`) or the candidate be named (`Names`).
* `CandidateWasVerified` (CandidateIsVerified). The governor never looks at the verifier's
  work, only at files that any attempt without a lease may have rewritten since. What
  saves it is that the manifest holds the time of the attempt that wrote it: a manifest that
  is replaced never comes back (`ManifestsAreSpent`), so that a file which still has the
  digest the event names is the one that was verified, or is not any more and the
  comparison fails (`Verifying`, `Governing`).
* `LaneDecidesAsItShould` (LaneDecidesRight). `DecisionInvariant` says, place by place in
  each agent's program, what the files that an attempt has read tell of the build result
  if nobody else prepared one (`AttemptsTell`, `EventsTell`), up to the gate, where it
  is everything that `Fit` asks for. The other half, that a fit result is not refused, is
  about a lane in which no lease runs out: `SteadyInvariant` has every file to be the one
  its event names, and every comparison, check and gate on the way to hold. The proof
  found `Fit` to be too weak as it was first stated: it must ask for artifacts of
  different digests, which the release verifier does not (section 7).
* `LaneImplementsDecision`, the refinement of `CandidateDecision`. The outcome is read off five
  items, of which any may be the one that ends the run, so the proof is that there is one to ask:
  agents are chained, hence at most one item is neither done nor still to come (`OneAtWork`).
  `ItemsMove` says what a step can do to the items, in particular that an attempt
  without a lease does nothing to them, whatever it reports, so a refusal that was recorded is not
  taken back by an attempt that comes later. That a named manifest is `Signed` is
  `CandidateInvariant`, for the only step that names one.
* About the release verifier itself, for all policies, projects and manifests:
  `BundlesBindTheirRelease`, that two manifests accepted with the same bundles name the same
  project (commit and tag included), artifacts and SBOM, so that bundles are evidence for
  one release only; and `WorkflowEvidenceIsAccepted`, that the verifier refuses nothing of
  what the generated workflow uploads for an allowed project and different artifacts. The finding
  `genuine` (section 7) therefore lies in the names which evidence-run gives the files and not in
  what the verifier demands of a bundle. The converse, with which `VerifierIsExact`
  is an equivalence, holds of the instance only: in general the verifier
  accepts another order of the subjects, further entries of the SBOM's files and
  further resolved dependencies than the workflow would have signed.

For every value of the constants that satisfies the assumptions of `ForkLifecycle`
(`ForkLifecycleProofs`): `ForkTypes` and `GateWasRight` (GateMeansFork). That a plan is
a sequence of repositories of the catalog is itself a theorem about finite sets: the
positions of the eligible repositories are the numbers up to their count
(`PositionsAreTaken`), whence `Selected`, an interval of them, is a sequence without
repetition. GateMeansFork is about one reading of the state file by one checkout run; the
invariant (`GateInvariant`) has to be about every copy of a record, in the file and in the hands of
any command (`Confirmed`), because each command saves the copy that it loaded earlier over
what others have written since. A copy can be old but is never wrong: a record is
made verified by nothing but GitHub's answer, no command takes a fork away, and the
names that others change by hand are in `touched`.

For every value of the constants that satisfies `RebuildAssumption`
(`CheckoutAndRebuildProofs`): `RebuildIsRight`, the whole of RebuildIsJudgedRight. The
manifests, the comparison and the mismatch are opened under fixed names which other starts and
attempts without a lease write as well, and nothing bounds what such an attempt may
leave there. The invariant that carries the first half (`RebuildInvariant`) is therefore about what
any attempt holds at each place of its program (`Compares`, `Judges`): from the
verification on a bundle that was verified, and in the file of the comparison, from the
first one on, only reports that some attempt made of two verified bundles of two runs
(`Genuine`). What the governor reads may then be another report than its event names, but the
gate compares the bundles and runs in it with those of the run, so that such a report
says of them that they are one build made twice (`GateMeansOneBuild`). The steps in which
attempts are taken back, fail or begin again are one lemma (`Retreat`). The second half needs
`SteadyInvariant`: if one start has the directory to itself, what is staged is what it found
and asked for (`Staging`), there is one attempt of either agent (`First`), and no check
that it makes can fail (`WorkAsExpected`).
`RebuildImplementsTheDecision` is the refinement of `CandidateDecision`, from the same
invariant and `StepMoves`, which sorts the steps by what becomes of the two items (`Stays`,
`Creates`, `HandsOver`, `Stops`, `Concludes`). No run checks it, because RebuildIsJudgedRight, which the run
`runtime` checks, says the same of the candidate, and that decisions are final follows from the shape of the items.

What stays with TLC, and why. Liveness (`RunIsDecided`, `ItemsAreDecided`,
`RepetitionConverges`, `SupervisorGivesUp`, `EvidenceIsDecided`) and ENABLED are out of the
prover's reach. What the other evidence algorithms return (`SpdxNormalizersAgree`,
`ArchivesAreConfirmed`) is about folds and sequence operators that
the library defines recursively and would need induction over data. Of `VerifierIsExact`
one direction is proved for all values (`WorkflowEvidenceIsAccepted`), the other is true of the instance only. `RecordedIsOneRun` counts
interferences and depends on what the contents of two runs can have in common, which are facts
about the instance; `RecordsAreSound`, `SignaturesAreOwn` and `ForeignRecords` say without either
what is left of it.

## 6. Not modelled

Rendering, formatting, logging, JSON and the schema migration of the store; the
descriptor walk with which artifacts are opened; limits on sizes and counts; the
cryptography behind gh and the trust root, which are what they answer. The components
listed as `not_modelled` in PROJECT.json: scoring and profiling (heuristics over text),
publication control (a dispatch after checks that the authorizer repeats), source
reacquisition (one command that compares; its lane is a value of `Startup`), run index
and self test, and the adapters (input and output). Of the modelled components: the
second version of the handoff, the first two versions of verification and comparison,
custody and the rendered texts of a release, the intake lane's handlers.

In `ReleaseLane` there is one raw trace, well formed (validate_raw_trace, whose failure is a failed
attempt like any other, is left out), and the contents that two attempts write differ
by their time where the code writes one. A gh command that times out counts as a rejection by
the verifier. `SpdxNormalization` leaves out the checks of JSON types, which are not quite the same in the
two normalisers: the handoff demands of a relationship type that it is a string and not empty
(`builder_handoff_v3.py:1490`), the verifier only that it is not empty or null
(`build_verification_v3.py:1545`), so that what the handoff accepts the verifier does not refuse for it. In `RebuildLane` the files that no agent reads
(the two verification records, the normalised behaviours, the rejection and the gate)
are left out; if one of them, or the comparison, is written again after its agent referred
to it, drain's verify_artifacts fails the run in the end, which is `AgentRuntime`'s
matter. Runs of two identifiers in one directory are not modelled, nor the same event
attempted by two runtimes of different configuration.

## 7. Findings

* `resume`: a crash between create_run and publish_external leaves a run that the
  repeated command reports as `succeeded` without its request ever having been
  published (`if created:`), against docs/AGENT_RUNTIME.md:252.
* `blocked`: after a push that landed and a crash, a retry that comes when the
  authorization has expired fails the expiry check before it looks at the ledger or
  the remote (`publication_agents.py:163`), so the item is finished as blocked with
  `executed` False although the branch is the patch. docs/WBS_EXECUTION_PLAN.md:357
  says that a retry after a remote push recognizes the exact approved state.
* `genuine`: evidence-run cannot accept what the project's own generated workflow signs.
  Every input is copied under the name `<digest>-<name>` (`evidence_agents.py:1036`), the
  evidence manifest records that name, and the verifier demands exactly the manifest's
  names among the signed subjects and the files of the SBOM
  (`release_verification.py:634-638`, `754-815`), which the workflow signs under their
  plain names. The tests replace the verifier, or use manifests with plain names.
* `race`: a drain whose reads are older than a dead-lettering overwrites `failed`
  with `running` (`agent_runtime.py:261`).

More things seen while modelling, without a run of their own:

* complete_work reads the clock at `agent_store.py:554`, before it waits
  for the write lock, and compares the lease with that reading. An attempt whose
  lease ended while it waited still completes, unless another process claimed in
  between. No invariant is lost (the fence is the attempt id), but
  `test_expired_lease_cannot_complete_without_recovery_claim`
  (tests/test_agent_store.py:210) states otherwise.
* Two reconciliations of one repository (of two runs, or an attempt and its retry)
  take no lock. `create-secure-branch` names the tracking ref (`sync_apply.py:352`),
  which the other may have fetched again since `upstream_sha` was read: the secure
  branch, and the base of the approval, then contain upstream commits that no run
  has analysed. What is analysed is contained in the base all the same
  (`RequiredIsContained`), which is what the code promises; that the base contains
  nothing else it does not.
* A patch item whose process dies after update-ref, and whose approval or pin expires
  before the retry, ends as "blocked before Git object mutation"
  (`patch_agents.py:118`) although the branch is the patch, the local counterpart of
  `blocked`.
* reserve refuses a row that is blocked but not one that is published
  (`publication_ledger.py:131-141`). After a crash between mark_published and
  complete_work, and a foreign rollback of the branch to the expected commit, the
  retry pushes a second time, against "one-time" (`publication_ledger.py:28`).
* StateStore.save rewrites the file in place (`lifecycle.py:45`). A command that is
  killed in the middle, or two that save at once, leave a file on which every
  repetition stops with a JSON error, and with it the operation that
  docs/WBS_EXECUTION_PLAN.md:193 calls repeat-safe: the disjunct `Damaged` of
  `RepetitionConverges`. The agent lanes write their files with write_json_atomic.
* Commands on one state file lose each other's records (`cli.py:2013-2020`), and a dry
  run or an apply-sync-plan replaces `ForkVerified` by `ForkPlanned`, `SyncPlanned` or
  `Synced`, none of which passes the gate of a checkout run: apply-fork-plan has to
  be repeated first.
* The name of a fork depends on what else is selected (`fork_plan.py:219`). If a later
  plan also selects a repository of the same name, a fork that exists and was verified
  is looked up under another name, GitHub makes no second fork of it, and its record
  becomes `Blocked` (`Hopeless` in `RepetitionConverges`).
* reap_children (`src/builders/python-v3/entrypoint.py:633`) has no bound, and rounds are
  only counted around it: orphans that keep coming keep process 1 there until the
  container is killed. enforce_process_quiescence and the trace parser are called
  outside the try statement, so that a failure of either ends without a builder.json;
  and if inventory_artifacts raises, the transform report already says "succeeded"
  while builder.json says "failed".
* For an approval whose changes are all present already, apply_secure_patch returns
  the base as the patch (`secure_patch.py:250-257`) and PublicationRequestHandler makes
  a request of it; the publisher, which requires the patch to be a child of the base
  (`secure_publish.py:105`), can never accept that request.

* The governor of the rebuild lane compares the digest of `rebuild-comparison-v3.json`
  and opens the file again to read it (`reproducibility_agents_v3.py:240-246`). If an
  attempt of repro-v3 without a lease writes in between, the comparison it judges is
  not the one that its event names. What it judges is bound to the run's two bundles, so
  a candidate is earned (`RebuildIsJudgedRight`), but the comparison that
  ReproducibilityV3CandidateReady refers to may be of other bundles. Any other start of the lane
  in the directory rewrites the two staged manifests before it learns that the run is not
  its own, whereupon the run under way is rejected.
* prepare_release_evidence_inputs likewise rewrites the index before ensure_evidence_run
  refuses the changed configuration: the run under way goes to the dead letter
  queue, or goes on with the other index where it had not read it yet. Several agents
  validate one reading of a file and refer to another; that no foreign content gets to a
  candidate is due to the later stages, which compare what they were handed.
* Two artifacts with the same content under two names pass the release verifier, which
  compares names with digests, but not validate_release_verification_record, which counts the
  digests (`evidence_agents.py:839-846`): such a release is signed, verified and then refused. Found
  by the proof of `LaneDecidesAsItShould`, which cannot do without the conjunct of `Fit` about digests.
* The release verifier's record is compared with a new hash of the manifest and
  not with the digest of the event (`evidence_agents.py:811-869`), and in fixture mode the lane
  always ends rejected, since the real verifier refuses fixtures.
* The builder's reader of sdists accepts paths which archive_validation refuses (two
  spellings of a parent directory, paths too long for a ustar header), so that such a
  release fails after it was built; nothing is accepted that should not be.
* A job of the build workflow that is run again produces genuine statements that are never
  verified, because only the first attempt is (`build_verification_v3.py:837`); after a failure of the last
  job the whole build has to be repeated. A crash between the exclusive writes of
  a command leaves a directory on which it cannot be repeated (`builder_handoff_v3.py:2440`).
* assemble writes `evidence.json` before it verifies it, and leaves it if that fails.
* The verifier opens the archives and the observed trace again by path without comparing their
  digest. One replacement of the trace is found out by the raw files that have to reduce to it.
  Two are not: the raw traces before they are read for the manifest, which nobody signs, with
  names that the seal expects (the predicate covers the trace but not the raw files,
  `build_verification_v3.py:2295`), and the trace before its second reading. The record then lists raw
  traces of another run than the trace which its builder reported and its predicate names. This is why
  `RecordedIsOneRun` speaks of at most one interference, and `ForeignRecords` of all files but the
  raw traces.

## 8. Plan

1. (done) `AgentStore`, `DurableHandoff`, `AgentRuntime` and their proofs.
2. (done) `Publication`, `OneTimeAuthorization` and their proofs.
3. (done) `ManagedCheckout`: the reconciliation of a checkout and the
   compare-and-swap of the secure branch, and its proofs.
4. (done) `ForkLifecycle`: partial application, repetition, and a state file shared by
   commands that do not lock it.
5. (done) The evidence pipeline: `StraceReduction`, `SpdxNormalization`, `ReleaseArchives`,
   `EvidenceBundle`, `EvidenceHandoff`, `EvidenceVerification` and the theorem about their
   composition.
6. (done) The lanes that pass files from agent to agent: `ReleaseLane` with
   `ReleaseVerification`, and `RebuildLane`.
7. (done) `BuildSupervisor`: the builder entrypoint, and its proofs.
8. (done) An abstract specification of a lane, `CandidateDecision`, and both lanes as its
   implementations. Left: the lanes as routes over `AgentStore`, with the gates between
   events, and `PublicationRequestHandler` between `ManagedCheckout` and `Publication`.
9. Source reacquisition, custody and the first two versions of the comparison.
10. (done) Proofs about the lanes over a run directory, for any number of starts and
    attempts, about `ForkLifecycle`, and about the evidence pipeline in both directions: what is
    verified is sound, and what is honest is verified.
11. Proofs: `RunIsDecided` as far as its safety part goes.
