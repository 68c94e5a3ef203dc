---------------------------- MODULE AgentRuntime ----------------------------
(***************************************************************************)
(* The processes that work on one run of the store: the lane commands      *)
(* (create the run or resume it, publish its request, drain) and           *)
(* agent-work (drain only), executed concurrently, restarted, and crashing *)
(* between any two steps.  A process runs AgentRuntime.run_once until      *)
(* nothing is claimable or max_items is reached, then takes a verdict from *)
(* four separate reads of the store and writes it as the run's status.     *)
(*                                                                         *)
(* Handlers are their effect: they write the artifact file, then return a  *)
(* result or raise.  An attempt is abandoned by a crash, or goes on as a   *)
(* zombie past its lease: no step below asks the lease's leave, except     *)
(* where the code does.                                                    *)
(***************************************************************************)
EXTENDS AgentStore

CONSTANTS
  Process,         \* operating-system processes
  WorkerOf,        \* worker_id of each: agent-work's default is one for all
  TheRun,          \* the run they were all started for
  Request,         \* the key of the event the lane command publishes
  RequestPayload,
  Startup,         \* how a lane command starts: see StartLane
  Selections,      \* the sets of agents agent-work is started with
  AttemptScoped,   \* metadata artifact_scope = "attempt-scoped-v1"
  MaxItems,        \* max_items
  MaxCrashes       \* bound on crashes

ASSUME RuntimeAssumption ==
  /\ WorkerOf \in [Process -> Worker]
  /\ TheRun \in Run
  /\ Request \in External /\ RunOf[Request] = TheRun
  /\ RequestPayload \in Payload
  /\ Startup \in {"create", "ensure", "republish"}
  /\ Agent \in Handlers /\ Selections \subseteq Handlers
  /\ AttemptScoped \in BOOLEAN
  /\ MaxItems \in Nat
  /\ MaxCrashes \in Nat
  /\ Digest = Number    \* an attempt writes bytes no other attempt writes

VARIABLES
  pc,       \* what each process does next
  since,    \* when it last looked: its next utc_now() is no earlier
  task,     \* the claimed WorkItem and the result built for it
  drain,    \* the locals of drain
  disk,     \* artifact files: whose bytes are in each
  crashes

local == <<pc, since, task, drain>>
runtimeVars == <<vars, local, disk, crashes>>

-----------------------------------------------------------------------------
NoTask == [work |-> NULL]
Idle == [agents |-> {}, items |-> 0, pending |-> FALSE, statuses |-> {},
         dead |-> FALSE, intact |-> TRUE]

RuntimeInit ==
  /\ Init
  /\ pc = [p \in Process |-> "off"]
  /\ since = [p \in Process |-> 0]
  /\ task = [p \in Process |-> NoTask]
  /\ drain = [p \in Process |-> Idle]
  /\ disk = [w \in Work |-> [n \in Number |-> NULL]]
  /\ crashes = 0

\* Only these steps go on to read the clock for their transaction.
Timed == {"claim", "complete", "fail"}

Goto(p, l) ==
  /\ pc' = [pc EXCEPT ![p] = l]
  /\ since' = [since EXCEPT ![p] = IF l \in Timed THEN clock ELSE 0]
Instants(p) == since[p]..clock
Keep == UNCHANGED <<disk, crashes>>

\* Mutant: one path per run, whatever the scope.
SlotShared(n) == 1

\* The artifact path of attempt n: its own directory, or one path per run.
Slot(n) == IF AttemptScoped THEN n ELSE 1

-----------------------------------------------------------------------------
(* Starting.  The intake command always creates its run; the other lanes    *)
(* create it unless it exists (ensure_*_run) and publish the request only   *)
(* if they created it; the reacquisition lane publishes it either way.      *)
(* With enqueue_only they stop there (here: no agents to drain for).        *)
(* agent-work drains an existing run, with a selection of its handlers.     *)

StartLane(p, A) ==
  /\ pc[p] = "off"
  /\ IF runStatus[TheRun] = "absent" \/ Startup = "create" THEN Goto(p, "create")
     ELSE IF Startup = "republish" THEN Goto(p, "publish")
     ELSE A # {} /\ Goto(p, "claim")
  /\ drain' = [drain EXCEPT ![p].agents = A]
  /\ UNCHANGED <<vars, task>> /\ Keep

StartWork(p, A) ==
  /\ pc[p] = "off"
  /\ runStatus[TheRun] # "absent"
  /\ Goto(p, "claim")
  /\ drain' = [drain EXCEPT ![p].agents = A]
  /\ UNCHANGED <<vars, task>> /\ Keep

Stop(p) == Goto(p, "off") /\ task' = [task EXCEPT ![p] = NoTask]
                          /\ drain' = [drain EXCEPT ![p] = Idle]

CreateStep(p) ==
  /\ pc[p] = "create"
  /\ \/ CreateRun(TheRun) /\ Goto(p, "publish") /\ UNCHANGED <<task, drain>>
     \/ runStatus[TheRun] # "absent" /\ Stop(p) /\ UNCHANGED vars
  /\ Keep

PublishStep(p) ==
  /\ pc[p] = "publish"
  /\ PublishEvent(Request, RequestPayload)
  /\ IF drain[p].agents = {} THEN Stop(p)
     ELSE Goto(p, "claim") /\ UNCHANGED <<task, drain>>
  /\ Keep

-----------------------------------------------------------------------------
(* run_once: claim, handle, complete; any exception on the way goes to      *)
(* fail_work, and an exception there is reported as lease_lost.             *)

MoreItems(p) == drain[p].items < MaxItems

ClaimStep(p) ==
  /\ pc[p] = "claim"
  /\ MoreItems(p)
  /\ \E now \in Instants(p) :
       \/ /\ Recover(TheRun, drain[p].agents, now)
          /\ Goto(p, "pending")
          /\ UNCHANGED <<task, drain>>
       \/ \E w \in Work :
            /\ ClaimWork(w, WorkerOf[p], TheRun, drain[p].agents, now)
            /\ Goto(p, "handle")
            /\ task' = [task EXCEPT ![p] =
                 [work |-> w, number |-> work'[w].current]]
            /\ drain' = [drain EXCEPT ![p].items = @ + 1]
  /\ Keep

Exhausted(p) ==
  /\ pc[p] = "claim"
  /\ ~MoreItems(p)
  /\ Goto(p, "pending")
  /\ UNCHANGED <<vars, task, drain>> /\ Keep

\* Mutant: the handler publishes what it emits before its work is completed.
HandlePublishing(p) ==
  /\ pc[p] = "handle"
  /\ LET t == task[p]
     IN  \E s \in ResultStatus, outs \in RunOutputs(t.work) :
           /\ event' = Published(outs, <<t.work, t.number>>)
           /\ task' = [task EXCEPT ![p] =
                [work |-> t.work, number |-> t.number, status |-> s,
                 outs |-> outs]]
           /\ disk' = [disk EXCEPT ![t.work][Slot(t.number)] = t.number]
           /\ Goto(p, "hash")
  /\ UNCHANGED <<clock, runStatus, work, attempt, handoff, drain, crashes>>

Handle(p) ==
  /\ pc[p] = "handle"
  /\ LET t == task[p]
     IN  /\ disk' = [disk EXCEPT ![t.work][Slot(t.number)] = t.number]
         /\ \/ \E s \in ResultStatus, outs \in RunOutputs(t.work) :
                 /\ task' = [task EXCEPT ![p] =
                      [work |-> t.work, number |-> t.number,
                       status |-> s, outs |-> outs]]
                 /\ Goto(p, "hash")
            \/ Goto(p, "fail") /\ UNCHANGED task          \* the handler raises
  /\ UNCHANGED <<vars, drain, crashes>>

\* complete_work before its transaction: a first look at the lease, and the
\* artifacts are hashed.
Hash(p) ==
  /\ pc[p] = "hash"
  /\ LET t == task[p]
     IN  IF HoldsLease(t.work, t.number, WorkerOf[p], clock)
         THEN /\ Goto(p, "complete")
              /\ task' = [task EXCEPT ![p] =
                   [work |-> t.work, number |-> t.number, status |-> t.status,
                    outs |-> t.outs,
                    digest |-> disk[t.work][Slot(t.number)]]]
         ELSE Goto(p, "fail") /\ UNCHANGED task
  /\ UNCHANGED <<vars, drain>> /\ Keep

CompleteStep(p) ==
  /\ pc[p] = "complete"
  /\ \/ /\ \E now \in Instants(p) :
             CompleteWork(task[p].work, task[p].number, WorkerOf[p], now,
                          task[p].status, task[p].outs, task[p].digest)
        /\ Goto(p, "claim")
        /\ task' = [task EXCEPT ![p] = NoTask]
     \* It raises: the lease is lost, a key collides, or the lock times out.
     \/ Goto(p, "fail") /\ UNCHANGED <<vars, task>>
  /\ UNCHANGED drain /\ Keep

\* fail_work raises when the lease is gone, or when the lock times out: then
\* nobody but the clock ends the attempt, and the bound leaves it the room.
FailRaises(p) ==
  \/ \E now \in Instants(p) :
       ~HoldsLease(task[p].work, task[p].number, WorkerOf[p], now)
  \/ clock + LeaseSeconds <= MaxClock

FailStep(p) ==
  /\ pc[p] = "fail"
  /\ \/ \E now \in Instants(p) :
          FailWork(task[p].work, task[p].number, WorkerOf[p], now)
     \/ FailRaises(p) /\ UNCHANGED vars                    \* lease_lost
  /\ Goto(p, "claim")
  /\ task' = [task EXCEPT ![p] = NoTask]
  /\ UNCHANGED drain /\ Keep

-----------------------------------------------------------------------------
(* The end of drain: four reads, each of the store as it then is, and the   *)
(* verdict they add up to.                                                  *)

Read(p, from, to, field, value) ==
  /\ pc[p] = from
  /\ Goto(p, to)
  /\ drain' = [drain EXCEPT ![p][field] = value]
  /\ UNCHANGED <<vars, task>> /\ Keep

InRun(w) == RunOf[w[1]] = TheRun
\* Mutant: only queued items count as pending.
PendingQueued == \E w \in Work : InRun(w) /\ work[w].status = "queued"

Pending == \E w \in Work : InRun(w) /\ work[w].status \in {"queued", "running"}
Statuses == {handoff[w].status : w \in {x \in Work : InRun(x) /\ handoff[x] # NULL}}
DeadLetters == \E w \in Work : InRun(w) /\ work[w].status = "dead_letter"
Intact ==
  \A w \in Work :
    InRun(w) /\ handoff[w] # NULL =>
      disk[w][Slot(handoff[w].attempt)] = handoff[w].artifacts

Verdict(d) ==
  IF ~d.intact \/ d.dead THEN "failed"
  ELSE IF "blocked" \in d.statuses THEN "blocked"
  ELSE IF "needs_human_review" \in d.statuses THEN "needs_human_review"
  ELSE IF d.pending THEN "running" ELSE "succeeded"

ReadPending(p) == Read(p, "pending", "handoffs", "pending", Pending)
ReadHandoffs(p) == Read(p, "handoffs", "summary", "statuses", Statuses)
ReadSummary(p) == Read(p, "summary", "verify", "dead", DeadLetters)
ReadArtifacts(p) == Read(p, "verify", "write", "intact", Intact)

WriteStatus(p) ==
  /\ pc[p] = "write"
  /\ SetRunStatus(TheRun, Verdict(drain[p]))
  /\ Stop(p)
  /\ Keep

-----------------------------------------------------------------------------
\* The process is killed; what it held in memory is gone, its lease is not.
\* The bound leaves the clock room to pass that lease.
Crash(p) ==
  /\ pc[p] # "off"
  /\ crashes < MaxCrashes
  /\ clock + LeaseSeconds <= MaxClock
  /\ crashes' = crashes + 1
  /\ Stop(p)
  /\ UNCHANGED <<vars, disk>>

Start(p) ==
  \/ \E A \in {Agent, {}} : StartLane(p, A)
  \/ \E A \in Selections : StartWork(p, A)

Step(p) ==
  \/ CreateStep(p) \/ PublishStep(p)
  \/ ClaimStep(p) \/ Exhausted(p) \/ Handle(p) \/ Hash(p)
  \/ CompleteStep(p) \/ FailStep(p)
  \/ ReadPending(p) \/ ReadHandoffs(p) \/ ReadSummary(p) \/ ReadArtifacts(p)
  \/ WriteStatus(p)

Clock == Tick /\ UNCHANGED <<local, disk, crashes>>

RuntimeNext ==
  \/ Clock
  \/ \E p \in Process : Start(p) \/ Step(p) \/ Crash(p)

RuntimeSpec == RuntimeInit /\ [][RuntimeNext]_runtimeVars

\* The operator repeats the command, and not always with enqueue_only, until
\* the run has a verdict; a process that is not killed goes on; time passes.
Rerun(p) == StartLane(p, Agent) /\ runStatus[TheRun] \in {"absent", "running"}

Fairness ==
  /\ WF_runtimeVars(Clock)
  /\ \A p \in Process : SF_runtimeVars(Rerun(p)) /\ WF_runtimeVars(Step(p))

FairSpec == RuntimeSpec /\ Fairness

-----------------------------------------------------------------------------
Label == {"off", "create", "publish", "claim", "handle", "hash", "complete",
          "fail", "pending", "handoffs", "summary", "verify", "write"}

RuntimeTypeOK ==
  /\ pc \in [Process -> Label]
  /\ since \in [Process -> 0..clock]
  /\ \A p \in Process :
       /\ drain[p] \in
            [agents : SUBSET Agent, items : 0..MaxItems, pending : BOOLEAN,
             statuses : SUBSET ResultStatus, dead : BOOLEAN, intact : BOOLEAN]
       /\ pc[p] \in {"handle", "hash", "complete", "fail"} =>
            task[p].work \in Work /\ task[p].number \in Number
  /\ disk \in [Work -> [Number -> Number \cup {NULL}]]
  /\ crashes \in 0..MaxCrashes

\* Every step of every process is one transaction of the store, made with the
\* worker_id, the attempt and an instant the store's contract allows, or
\* leaves the store alone: the theorems about AgentStore hold of the processes.
ImplementsStore == Spec

\* No two processes hold the same attempt, though they may share a worker_id:
\* the attempt id is what tells them apart.
AttemptsAreDistinct ==
  \A p, q \in Process :
    p # q /\ task[p].work # NULL /\ task[q].work # NULL =>
      \/ task[p].work # task[q].work
      \/ task[p].number # task[q].number

\* In an attempt-scoped run a handoff records the bytes its own attempt wrote,
\* and they stay, whatever zombies of the item write afterwards: verification
\* never fails for want of isolation.
ArtifactsAreOwn ==
  \A w \in Work :
    handoff[w] # NULL =>
      /\ handoff[w].artifacts = handoff[w].attempt
      /\ disk[w][Slot(handoff[w].attempt)] = handoff[w].artifacts

\* Where every command publishes the request before it drains, a run with
\* status succeeded has been worked off completely, and for good: the reads of
\* a drain are not atomic and others go on between them, but nothing becomes
\* pending once nothing is.
SuccessIsEarned ==
  runStatus[TheRun] = "succeeded" =>
    /\ event[Request] # NULL
    /\ \A w \in Work :
         InRun(w) /\ work[w].status # "absent" =>
           work[w].status = "succeeded" /\ handoff[w].status = "succeeded"

\* test_retry_exhaustion_dead_letters_work_and_fails_run and
\* test_final_expired_lease_dead_letters_work_and_fails_run: dead-lettered
\* work fails its run.
DeadLetterFailsRun == DeadLetters => runStatus[TheRun] = "failed"

\* "Repeating the command with the same run id and exact configuration resumes
\* the durable run" (docs/AGENT_RUNTIME.md): a run is not reported succeeded
\* before the event it was created for was even published.
SuccessNeedsRequest == runStatus[TheRun] = "succeeded" => event[Request] # NULL

\* Whatever crashes, and whoever dies holding a lease, the repeated command
\* publishes the request, works it off or gives it up, and brings the run to
\* a verdict that no slower process takes back.
RunIsDecided ==
  /\ <>(\E a \in Agent : work[<<Request, a>>].status \in {"succeeded", "dead_letter"})
  /\ <>[](runStatus[TheRun] \notin {"absent", "running"})
=============================================================================
