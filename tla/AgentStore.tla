----------------------------- MODULE AgentStore -----------------------------
(***************************************************************************)
(* The durable store of the agent runtime (agent_store.py): the tables     *)
(* runs, events, work_items, attempts and handoffs of one SQLite file, and *)
(* the transactions over them.  Every transaction opens with BEGIN         *)
(* IMMEDIATE, so transactions are serialised and each is one action here;  *)
(* what interleaves is the calls of concurrent processes.  A call reads    *)
(* the clock (utc_now) BEFORE it waits for the write lock, up to 30 s in   *)
(* the busy handler, so the instant now a transaction works with may lie   *)
(* in the past: every such transaction takes now as a parameter.           *)
(*                                                                         *)
(* The clients are left free: any attempt ever handed out may come back,   *)
(* at any later time, to complete or to fail, whether or not its process   *)
(* is still the holder of the lease.                                       *)
(***************************************************************************)
EXTENDS Integers

CONSTANTS
  Run,           \* run identifiers
  Event,         \* idempotency keys: (run_id, event_type, dedupe_key)
  Agent,         \* agent identifiers
  Worker,        \* worker_id values; live processes may share one
  Payload,       \* canonical payloads (told apart by payload_sha256)
  ResultStatus,  \* the statuses handlers return
  Digest,        \* artifact sets, told apart by their digests
  RunOf,         \* the run_id of an idempotency key
  Routes,        \* build_event_routes: the agents an event type is routed to
  Outputs,       \* the keys an agent may emit
  Handlers,      \* the sets of agents a runtime registers handlers for
  External,      \* the keys publish_external is called with
  MaxAttempts,   \* max_attempts of every work item (3 by default)
  LeaseSeconds,  \* lease_seconds, in ticks of the clock
  MaxClock,      \* bound on the clock
  NULL           \* an absent row or an SQL NULL

ASSUME RoutingAssumption ==
  /\ RunOf \in [Event -> Run]
  /\ Routes \in [Event -> SUBSET Agent]
  /\ Outputs \in [Agent -> SUBSET Event]
  /\ Handlers \subseteq (SUBSET Agent) \ {{}}
  /\ External \subseteq Event
  /\ ResultStatus \subseteq {"succeeded", "blocked", "needs_human_review"}

ASSUME BoundsAssumption ==
  /\ MaxAttempts \in Nat \ {0}      \* _publish_event refuses less than one
  /\ LeaseSeconds \in Nat \ {0}
  /\ MaxClock \in Nat

VARIABLES
  clock,      \* utc_now(), monotone here
  runStatus,  \* runs.status
  event,      \* events, by idempotency key
  work,       \* work_items, by work_id
  attempt,    \* attempts, by work_id and attempt_number
  handoff     \* handoffs with the artifact rows they reference, by work_id

vars == <<clock, runStatus, event, work, attempt, handoff>>

-----------------------------------------------------------------------------
\* work_id is the digest of (event_id, agent_id); an attempt_id is a fresh
\* uuid4, so it identifies the work item and the number of the attempt.
Work == Event \X Agent
Number == 1..MaxAttempts
AttemptId == Work \X Number

WorkStatus == {"absent", "queued", "running", "succeeded", "dead_letter"}
AttemptStatus ==
  {"absent", "running", "succeeded", "retryable_failure", "failed",
   "lease_expired"}
FinalStatus == {"running", "failed", "succeeded"} \cup ResultStatus

EventRow == [payload : Payload, producer : AttemptId \cup {NULL}]

\* lease_expires_at and current_attempt_id are 0 where the column is NULL.
WorkRow ==
  [status : WorkStatus, attempts : 0..MaxAttempts, owner : Worker \cup {NULL},
   lease : 0..(MaxClock + LeaseSeconds), current : 0..MaxAttempts,
   available : 0..MaxClock, created : 0..MaxClock]

AttemptRow ==
  [worker : Worker \cup {NULL}, status : AttemptStatus, started : 0..MaxClock]

HandoffRow ==
  [attempt : Number, status : ResultStatus, outputs : SUBSET Event,
   artifacts : Digest]

\* An absent row is not a row.
ASSUME NullAssumption ==
  /\ NULL \notin EventRow
  /\ NULL \notin HandoffRow
  /\ NULL \notin AttemptId

\* What a handler may return: events with their payloads.
Emissions(a) == UNION {[E -> Payload] : E \in SUBSET Outputs[a]}

Unleased(row) == [row EXCEPT !.owner = NULL, !.lease = 0, !.current = 0]

AbsentWork ==
  [status |-> "absent", attempts |-> 0, owner |-> NULL, lease |-> 0,
   current |-> 0, available |-> 0, created |-> 0]

AbsentAttempt == [worker |-> NULL, status |-> "absent", started |-> 0]

Init ==
  /\ clock = 0
  /\ runStatus = [r \in Run |-> "absent"]
  /\ event = [e \in Event |-> NULL]
  /\ work = [w \in Work |-> AbsentWork]
  /\ attempt = [w \in Work |-> [n \in Number |-> AbsentAttempt]]
  /\ handoff = [w \in Work |-> NULL]

-----------------------------------------------------------------------------
(* _publish_event: INSERT OR IGNORE on the idempotency key, then compare    *)
(* the stored row with the intended one, then INSERT OR IGNORE one work     *)
(* item per routed agent.                                                   *)

\* Mutant: only the payload is compared, not who produced the event.
CollidesByPayload(outs, producer) ==
  \E e \in DOMAIN outs : event[e] # NULL /\ event[e].payload # outs[e]

Collides(outs, producer) ==
  \E e \in DOMAIN outs :
    /\ event[e] # NULL
    /\ event[e] # [payload |-> outs[e], producer |-> producer]

Published(outs, producer) ==
  [e \in Event |->
     IF e \in DOMAIN outs /\ event[e] = NULL
     THEN [payload |-> outs[e], producer |-> producer]
     ELSE event[e]]

\* Mutant: INSERT OR REPLACE instead of INSERT OR IGNORE.
NewWorkReplaced(outs) ==
  {w \in Work : w[1] \in DOMAIN outs /\ w[2] \in Routes[w[1]]}

NewWork(outs) ==
  {w \in Work : /\ w[1] \in DOMAIN outs
                /\ w[2] \in Routes[w[1]]
                /\ work[w].status = "absent"}

QueuedWork ==
  [AbsentWork EXCEPT !.status = "queued", !.available = clock, !.created = clock]

(* claim_work, first half (_recover_expired_leases): the running items in   *)
(* the caller's scope whose lease is over at now lose their attempt, and    *)
(* are queued again, or dead-lettered with their run when none is left.     *)

InScope(w, r, A) == RunOf[w[1]] = r /\ w[2] \in A

\* Mutant: the lease is not looked at.
ExpiredAnyLease(r, A, now) ==
  {w \in Work : work[w].status = "running" /\ InScope(w, r, A)}

\* Mutant: the comparison is the wrong way round for a lease in the past.
ExpiredNever(r, A, now) ==
  {w \in Work : /\ work[w].status = "running"
                /\ work[w].lease < 0
                /\ InScope(w, r, A)}

Expired(r, A, now) ==
  {w \in Work : /\ work[w].status = "running"
                /\ work[w].lease <= now
                /\ InScope(w, r, A)}

\* Mutants: one attempt too many, and one too few.
AfterAttemptTooMany(row) ==
  IF row.attempts <= MaxAttempts THEN "queued" ELSE "dead_letter"

AfterAttemptTooFew(row) ==
  IF row.attempts + 1 < MaxAttempts THEN "queued" ELSE "dead_letter"

AfterAttempt(row) ==
  IF row.attempts < MaxAttempts THEN "queued" ELSE "dead_letter"

Recovered(X, now) ==
  [w \in Work |->
     IF w \in X
     THEN [Unleased(work[w]) EXCEPT !.status = AfterAttempt(work[w]),
                                    !.available = now]
     ELSE work[w]]

Forfeited(X) ==
  [w \in Work |->
     [n \in Number |->
        IF w \in X /\ n = work[w].current /\ attempt[w][n].status = "running"
        THEN [attempt[w][n] EXCEPT !.status = "lease_expired"]
        ELSE attempt[w][n]]]

\* Mutant: the run gets the status of the work item.
FailedRunsDeadLetter(X) ==
  [r \in Run |->
     IF \E w \in X : RunOf[w[1]] = r /\ AfterAttempt(work[w]) = "dead_letter"
     THEN "dead_letter"
     ELSE runStatus[r]]

FailedRuns(X) ==
  [r \in Run |->
     IF \E w \in X : RunOf[w[1]] = r /\ AfterAttempt(work[w]) = "dead_letter"
     THEN "failed"
     ELSE runStatus[r]]

(* claim_work, second half: the oldest queued item in scope that is already *)
(* available at now.  Items created at the same instant are ordered by a    *)
(* digest: either may come first.  The recovery is committed even when      *)
(* there is nothing to claim.                                               *)

Ready(rows, r, A, now) ==
  {w \in Work : /\ rows[w].status = "queued"
                /\ rows[w].available <= now
                /\ InScope(w, r, A)}

Recover(r, A, now) ==
  LET X == Expired(r, A, now)
  IN  /\ Ready(Recovered(X, now), r, A, now) = {}
      /\ work' = Recovered(X, now)
      /\ attempt' = Forfeited(X)
      /\ runStatus' = FailedRuns(X)
      /\ UNCHANGED <<clock, event, handoff>>

\* Mutant: the attempt is not counted, so the next one gets its identity.
ClaimedUncounted(row, p) ==
  [row EXCEPT !.status = "running", !.owner = p, !.lease = clock + LeaseSeconds,
              !.current = row.attempts + 1]

Claimed(row, p) ==
  [row EXCEPT !.status = "running", !.attempts = row.attempts + 1,
              !.owner = p, !.lease = clock + LeaseSeconds,
              !.current = row.attempts + 1]

ClaimWork(w, p, r, A, now) ==
  LET X == Expired(r, A, now)
      rows == Recovered(X, now)
      ready == Ready(rows, r, A, now)
  IN  /\ w \in ready
      /\ \A v \in ready : rows[w].created <= rows[v].created
      /\ work' = [rows EXCEPT ![w] = Claimed(rows[w], p)]
      /\ attempt' = [Forfeited(X) EXCEPT ![w][rows[w].attempts + 1] =
                        [worker |-> p, status |-> "running", started |-> now]]
      /\ runStatus' = FailedRuns(X)
      /\ UNCHANGED <<clock, event, handoff>>

-----------------------------------------------------------------------------
(* _require_active_lease, and with it the fence of the final UPDATE of      *)
(* complete_work and fail_work, which repeats its conditions.               *)

HoldsLease(w, n, p, now) ==
  /\ work[w].status = "running"
  /\ work[w].owner = p
  /\ work[w].current = n
  /\ work[w].lease > now

(* complete_work: output events with their work items, artifact rows, the   *)
(* handoff, the attempt and the work item, all or nothing.  A collision, a  *)
(* lost lease or a second handoff for the item raises: nothing is written.  *)

\* Mutant: completion trusts the WorkItem it was handed at the claim.
CompleteUnfenced(w, n, p, now, status, outs, artifacts) ==
  /\ ~Collides(outs, <<w, n>>)
  /\ event' = Published(outs, <<w, n>>)
  /\ work' = [v \in Work |->
                IF v = w THEN [Unleased(work[w]) EXCEPT !.status = "succeeded"]
                ELSE IF v \in NewWork(outs) THEN QueuedWork ELSE work[v]]
  /\ attempt' = [attempt EXCEPT ![w][n].status = "succeeded"]
  /\ handoff' = [handoff EXCEPT ![w] =
                   [attempt |-> n, status |-> status, outputs |-> DOMAIN outs,
                    artifacts |-> artifacts]]
  /\ UNCHANGED <<clock, runStatus>>

CompleteWork(w, n, p, now, status, outs, artifacts) ==
  /\ HoldsLease(w, n, p, now)
  /\ ~Collides(outs, <<w, n>>)
  /\ handoff[w] = NULL                                  \* UNIQUE(work_id)
  /\ attempt[w][n].status = "running"
  /\ event' = Published(outs, <<w, n>>)
  /\ work' = [v \in Work |->
                IF v = w THEN [Unleased(work[w]) EXCEPT !.status = "succeeded"]
                ELSE IF v \in NewWork(outs) THEN QueuedWork ELSE work[v]]
  /\ attempt' = [attempt EXCEPT ![w][n].status = "succeeded"]
  /\ handoff' = [handoff EXCEPT ![w] =
                   [attempt |-> n, status |-> status, outputs |-> DOMAIN outs,
                    artifacts |-> artifacts]]
  /\ UNCHANGED <<clock, runStatus>>

(* fail_work with its default retry_delay_seconds = 0: available again at   *)
(* once, or dead-lettered with the run.                                     *)

FailWork(w, n, p, now) ==
  LET s == AfterAttempt(work[w])
  IN  /\ HoldsLease(w, n, p, now)
      /\ attempt[w][n].status = "running"
      /\ work' = [work EXCEPT ![w] =
                    [Unleased(work[w]) EXCEPT !.status = s, !.available = clock]]
      /\ attempt' = [attempt EXCEPT ![w][n].status =
                       IF s = "queued" THEN "retryable_failure" ELSE "failed"]
      /\ runStatus' = FailedRuns({w})
      /\ UNCHANGED <<clock, event, handoff>>

-----------------------------------------------------------------------------
\* create_run: run_id is the primary key.
CreateRun(r) ==
  /\ runStatus[r] = "absent"
  /\ runStatus' = [runStatus EXCEPT ![r] = "running"]
  /\ UNCHANGED <<clock, event, work, attempt, handoff>>

\* set_run_status: an unconditional UPDATE.
SetRunStatus(r, s) ==
  /\ runStatus[r] # "absent"
  /\ runStatus' = [runStatus EXCEPT ![r] = s]
  /\ UNCHANGED <<clock, event, work, attempt, handoff>>

\* Mutant: the work items are left to a second transaction, which a crash may
\* prevent.
PublishEventAlone(e, payload) ==
  LET outs == [x \in {e} |-> payload]
  IN  /\ runStatus[RunOf[e]] # "absent"
      /\ ~Collides(outs, NULL)
      /\ event' = Published(outs, NULL)
      /\ UNCHANGED <<clock, runStatus, work, attempt, handoff>>

\* publish_event, called from outside any agent: no producing attempt.
PublishEvent(e, payload) ==
  LET outs == [x \in {e} |-> payload]
  IN  /\ runStatus[RunOf[e]] # "absent"                 \* REFERENCES runs
      /\ ~Collides(outs, NULL)
      /\ event' = Published(outs, NULL)
      /\ work' = [v \in Work |->
                    IF v \in NewWork(outs) THEN QueuedWork ELSE work[v]]
      /\ UNCHANGED <<clock, runStatus, attempt, handoff>>

Tick ==
  /\ clock < MaxClock
  /\ clock' = clock + 1
  /\ UNCHANGED <<runStatus, event, work, attempt, handoff>>

-----------------------------------------------------------------------------
\* Handlers emit into their own run: the key is made with work.run_id.
RunOutputs(w) ==
  {outs \in Emissions(w[2]) : \A e \in DOMAIN outs : RunOf[e] = RunOf[w[1]]}

\* claim_work by worker p; drain always names one run and its own handlers.
Claim(p) ==
  \E r \in Run, A \in Handlers, now \in 0..clock :
    \/ Recover(r, A, now)
    \/ \E w \in Work : ClaimWork(w, p, r, A, now)

\* The process that was handed attempt n of w reports back, however late:
\* with an instant read at any time since its claim.
Report(w, n) ==
  LET p == attempt[w][n].worker
  IN  /\ attempt[w][n].status # "absent"
      /\ \E now \in attempt[w][n].started..clock :
           \/ FailWork(w, n, p, now)
           \/ \E s \in ResultStatus, outs \in RunOutputs(w), d \in Digest :
                CompleteWork(w, n, p, now, s, outs, d)

Next ==
  \/ Tick
  \/ \E r \in Run : CreateRun(r) \/ \E s \in FinalStatus : SetRunStatus(r, s)
  \/ \E e \in External, payload \in Payload : PublishEvent(e, payload)
  \/ \E p \in Worker : Claim(p)
  \/ \E w \in Work, n \in Number : Report(w, n)

Spec == Init /\ [][Next]_vars

-----------------------------------------------------------------------------
TypeOK ==
  /\ clock \in 0..MaxClock
  /\ runStatus \in [Run -> FinalStatus \cup {"absent"}]
  /\ event \in [Event -> EventRow \cup {NULL}]
  /\ work \in [Work -> WorkRow]
  /\ attempt \in [Work -> [Number -> AttemptRow]]
  /\ handoff \in [Work -> HandoffRow \cup {NULL}]

\* The fence: an attempt is running exactly while its work item is leased to
\* it.  Recovery, failure and completion, in whatever order zombies and
\* replacements make them, never leave two live attempts of one item, nor an
\* attempt row that says running with nobody entitled to end it.
OneHolder ==
  \A w \in Work, n \in Number :
    attempt[w][n].status = "running"
      <=> work[w].status = "running" /\ work[w].current = n

\* A work item has a handoff exactly when it succeeded, and the handoff is
\* that of its single successful attempt: no late attempt wins a second time.
OneWinner ==
  \A w \in Work :
    /\ work[w].status = "succeeded" <=> handoff[w] # NULL
    /\ \A n \in Number :
         attempt[w][n].status = "succeeded"
           <=> handoff[w] # NULL /\ handoff[w].attempt = n

\* Fencing, which worker identities cannot give (two processes may share
\* one): of the attempts of an item at most one is live and at most one won,
\* and the item's own row always says which.
Fenced == OneHolder /\ OneWinner

\* "Output events durably bind the producer agent and exact successful
\* attempt" (docs/AGENT_RUNTIME.md): whatever an agent published came with
\* the handoff of the attempt the event names, and each output of a handoff
\* is the event that attempt published, not another's under the same key.
Provenance ==
  /\ \A e \in Event :
       event[e] # NULL /\ event[e].producer # NULL =>
         LET w == event[e].producer[1]
         IN  /\ handoff[w] # NULL
             /\ handoff[w].attempt = event[e].producer[2]
             /\ e \in handoff[w].outputs
  /\ \A w \in Work :
       handoff[w] # NULL =>
         \A e \in handoff[w].outputs :
           /\ event[e] # NULL
           /\ event[e].producer = <<w, handoff[w].attempt>>

\* An event is stored together with the work of every agent it is routed to,
\* and no work exists without its event: no crash point loses a delivery.
FanOut ==
  \A e \in Event, a \in Agent :
    work[<<e, a>>].status # "absent" <=> event[e] # NULL /\ a \in Routes[e]

\* The retry budget: attempts are numbered without a gap up to the counter, a
\* queued item has one left, and an item is dead-lettered only after
\* MaxAttempts of them, each of which ended without success.
RetryBudget ==
  \A w \in Work :
    /\ \A n \in Number :
         attempt[w][n].status # "absent" <=> n <= work[w].attempts
    /\ work[w].status = "queued" => work[w].attempts < MaxAttempts
    /\ work[w].status = "dead_letter" =>
         /\ work[w].attempts = MaxAttempts
         /\ \A n \in Number : attempt[w][n].status \in
              {"retryable_failure", "failed", "lease_expired"}

OverWhenExpired(w, n) ==
  attempt[w][n].status = "running" /\ attempt'[w][n].status = "lease_expired"
    => work[w].lease <= clock

\* A live lease is never taken away: however stale the instant the claimer
\* works with, an attempt is declared expired only when its lease really is.
LeaseHonoured == [][\A w \in Work, n \in Number : OverWhenExpired(w, n)]_vars

\* History is append-only: events ("immutable" in docs/AGENT_RUNTIME.md),
\* handoffs and ended attempts never change, and an item that succeeded or
\* was dead-lettered stays so, whatever zombies, retries and repeated
\* publications do later.
HistoryImmutable ==
  [][/\ \A e \in Event : event[e] # NULL => event'[e] = event[e]
     /\ \A w \in Work :
          /\ handoff[w] # NULL => handoff'[w] = handoff[w]
          /\ work[w].status \in {"succeeded", "dead_letter"} =>
               work'[w] = work[w]
          /\ \A n \in Number :
               attempt[w][n].status \notin {"absent", "running"} =>
                 attempt'[w][n] = attempt[w][n]]_vars

-----------------------------------------------------------------------------
\* The refinement mapping: an accepted event is its payload and the work that
\* produced it; attempts, leases and retries are all "pending".
Accepted ==
  [e \in Event |->
     IF event[e] = NULL THEN NULL
     ELSE [payload |-> event[e].payload,
           by |-> IF event[e].producer = NULL THEN NULL
                  ELSE event[e].producer[1]]]

Outcome ==
  [w \in Work |->
     CASE work[w].status = "absent" -> "absent"
       [] work[w].status \in {"queued", "running"} -> "pending"
       [] work[w].status = "succeeded" -> "done"
       [] OTHER -> "dead"]

Abstract == INSTANCE DurableHandoff WITH published <- Accepted,
                                         outcome <- Outcome

\* The store implements the abstract specification of a durable handoff:
\* however its processes race, crash and retry, each routed piece of work ends
\* at most once, with its outputs accepted in that same step.
ImplementsHandoff == Abstract!Spec
=============================================================================
