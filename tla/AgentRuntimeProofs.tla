------------------------- MODULE AgentRuntimeProofs -------------------------
(***************************************************************************)
(* Proofs about AgentRuntime for any number of processes, crashes and      *)
(* items: every step of a process is a transaction of the store, processes *)
(* never share an attempt, attempt-scoped artifacts are isolated, and a    *)
(* verdict of success is earned.                                           *)
(***************************************************************************)
EXTENDS AgentRuntime, AgentStoreProofs

-----------------------------------------------------------------------------
(* What a process may rely on while others use the store.                   *)

\* An attempt, once made, keeps its worker and the instant of its claim.
Persists(w, n) ==
  /\ attempt'[w][n].status # "absent"
  /\ attempt'[w][n].worker = attempt[w][n].worker
  /\ attempt'[w][n].started = attempt[w][n].started

\* What ClaimWork gives the claimer: an attempt that nobody made before.
LEMMA ClaimGives ==
  ASSUME IInv, NEW r \in Run, NEW A \in Handlers, NEW now \in 0..clock,
         NEW w \in Work, NEW p \in Worker, ClaimWork(w, p, r, A, now)
  PROVE  /\ work'[w].current \in Number
         /\ attempt[w][work'[w].current].status = "absent"
         /\ attempt'[w][work'[w].current] =
              [worker |-> p, status |-> "running", started |-> now]
         /\ \A v \in Work, n \in Number :
              attempt[v][n].status # "absent" => Persists(v, n)
<1> DEFINE X == Expired(r, A, now)
<1> DEFINE rows == Recovered(X, now)
<1> DEFINE tries == Forfeited(X)
<1> DEFINE k == rows[w].attempts + 1
<1> DEFINE try == [worker |-> p, status |-> "running", started |-> now]
<1>1. /\ X \in SUBSET Work
      /\ \A v \in X : work[v].status = "running"
  BY DEF Expired
<1>2. /\ rows[w].status = "queued"
      /\ work' = [rows EXCEPT ![w] = Claimed(rows[w], p)]
      /\ attempt' = [tries EXCEPT ![w][k] = try]
  BY DEF ClaimWork, Ready
<1>3. /\ rows \in [Work -> WorkRow]
      /\ tries \in [Work -> [Number -> AttemptRow]]
  BY <1>1, RecoveryType
<1>4. RowInv(rows[w], tries[w], handoff[w])
  BY <1>1, RecoveredRowInv
<1>5. \A v \in Work, n \in Number :
        \/ tries[v][n] = attempt[v][n]
        \/ /\ attempt[v][n].status = "running"
           /\ tries[v][n] = [attempt[v][n] EXCEPT !.status = "lease_expired"]
  BY DEF Forfeited
<1>6. \A v \in Work, n \in Number : attempt[v][n] \in AttemptRow
  BY DEF IInv, TypeOK
<1> HIDE DEF X, rows, tries
<1>7. k \in Number
  BY <1>2, <1>3, <1>4, BoundsAssumption DEF RowInv, Number, WorkRow
<1>8. work'[w].current = k
  <2>1. rows[w] \in WorkRow /\ work'[w] = Claimed(rows[w], p)
    BY <1>2, <1>3
  <2> QED
    BY <2>1 DEF Claimed, WorkRow
<1>9. tries[w][k].status = "absent"
  BY <1>3, <1>4, <1>7 DEF RowInv, WorkRow, Number
<1>10. \A v \in Work, n \in Number :
         /\ tries[v][n].status = "absent" <=> attempt[v][n].status = "absent"
         /\ tries[v][n].worker = attempt[v][n].worker
         /\ tries[v][n].started = attempt[v][n].started
  <2> SUFFICES ASSUME NEW v \in Work, NEW n \in Number
               PROVE  /\ tries[v][n].status = "absent"
                           <=> attempt[v][n].status = "absent"
                      /\ tries[v][n].worker = attempt[v][n].worker
                      /\ tries[v][n].started = attempt[v][n].started
    OBVIOUS
  <2>1. CASE tries[v][n] = attempt[v][n]
    BY <2>1
  <2>2. CASE /\ attempt[v][n].status = "running"
             /\ tries[v][n] = [attempt[v][n] EXCEPT !.status = "lease_expired"]
    BY <1>6, <2>2 DEF AttemptRow
  <2> QED
    BY <1>5, <2>1, <2>2
<1> HIDE DEF k, try
<1>11. \A v \in Work, n \in Number :
         attempt'[v][n] = IF v = w /\ n = k THEN try ELSE tries[v][n]
  BY <1>2, <1>3, <1>7
<1>12. ASSUME NEW v \in Work, NEW n \in Number, attempt[v][n].status # "absent"
       PROVE  Persists(v, n)
  <2>1. ~(v = w /\ n = k)
    BY <1>9, <1>10, <1>12
  <2>2. attempt'[v][n] = tries[v][n]
    BY <1>11, <2>1
  <2> QED
    BY <1>10, <1>12, <2>2 DEF Persists
<1> QED
  BY <1>7, <1>8, <1>9, <1>10, <1>11, <1>12 DEF try

\* No step of the store disturbs what identifies an attempt.
LEMMA AttemptPersists ==
  ASSUME IInv, [Next]_vars, NEW v \in Work, NEW n \in Number,
         attempt[v][n].status # "absent"
  PROVE  Persists(v, n)
<1>0. attempt[v][n] \in AttemptRow
  BY DEF IInv, TypeOK
<1>1. CASE UNCHANGED attempt
  BY <1>1 DEF Persists
<1>2. ASSUME NEW e \in External, NEW payload \in Payload, PublishEvent(e, payload)
      PROVE  UNCHANGED attempt
  BY <1>2 DEF PublishEvent
<1>3. ASSUME NEW p \in Worker, Claim(p) PROVE Persists(v, n)
  <2>1. PICK r \in Run, A \in Handlers, now \in 0..clock :
          \/ Recover(r, A, now)
          \/ \E w \in Work : ClaimWork(w, p, r, A, now)
    BY <1>3 DEF Claim
  <2>2. CASE Recover(r, A, now)
    <3>1. \/ attempt'[v][n] = attempt[v][n]
          \/ attempt'[v][n] = [attempt[v][n] EXCEPT !.status = "lease_expired"]
      BY <2>2 DEF Recover, Forfeited
    <3> QED
      BY <1>0, <3>1 DEF Persists, AttemptRow
  <2>3. CASE \E w \in Work : ClaimWork(w, p, r, A, now)
    BY <2>3, ClaimGives
  <2> QED
    BY <2>1, <2>2, <2>3
<1>4. ASSUME NEW w \in Work, NEW m \in Number, NEW p, NEW now,
             FailWork(w, m, p, now)
      PROVE  Persists(v, n)
  <2>1. /\ attempt \in [Work -> [Number -> AttemptRow]]
        /\ \E s \in {"retryable_failure", "failed"} :
             attempt' = [attempt EXCEPT ![w][m].status = s]
    BY <1>4 DEF FailWork, IInv, TypeOK
  <2>2. \E s \in {"retryable_failure", "failed"} :
          \/ attempt'[v][n] = attempt[v][n]
          \/ attempt'[v][n] = [attempt[v][n] EXCEPT !.status = s]
    BY <2>1
  <2> QED
    BY <1>0, <2>2 DEF Persists, AttemptRow
<1>5. ASSUME NEW w \in Work, NEW m \in Number, NEW p, NEW now,
             NEW s \in ResultStatus, NEW outs \in RunOutputs(w), NEW d \in Digest,
             CompleteWork(w, m, p, now, s, outs, d)
      PROVE  Persists(v, n)
  <2>1. /\ attempt \in [Work -> [Number -> AttemptRow]]
        /\ attempt' = [attempt EXCEPT ![w][m].status = "succeeded"]
    BY <1>5 DEF CompleteWork, IInv, TypeOK
  <2>2. \/ attempt'[v][n] = attempt[v][n]
        \/ attempt'[v][n] = [attempt[v][n] EXCEPT !.status = "succeeded"]
    BY <2>1
  <2> QED
    BY <1>0, <2>2 DEF Persists, AttemptRow
<1> QED
  BY <1>1, <1>2, <1>3, <1>4, <1>5, StepCases

-----------------------------------------------------------------------------
(* The invariant of the processes.                                          *)

Busy == {"handle", "hash", "complete", "fail"}
Built == {"hash", "complete"}

\* What a process with a claimed item in its hands knows of it.
TaskInv(p) ==
  LET t == task[p]
      row == attempt[t.work][t.number]
  IN  /\ t.work \in Work
      /\ t.number \in Number
      /\ row.status # "absent"
      /\ row.worker = WorkerOf[p]
      /\ row.started <= clock
      /\ pc[p] \in {"complete", "fail"} => row.started <= since[p]
      /\ pc[p] \in Built =>
           /\ t.status \in ResultStatus
           /\ t.outs \in RunOutputs(t.work)
           /\ disk[t.work][Slot(t.number)] \in Number
           /\ AttemptScoped => disk[t.work][t.number] = t.number
      /\ pc[p] = "complete" =>
           /\ t.digest \in Number
           /\ AttemptScoped => t.digest = t.number

ProcessInv(p) ==
  /\ pc[p] \in {"create", "publish"} => drain[p].agents \in {Agent, {}}
  /\ pc[p] \in {"claim"} \cup Busy => drain[p].agents \in Handlers
  /\ IF pc[p] \in Busy THEN TaskInv(p) ELSE task[p] = NoTask

DrainRow ==
  [agents : SUBSET Agent, items : 0..MaxItems, pending : BOOLEAN,
   statuses : SUBSET ResultStatus, dead : BOOLEAN, intact : BOOLEAN]

LocalType ==
  /\ pc \in [Process -> Label]
  /\ since \in [Process -> 0..clock]
  /\ task = [p \in Process |-> task[p]]
  /\ drain \in [Process -> DrainRow]
  /\ disk \in [Work -> [Number -> Number \cup {NULL}]]
  /\ crashes \in 0..MaxCrashes

\* The inductive invariant: that of the store, the types, what each process
\* knows, and that no two know of the same attempt.
RInv ==
  /\ IInv
  /\ LocalType
  /\ \A p \in Process : ProcessInv(p)
  /\ AttemptsAreDistinct
  /\ AttemptScoped => ArtifactsAreOwn

\* What a step of process p leaves alone in the others.
OthersKeep(p) ==
  /\ \A q \in Process \ {p} :
       /\ pc'[q] = pc[q]
       /\ since'[q] = since[q]
       /\ task'[q] = task[q]
       /\ drain'[q] = drain[q]
  /\ \/ UNCHANGED disk
     \/ \E w \in Work, n \in Number :
          disk' = [disk EXCEPT ![w][Slot(n)] = n]

LEMMA SlotType == \A n \in Number : Slot(n) \in Number
BY BoundsAssumption DEF Slot, Number

\* The clock never goes back.
LEMMA ClockRises ==
  ASSUME IInv, [Next]_vars
  PROVE  clock \in Nat /\ clock' \in Nat /\ clock <= clock'
<1>1. clock \in Nat /\ clock' \in Nat
  <2>1. IInv'
    BY NextIInv
  <2> QED
    BY <2>1, BoundsAssumption DEF IInv, TypeOK
<1>2. CASE UNCHANGED vars \/ Tick
  BY <1>1, <1>2 DEF vars, Tick
<1>3. CASE \E r \in Run :
             CreateRun(r) \/ \E s \in FinalStatus : SetRunStatus(r, s)
  BY <1>1, <1>3 DEF CreateRun, SetRunStatus
<1>4. CASE \E e \in External, payload \in Payload : PublishEvent(e, payload)
  BY <1>1, <1>4 DEF PublishEvent
<1>5. CASE \E p \in Worker : Claim(p)
  BY <1>1, <1>5 DEF Claim, Recover, ClaimWork
<1>6. CASE \E w \in Work, n \in Number : Report(w, n)
  BY <1>1, <1>6 DEF Report, FailWork, CompleteWork
<1> QED
  BY <1>1, <1>2, <1>3, <1>4, <1>5, <1>6 DEF Next

\* What a process knows is stable under the steps of the others.
LEMMA OthersStable ==
  ASSUME RInv, [Next]_vars, NEW p, OthersKeep(p), NEW q \in Process \ {p}
  PROVE  ProcessInv(q)'
<1> DEFINE t == task[q]
<1>1. /\ pc'[q] = pc[q]
      /\ since'[q] = since[q]
      /\ task'[q] = task[q]
      /\ drain'[q] = drain[q]
  BY DEF OthersKeep
<1>2. ProcessInv(q)
  BY DEF RInv
<1>3. CASE pc[q] \notin Busy
  BY <1>1, <1>2, <1>3 DEF ProcessInv
<1>4. CASE pc[q] \in Busy
  <2>1. TaskInv(q)
    BY <1>2, <1>4 DEF ProcessInv
  <2>2. t.work \in Work /\ t.number \in Number
    BY <2>1 DEF TaskInv
  <2>3. Persists(t.work, t.number)
    BY <2>1, <2>2, AttemptPersists DEF RInv, TaskInv
  <2>4. /\ clock \in Nat /\ clock' \in Nat /\ clock <= clock'
        /\ attempt[t.work][t.number].started \in Nat
    BY <2>2, ClockRises, BoundsAssumption DEF RInv, IInv, TypeOK, AttemptRow
  <2>5. /\ disk[t.work][Slot(t.number)] \in Number =>
             disk'[t.work][Slot(t.number)] \in Number
        /\ AttemptScoped /\ disk[t.work][t.number] = t.number =>
             disk'[t.work][t.number] = t.number
    BY <2>2, SlotType DEF OthersKeep, RInv, LocalType, Slot
  <2>6. TaskInv(q)'
    <3>1. /\ t.work \in Work
          /\ t.number \in Number
          /\ attempt'[t.work][t.number].status # "absent"
          /\ attempt'[t.work][t.number].worker = WorkerOf[q]
          /\ attempt'[t.work][t.number].started <= clock'
          /\ pc[q] \in {"complete", "fail"} =>
               attempt'[t.work][t.number].started <= since[q]
      BY <2>1, <2>2, <2>3, <2>4 DEF TaskInv, Persists
    <3>2. pc[q] \in Built =>
            /\ t.status \in ResultStatus
            /\ t.outs \in RunOutputs(t.work)
            /\ disk'[t.work][Slot(t.number)] \in Number
            /\ AttemptScoped => disk'[t.work][t.number] = t.number
      BY <2>1, <2>5 DEF TaskInv
    <3>3. pc[q] = "complete" =>
            /\ t.digest \in Number
            /\ AttemptScoped => t.digest = t.number
      BY <2>1 DEF TaskInv
    <3> QED
      BY <1>1, <3>1, <3>2, <3>3 DEF TaskInv, Slot, RunOutputs
  <2> QED
    BY <1>1, <1>2, <1>4, <2>6 DEF ProcessInv
<1> QED
  BY <1>3, <1>4

-----------------------------------------------------------------------------
(* What every step of a process has in common.                              *)

\* The attempt in hand is the one already there, a new one, or none.
SameOrNew(p) ==
  \/ task'[p] = NoTask
  \/ task'[p].work = task[p].work /\ task'[p].number = task[p].number
  \/ /\ task'[p].work \in Work /\ task'[p].number \in Number
     /\ attempt[task'[p].work][task'[p].number].status = "absent"

WritesOwn ==
  \/ UNCHANGED disk
  \/ \E w \in Work, n \in Number : disk' = [disk EXCEPT ![w][Slot(n)] = n]

LocalStep(p, l) ==
  /\ Goto(p, l)
  /\ task' = [task EXCEPT ![p] = task'[p]]
  /\ drain' = [drain EXCEPT ![p] = drain'[p]]
  /\ drain'[p] \in DrainRow
  /\ WritesOwn
  /\ crashes' \in 0..MaxCrashes
  /\ SameOrNew(p)

\* A handoff in an attempt-scoped run is out of reach of later writes.
LEMMA OwnStays ==
  ASSUME RInv, WritesOwn, AttemptScoped, NEW w \in Work,
         handoff'[w] = handoff[w], handoff[w] # NULL
  PROVE  /\ handoff'[w].artifacts = handoff'[w].attempt
         /\ disk'[w][Slot(handoff'[w].attempt)] = handoff'[w].artifacts
<1>1. handoff[w].attempt \in Number
  BY DEF RInv, IInv, TypeOK, HandoffRow
<1>2. /\ handoff[w].artifacts = handoff[w].attempt
      /\ disk[w][Slot(handoff[w].attempt)] = handoff[w].artifacts
  BY DEF RInv, ArtifactsAreOwn
<1> QED
  BY <1>1, <1>2 DEF WritesOwn, Slot, RInv, LocalType

\* A step of one process keeps the invariant, if it keeps it for the process
\* itself and records no handoff but an own one.
LEMMA ProcessStep ==
  ASSUME RInv, [Next]_vars, NEW p \in Process, NEW l \in Label, LocalStep(p, l),
         ProcessInv(p)',
         AttemptScoped =>
           \A w \in Work : handoff'[w] # handoff[w] =>
             /\ handoff'[w].artifacts = handoff'[w].attempt
             /\ disk'[w][Slot(handoff'[w].attempt)] = handoff'[w].artifacts
  PROVE  RInv'
<1>1. IInv'
  BY NextIInv DEF RInv
<1>2. clock \in Nat /\ clock' \in Nat /\ clock <= clock'
  BY ClockRises DEF RInv
<1>3. LocalType'
  <2>1. pc' \in [Process -> Label]
    BY DEF LocalStep, Goto, RInv, LocalType
  <2>2. since' \in [Process -> 0..clock']
    <3>1. since \in [Process -> 0..clock']
      BY <1>2 DEF RInv, LocalType
    <3> QED
      BY <1>2, <3>1 DEF LocalStep, Goto
  <2>3. task' = [q \in Process |-> task'[q]]
    BY DEF LocalStep, RInv, LocalType
  <2>4. drain' \in [Process -> DrainRow]
    BY DEF LocalStep, RInv, LocalType
  <2>5. disk' \in [Work -> [Number -> Number \cup {NULL}]]
    BY SlotType DEF LocalStep, WritesOwn, RInv, LocalType
  <2> QED
    BY <2>1, <2>2, <2>3, <2>4, <2>5 DEF LocalType, LocalStep
<1>4. OthersKeep(p)
  <2>1. \A q \in Process \ {p} :
          pc'[q] = pc[q] /\ since'[q] = since[q]
    BY DEF LocalStep, Goto, RInv, LocalType
  <2>2. \A q \in Process \ {p} :
          task'[q] = task[q] /\ drain'[q] = drain[q]
    BY DEF LocalStep, RInv, LocalType
  <2> QED
    BY <2>1, <2>2 DEF OthersKeep, LocalStep, WritesOwn
<1>5. \A q \in Process : ProcessInv(q)'
  BY <1>4, OthersStable
<1>6. AttemptsAreDistinct'
  <2>1. ASSUME NEW q \in Process \ {p}, task'[p].work # NULL, task'[q].work # NULL,
               task'[p].work = task'[q].work, task'[p].number = task'[q].number
        PROVE  FALSE
    <3>1. task'[q] = task[q]
      BY <1>4 DEF OthersKeep
    <3>2. CASE task'[p] = NoTask
      BY <2>1, <3>2 DEF NoTask
    <3>3. CASE task'[p].work = task[p].work /\ task'[p].number = task[p].number
      BY <2>1, <3>1, <3>3 DEF RInv, AttemptsAreDistinct
    <3>4. CASE /\ task'[p].work \in Work /\ task'[p].number \in Number
               /\ attempt[task'[p].work][task'[p].number].status = "absent"
      <4>1. task[q] # NoTask
        BY <2>1, <3>1 DEF NoTask
      <4>2. TaskInv(q)
        BY <4>1 DEF RInv, ProcessInv
      <4> QED
        BY <2>1, <3>1, <3>4, <4>2 DEF TaskInv
    <3> QED
      BY <3>2, <3>3, <3>4 DEF LocalStep, SameOrNew
  <2>2. ASSUME NEW q \in Process \ {p}, NEW r \in Process \ {p}, q # r,
               task'[q].work # NULL, task'[r].work # NULL
        PROVE  task'[q].work # task'[r].work \/ task'[q].number # task'[r].number
    BY <1>4, <2>2 DEF OthersKeep, RInv, AttemptsAreDistinct
  <2> QED
    BY <2>1, <2>2 DEF AttemptsAreDistinct
<1>7. AttemptScoped => ArtifactsAreOwn'
  BY OwnStays DEF ArtifactsAreOwn, LocalStep
<1> QED
  BY <1>1, <1>3, <1>5, <1>6, <1>7 DEF RInv

-----------------------------------------------------------------------------
(* The steps outside run_once: starting, creating, publishing, the reads at *)
(* the end of drain, and crashing.                                          *)

\* Steps after which the process has no attempt in hand.
LEMMA HandsFree ==
  ASSUME RInv, [Next]_vars, NEW p \in Process, NEW l \in Label, LocalStep(p, l),
         UNCHANGED handoff, task'[p] = NoTask, l \notin Busy,
         l \in {"create", "publish"} => drain'[p].agents \in {Agent, {}},
         l = "claim" => drain'[p].agents \in Handlers
  PROVE  RInv'
<1>1. pc'[p] = l
  BY DEF LocalStep, Goto, RInv, LocalType
<1>2. ProcessInv(p)'
  BY <1>1 DEF ProcessInv, Busy
<1> QED
  BY <1>2, ProcessStep

LEMMA StartStep ==
  ASSUME RInv, NEW p \in Process, Start(p)
  PROVE  [Next]_vars /\ RInv'
<1>1. PICK A \in {Agent, {}} \cup Selections :
        /\ pc[p] = "off"
        /\ drain' = [drain EXCEPT ![p].agents = A]
        /\ UNCHANGED <<vars, task, disk, crashes>>
        /\ \/ A \in {Agent, {}} /\ (Goto(p, "create") \/ Goto(p, "publish"))
           \/ A \in Handlers /\ Goto(p, "claim")
  <2>1. CASE \E A \in {Agent, {}} : StartLane(p, A)
    BY <2>1, RuntimeAssumption DEF StartLane, Keep
  <2>2. CASE \E A \in Selections : StartWork(p, A)
    BY <2>2, RuntimeAssumption DEF StartWork, Keep
  <2> QED
    BY <2>1, <2>2 DEF Start
<1>2. task[p] = NoTask
  BY <1>1 DEF RInv, ProcessInv, Busy
<1>3. A \in SUBSET Agent
  BY RuntimeAssumption, RoutingAssumption
<1>4. /\ drain'[p] \in DrainRow
      /\ drain'[p].agents = A
      /\ drain' = [drain EXCEPT ![p] = drain'[p]]
  BY <1>1, <1>3 DEF RInv, LocalType, DrainRow
<1>5. /\ WritesOwn /\ SameOrNew(p)
      /\ task' = [task EXCEPT ![p] = task'[p]]
      /\ crashes' \in 0..MaxCrashes
      /\ task'[p] = NoTask
  BY <1>1, <1>2 DEF WritesOwn, SameOrNew, RInv, LocalType
<1>6. ASSUME NEW l \in {"create", "publish", "claim"}, Goto(p, l)
      PROVE  l \in Label /\ l \notin Busy /\ LocalStep(p, l)
  BY <1>4, <1>5, <1>6 DEF Label, Busy, LocalStep
<1>7. UNCHANGED vars /\ UNCHANGED handoff
  BY <1>1 DEF vars
<1>8. [Next]_vars
  BY <1>7
<1>9. RInv'
  <2>1. CASE A \in {Agent, {}} /\ Goto(p, "create")
    BY <1>4, <1>5, <1>6, <1>7, <1>8, <2>1, HandsFree
  <2>2. CASE A \in {Agent, {}} /\ Goto(p, "publish")
    BY <1>4, <1>5, <1>6, <1>7, <1>8, <2>2, HandsFree
  <2>3. CASE A \in Handlers /\ Goto(p, "claim")
    BY <1>4, <1>5, <1>6, <1>7, <1>8, <2>3, HandsFree
  <2> QED
    BY <1>1, <2>1, <2>2, <2>3
<1> QED
  BY <1>8, <1>9

\* The process ends, by itself or by a crash.
LEMMA StopStep ==
  ASSUME RInv, [Next]_vars, NEW p \in Process, Stop(p), UNCHANGED <<handoff, disk>>,
         crashes' \in 0..MaxCrashes
  PROVE  RInv'
<1>1. task'[p] = NoTask /\ drain'[p] = Idle
  BY DEF Stop, RInv, LocalType
<1>2. Idle \in DrainRow
  BY RuntimeAssumption DEF Idle, DrainRow
<1>3. LocalStep(p, "off") /\ "off" \in Label /\ "off" \notin Busy
  BY <1>1, <1>2 DEF Stop, LocalStep, WritesOwn, SameOrNew, Label, Busy
<1> QED
  BY <1>1, <1>3, HandsFree

LEMMA CrashStep ==
  ASSUME RInv, NEW p \in Process, Crash(p)
  PROVE  [Next]_vars /\ RInv'
<1>1. [Next]_vars /\ UNCHANGED <<handoff, disk>>
  BY DEF Crash, vars
<1>2. crashes' \in 0..MaxCrashes
  BY RuntimeAssumption DEF Crash, RInv, LocalType
<1> QED
  BY <1>1, <1>2, StopStep DEF Crash

LEMMA CreateStepOk ==
  ASSUME RInv, NEW p \in Process, CreateStep(p)
  PROVE  [Next]_vars /\ RInv'
<1>1. /\ UNCHANGED <<disk, crashes>>
      /\ crashes' \in 0..MaxCrashes
      /\ drain[p].agents \in {Agent, {}}
      /\ task[p] = NoTask
  BY DEF CreateStep, Keep, RInv, LocalType, ProcessInv, Busy
<1>2. CASE /\ CreateRun(TheRun)
           /\ Goto(p, "publish")
           /\ UNCHANGED <<task, drain>>
  <2>1. [Next]_vars /\ UNCHANGED handoff
    BY <1>2, RuntimeAssumption, RoutingAssumption DEF Next, CreateRun
  <2>2. LocalStep(p, "publish") /\ "publish" \in Label /\ "publish" \notin Busy
    BY <1>1, <1>2
    DEF LocalStep, WritesOwn, SameOrNew, Label, Busy, RInv, LocalType
  <2> QED
    BY <1>1, <1>2, <2>1, <2>2, HandsFree
<1>3. CASE Stop(p) /\ UNCHANGED vars
  BY <1>1, <1>3, StopStep DEF vars
<1> QED
  BY <1>2, <1>3 DEF CreateStep

LEMMA PublishStepOk ==
  ASSUME RInv, NEW p \in Process, PublishStep(p)
  PROVE  [Next]_vars /\ RInv'
<1>1. /\ UNCHANGED <<disk, crashes>>
      /\ crashes' \in 0..MaxCrashes
      /\ drain[p].agents \in {Agent, {}}
      /\ task[p] = NoTask
  BY DEF PublishStep, Keep, RInv, LocalType, ProcessInv, Busy
<1>2. [Next]_vars /\ UNCHANGED handoff
  BY RuntimeAssumption DEF PublishStep, PublishEvent, Next
<1>3. CASE Stop(p)
  BY <1>1, <1>2, <1>3, StopStep
<1>4. CASE /\ drain[p].agents # {}
           /\ Goto(p, "claim")
           /\ UNCHANGED <<task, drain>>
  <2>1. LocalStep(p, "claim") /\ "claim" \in Label /\ "claim" \notin Busy
    BY <1>1, <1>4
    DEF LocalStep, WritesOwn, SameOrNew, Label, Busy, RInv, LocalType
  <2> QED
    BY <1>1, <1>2, <1>4, <2>1, HandsFree, RuntimeAssumption
<1> QED
  BY <1>3, <1>4 DEF PublishStep

\* The steps that only read the store, or give up on it.
LEMMA ReadStepOk ==
  ASSUME RInv, NEW p \in Process,
         \/ ReadPending(p) \/ ReadHandoffs(p) \/ ReadSummary(p)
         \/ ReadArtifacts(p) \/ Exhausted(p)
  PROVE  [Next]_vars /\ RInv'
<1>1. /\ task[p] = NoTask
      /\ UNCHANGED <<vars, task, disk, crashes>>
  BY DEF ReadPending, ReadHandoffs, ReadSummary, ReadArtifacts, Exhausted, Read,
         Keep, RInv, ProcessInv, Busy
<1>2. PICK l \in {"pending", "handoffs", "summary", "verify", "write"} : Goto(p, l)
  BY DEF ReadPending, ReadHandoffs, ReadSummary, ReadArtifacts, Exhausted, Read
<1>3. /\ drain'[p] \in DrainRow
      /\ drain' = [drain EXCEPT ![p] = drain'[p]]
  <2>1. drain \in [Process -> DrainRow]
    BY DEF RInv, LocalType
  <2>2. CASE ReadPending(p)
    BY <2>1, <2>2 DEF ReadPending, Read, DrainRow, Pending
  <2>3. CASE ReadHandoffs(p)
    <3>1. Statuses \in SUBSET ResultStatus
      BY DEF Statuses, RInv, IInv, TypeOK, HandoffRow
    <3> QED
      BY <2>1, <2>3, <3>1 DEF ReadHandoffs, Read, DrainRow
  <2>4. CASE ReadSummary(p)
    BY <2>1, <2>4 DEF ReadSummary, Read, DrainRow, DeadLetters
  <2>5. CASE ReadArtifacts(p)
    BY <2>1, <2>5 DEF ReadArtifacts, Read, DrainRow, Intact
  <2>6. CASE Exhausted(p)
    BY <2>1, <2>6 DEF Exhausted
  <2> QED
    BY <2>2, <2>3, <2>4, <2>5, <2>6
<1>4. LocalStep(p, l) /\ l \in Label /\ l \notin Busy
  BY <1>1, <1>2, <1>3
  DEF LocalStep, WritesOwn, SameOrNew, Label, Busy, RInv, LocalType
<1>5. [Next]_vars /\ UNCHANGED handoff
  BY <1>1 DEF vars
<1> QED
  BY <1>1, <1>4, <1>5, HandsFree

LEMMA WriteStatusOk ==
  ASSUME RInv, NEW p \in Process, WriteStatus(p)
  PROVE  [Next]_vars /\ RInv'
<1>1. Verdict(drain[p]) \in FinalStatus
  <2>1. drain[p].statuses \subseteq ResultStatus
    BY DEF RInv, LocalType, DrainRow
  <2> QED
    BY <2>1 DEF Verdict, FinalStatus
<1>2. TheRun \in Run
  BY RuntimeAssumption
<1>3. [Next]_vars /\ UNCHANGED handoff
  BY <1>1, <1>2 DEF WriteStatus, Next, SetRunStatus
<1>4. Stop(p) /\ UNCHANGED disk /\ crashes' \in 0..MaxCrashes
  BY DEF WriteStatus, Keep, RInv, LocalType
<1> QED
  BY <1>3, <1>4, StopStep

-----------------------------------------------------------------------------
(* The steps of run_once.                                                   *)

LEMMA ClaimStepOk ==
  ASSUME RInv, NEW p \in Process, ClaimStep(p)
  PROVE  [Next]_vars /\ RInv'
<1> DEFINE A == drain[p].agents
<1>1. /\ A \in Handlers
      /\ task[p] = NoTask
      /\ drain[p] \in DrainRow
      /\ UNCHANGED <<disk, crashes>>
  BY DEF ClaimStep, Keep, RInv, LocalType, ProcessInv, Busy
<1>2. WorkerOf[p] \in Worker /\ TheRun \in Run
  BY RuntimeAssumption
<1>3. PICK now \in Instants(p) :
        \/ /\ Recover(TheRun, A, now)
           /\ Goto(p, "pending")
           /\ UNCHANGED <<task, drain>>
        \/ \E w \in Work :
             /\ ClaimWork(w, WorkerOf[p], TheRun, A, now)
             /\ Goto(p, "handle")
             /\ task' = [task EXCEPT ![p] =
                  [work |-> w, number |-> work'[w].current]]
             /\ drain' = [drain EXCEPT ![p].items = @ + 1]
  BY DEF ClaimStep
<1>4. clock \in Nat /\ now \in 0..clock
  BY BoundsAssumption DEF Instants, RInv, IInv, TypeOK, LocalType
<1>5. CASE /\ Recover(TheRun, A, now)
           /\ Goto(p, "pending")
           /\ UNCHANGED <<task, drain>>
  <2>1. [Next]_vars /\ UNCHANGED handoff
    <3>1. Claim(WorkerOf[p])
      BY <1>1, <1>2, <1>4, <1>5 DEF Claim
    <3> QED
      BY <1>2, <1>5, <3>1 DEF Next, Recover
  <2>2. LocalStep(p, "pending") /\ "pending" \in Label /\ "pending" \notin Busy
    BY <1>1, <1>5 DEF LocalStep, WritesOwn, SameOrNew, Label, Busy, RInv, LocalType
  <2> QED
    BY <1>1, <1>5, <2>1, <2>2, HandsFree
<1>6. ASSUME NEW w \in Work,
             ClaimWork(w, WorkerOf[p], TheRun, A, now),
             Goto(p, "handle"),
             task' = [task EXCEPT ![p] = [work |-> w, number |-> work'[w].current]],
             drain' = [drain EXCEPT ![p].items = @ + 1]
      PROVE  [Next]_vars /\ RInv'
  <2> DEFINE n == work'[w].current
  <2>1. Claim(WorkerOf[p])
    BY <1>1, <1>2, <1>4, <1>6 DEF Claim
  <2>2. [Next]_vars /\ UNCHANGED handoff /\ UNCHANGED clock
    BY <1>2, <1>6, <2>1 DEF Next, ClaimWork
  <2>3. /\ n \in Number
        /\ attempt[w][n].status = "absent"
        /\ attempt'[w][n] =
             [worker |-> WorkerOf[p], status |-> "running", started |-> now]
    BY <1>1, <1>2, <1>4, <1>6, ClaimGives DEF RInv
  <2> HIDE DEF n
  <2>4. task'[p] = [work |-> w, number |-> n]
    BY <1>6 DEF RInv, LocalType, n
  <2>5. /\ drain'[p] \in DrainRow
        /\ drain'[p].agents = A
        /\ drain' = [drain EXCEPT ![p] = drain'[p]]
    <3>1. drain[p].items + 1 \in 0..MaxItems
      BY <1>1, RuntimeAssumption DEF ClaimStep, MoreItems, DrainRow
    <3> QED
      BY <1>1, <1>6, <3>1 DEF RInv, LocalType, DrainRow
  <2>6. LocalStep(p, "handle") /\ "handle" \in Label
    BY <1>1, <1>6, <2>3, <2>4, <2>5
    DEF LocalStep, WritesOwn, SameOrNew, Label, RInv, LocalType
  <2>7. pc'[p] = "handle"
    BY <1>6 DEF Goto, RInv, LocalType
  <2>8. TaskInv(p)'
    BY <1>4, <2>2, <2>3, <2>4, <2>7 DEF TaskInv, Built
  <2>9. ProcessInv(p)'
    BY <1>1, <2>5, <2>7, <2>8 DEF ProcessInv, Busy
  <2> QED
    BY <2>2, <2>6, <2>9, ProcessStep
<1> QED
  BY <1>3, <1>5, <1>6

\* Giving up on an attempt: what the process knows of it is enough for fail_work.
LEMMA GivesUp ==
  ASSUME RInv, NEW p \in Process, pc[p] \in Busy, Goto(p, "fail"),
         UNCHANGED <<vars, task, drain, crashes>>, WritesOwn
  PROVE  [Next]_vars /\ RInv'
<1>1. [Next]_vars /\ UNCHANGED <<attempt, clock, handoff>>
  BY DEF vars
<1>2. pc'[p] = "fail" /\ since'[p] = clock
  BY DEF Goto, Timed, RInv, LocalType
<1>3. TaskInv(p) /\ drain[p].agents \in Handlers /\ drain[p] \in DrainRow
  BY DEF RInv, ProcessInv, LocalType
<1>4. TaskInv(p)'
  BY <1>1, <1>2, <1>3 DEF TaskInv, Built
<1>5. ProcessInv(p)'
  BY <1>2, <1>3, <1>4 DEF ProcessInv, Busy
<1>6. LocalStep(p, "fail") /\ "fail" \in Label
  BY <1>3 DEF LocalStep, SameOrNew, Label, RInv, LocalType
<1> QED
  BY <1>1, <1>5, <1>6, ProcessStep

LEMMA HandleOk ==
  ASSUME RInv, NEW p \in Process, Handle(p)
  PROVE  [Next]_vars /\ RInv'
<1> DEFINE t == task[p]
<1>1. /\ pc[p] = "handle"
      /\ disk' = [disk EXCEPT ![t.work][Slot(t.number)] = t.number]
      /\ UNCHANGED <<vars, drain, crashes>>
  BY DEF Handle
<1>2. TaskInv(p) /\ drain[p].agents \in Handlers /\ drain[p] \in DrainRow
  BY <1>1 DEF RInv, ProcessInv, LocalType, Busy
<1>3. t.work \in Work /\ t.number \in Number
  BY <1>2 DEF TaskInv
<1>4. WritesOwn
  BY <1>1, <1>3 DEF WritesOwn
<1>5. CASE Goto(p, "fail") /\ UNCHANGED task
  BY <1>1, <1>4, <1>5, GivesUp DEF Busy
<1>6. ASSUME NEW s \in ResultStatus, NEW outs \in RunOutputs(t.work),
             task' = [task EXCEPT ![p] =
               [work |-> t.work, number |-> t.number, status |-> s, outs |-> outs]],
             Goto(p, "hash")
      PROVE  [Next]_vars /\ RInv'
  <2>1. task'[p] =
          [work |-> t.work, number |-> t.number, status |-> s, outs |-> outs]
    BY <1>6 DEF RInv, LocalType
  <2>2. [Next]_vars /\ UNCHANGED <<attempt, clock, handoff>>
    BY <1>1 DEF vars
  <2>3. pc'[p] = "hash"
    BY <1>6 DEF Goto, RInv, LocalType
  <2>4. LocalStep(p, "hash") /\ "hash" \in Label
    BY <1>1, <1>2, <1>4, <1>6, <2>1
    DEF LocalStep, SameOrNew, Label, RInv, LocalType
  <2>5. /\ disk'[t.work][Slot(t.number)] = t.number
        /\ AttemptScoped => Slot(t.number) = t.number
    BY <1>1, <1>3, SlotType DEF RInv, LocalType, Slot
  <2>6. TaskInv(p)'
    BY <1>2, <1>3, <1>6, <2>1, <2>2, <2>3, <2>5
    DEF TaskInv, Built, RunOutputs, Slot
  <2>7. ProcessInv(p)'
    BY <1>1, <1>2, <2>3, <2>6 DEF ProcessInv, Busy
  <2> QED
    BY <2>2, <2>4, <2>7, ProcessStep
<1> QED
  BY <1>5, <1>6 DEF Handle

LEMMA HashOk ==
  ASSUME RInv, NEW p \in Process, Hash(p)
  PROVE  [Next]_vars /\ RInv'
<1> DEFINE t == task[p]
<1>1. /\ pc[p] = "hash"
      /\ UNCHANGED <<vars, drain, disk, crashes>>
  BY DEF Hash, Keep
<1>2. TaskInv(p) /\ drain[p].agents \in Handlers /\ drain[p] \in DrainRow
  BY <1>1 DEF RInv, ProcessInv, LocalType, Busy
<1>3. CASE Goto(p, "fail") /\ UNCHANGED task
  BY <1>1, <1>3, GivesUp DEF Busy, WritesOwn
<1>4. CASE /\ Goto(p, "complete")
           /\ task' = [task EXCEPT ![p] =
                [work |-> t.work, number |-> t.number, status |-> t.status,
                 outs |-> t.outs, digest |-> disk[t.work][Slot(t.number)]]]
  <2>1. task'[p] =
          [work |-> t.work, number |-> t.number, status |-> t.status,
           outs |-> t.outs, digest |-> disk[t.work][Slot(t.number)]]
    BY <1>4 DEF RInv, LocalType
  <2>2. [Next]_vars /\ UNCHANGED <<attempt, clock, handoff>>
    BY <1>1 DEF vars
  <2>3. pc'[p] = "complete" /\ since'[p] = clock
    BY <1>4 DEF Goto, Timed, RInv, LocalType
  <2>4. LocalStep(p, "complete") /\ "complete" \in Label
    BY <1>1, <1>2, <1>4, <2>1
    DEF LocalStep, WritesOwn, SameOrNew, Label, RInv, LocalType
  <2>5. TaskInv(p)'
    BY <1>1, <1>2, <2>1, <2>2, <2>3 DEF TaskInv, Built, RunOutputs, Slot
  <2>6. ProcessInv(p)'
    BY <1>1, <1>2, <2>3, <2>5 DEF ProcessInv, Busy
  <2> QED
    BY <2>2, <2>4, <2>6, ProcessStep
<1> QED
  BY <1>3, <1>4 DEF Hash

\* The instant a reporting process works with lies after its claim, and the
\* worker it reports as is the one that claimed.
LEMMA ReportIs ==
  ASSUME RInv, NEW p \in Process, pc[p] \in {"complete", "fail"},
         NEW now \in Instants(p)
  PROVE  LET w == task[p].work
             n == task[p].number
         IN  /\ w \in Work /\ n \in Number
             /\ attempt[w][n].status # "absent"
             /\ attempt[w][n].worker = WorkerOf[p]
             /\ now \in attempt[w][n].started..clock
<1> DEFINE w == task[p].work
<1> DEFINE n == task[p].number
<1>1. TaskInv(p)
  BY DEF RInv, ProcessInv, Busy
<1>2. w \in Work /\ n \in Number
  BY <1>1 DEF TaskInv
<1>3. attempt[w][n].started \in Nat /\ since[p] \in Nat /\ clock \in Nat
  BY <1>2, BoundsAssumption DEF RInv, IInv, TypeOK, AttemptRow, LocalType
<1> QED
  BY <1>1, <1>2, <1>3 DEF TaskInv, Instants

LEMMA CompleteStepOk ==
  ASSUME RInv, NEW p \in Process, CompleteStep(p)
  PROVE  [Next]_vars /\ RInv'
<1> DEFINE t == task[p]
<1>1. pc[p] = "complete" /\ UNCHANGED <<drain, disk, crashes>>
  BY DEF CompleteStep, Keep
<1>2. TaskInv(p) /\ drain[p].agents \in Handlers /\ drain[p] \in DrainRow
  BY <1>1 DEF RInv, ProcessInv, LocalType, Busy
<1>3. CASE Goto(p, "fail") /\ UNCHANGED <<vars, task>>
  BY <1>1, <1>3, GivesUp DEF Busy, WritesOwn
<1>4. ASSUME NEW now \in Instants(p),
             CompleteWork(t.work, t.number, WorkerOf[p], now, t.status, t.outs,
                          t.digest),
             Goto(p, "claim"), task' = [task EXCEPT ![p] = NoTask]
      PROVE  [Next]_vars /\ RInv'
  <2>1. /\ t.work \in Work /\ t.number \in Number
        /\ t.status \in ResultStatus /\ t.outs \in RunOutputs(t.work)
        /\ t.digest \in Digest
        /\ AttemptScoped =>
             t.digest = t.number /\ disk[t.work][t.number] = t.number
    BY <1>1, <1>2, RuntimeAssumption DEF TaskInv, Built
  <2>2. Report(t.work, t.number)
    BY <1>1, <1>4, <2>1, ReportIs DEF Report
  <2>3. [Next]_vars
    BY <2>1, <2>2 DEF Next
  <2>4. handoff' = [handoff EXCEPT ![t.work] =
          [attempt |-> t.number, status |-> t.status, outputs |-> DOMAIN t.outs,
           artifacts |-> t.digest]]
    BY <1>4 DEF CompleteWork
  <2>5. ASSUME AttemptScoped, NEW w \in Work, handoff'[w] # handoff[w]
        PROVE  /\ handoff'[w].artifacts = handoff'[w].attempt
               /\ disk'[w][Slot(handoff'[w].attempt)] = handoff'[w].artifacts
    <3>1. w = t.work /\ handoff'[w].attempt = t.number
            /\ handoff'[w].artifacts = t.digest
      BY <2>1, <2>4, <2>5 DEF RInv, IInv, TypeOK
    <3> QED
      BY <1>1, <2>1, <2>5, <3>1 DEF Slot
  <2>6. pc'[p] = "claim" /\ task'[p] = NoTask
    BY <1>4 DEF Goto, RInv, LocalType
  <2>7. LocalStep(p, "claim") /\ "claim" \in Label
    BY <1>1, <1>2, <1>4, <2>6
    DEF LocalStep, WritesOwn, SameOrNew, Label, RInv, LocalType
  <2>8. ProcessInv(p)'
    BY <1>1, <1>2, <2>6 DEF ProcessInv, Busy
  <2> QED
    BY <2>3, <2>5, <2>7, <2>8, ProcessStep
<1> QED
  BY <1>3, <1>4 DEF CompleteStep

LEMMA FailStepOk ==
  ASSUME RInv, NEW p \in Process, FailStep(p)
  PROVE  [Next]_vars /\ RInv'
<1> DEFINE t == task[p]
<1>1. /\ pc[p] = "fail"
      /\ UNCHANGED <<drain, disk, crashes>>
      /\ Goto(p, "claim")
      /\ task' = [task EXCEPT ![p] = NoTask]
  BY DEF FailStep, Keep
<1>2. drain[p].agents \in Handlers /\ drain[p] \in DrainRow
  BY <1>1 DEF RInv, ProcessInv, LocalType, Busy
<1>3. [Next]_vars /\ UNCHANGED handoff
  <2>1. CASE UNCHANGED vars
    BY <2>1 DEF vars
  <2>2. ASSUME NEW now \in Instants(p), FailWork(t.work, t.number, WorkerOf[p], now)
        PROVE  [Next]_vars /\ UNCHANGED handoff
    <3>1. Report(t.work, t.number) /\ t.work \in Work /\ t.number \in Number
      BY <1>1, <2>2, ReportIs DEF Report
    <3> QED
      BY <2>2, <3>1 DEF Next, FailWork
  <2> QED
    BY <2>1, <2>2 DEF FailStep
<1>4. pc'[p] = "claim" /\ task'[p] = NoTask
  BY <1>1 DEF Goto, RInv, LocalType
<1>5. LocalStep(p, "claim") /\ "claim" \in Label /\ "claim" \notin Busy
  BY <1>1, <1>2, <1>4
  DEF LocalStep, WritesOwn, SameOrNew, Label, Busy, RInv, LocalType
<1> QED
  BY <1>1, <1>2, <1>3, <1>4, <1>5, HandsFree

-----------------------------------------------------------------------------
(* All steps together.                                                      *)

LEMMA ClockOk ==
  ASSUME RInv, Clock
  PROVE  [Next]_vars /\ RInv'
<1>1. Tick /\ UNCHANGED <<pc, since, task, drain, disk, crashes>>
  BY DEF Clock, local
<1>2. [Next]_vars
  BY <1>1 DEF Next
<1>3. IInv'
  BY <1>2, NextIInv DEF RInv
<1>4. clock \in Nat /\ clock' \in Nat /\ clock <= clock'
  BY <1>2, ClockRises DEF RInv
<1>5. LocalType'
  BY <1>1, <1>4 DEF RInv, LocalType
<1>6. ASSUME NEW p \in Process PROVE ProcessInv(p)'
  <2>1. ProcessInv(p) /\ UNCHANGED attempt
    BY <1>1 DEF RInv, Tick
  <2>2. ASSUME TaskInv(p) PROVE TaskInv(p)'
    <3>1. attempt[task[p].work][task[p].number].started \in Nat
      BY <2>2, BoundsAssumption DEF TaskInv, RInv, IInv, TypeOK, AttemptRow
    <3> QED
      BY <1>1, <1>4, <2>1, <2>2, <3>1 DEF TaskInv, RunOutputs, Slot
  <2> QED
    BY <1>1, <2>1, <2>2 DEF ProcessInv
<1>7. AttemptsAreDistinct'
  BY <1>1 DEF RInv, AttemptsAreDistinct
<1>8. AttemptScoped => ArtifactsAreOwn'
  BY <1>1 DEF RInv, ArtifactsAreOwn, Tick, Slot
<1> QED
  BY <1>2, <1>3, <1>5, <1>6, <1>7, <1>8 DEF RInv

LEMMA RuntimeStepOk ==
  RInv /\ [RuntimeNext]_runtimeVars => [Next]_vars /\ RInv'
<1> SUFFICES ASSUME RInv, [RuntimeNext]_runtimeVars PROVE [Next]_vars /\ RInv'
  OBVIOUS
<1>1. CASE UNCHANGED runtimeVars
  <2>1. UNCHANGED <<clock, runStatus, event, work, attempt, handoff, pc, since,
                    task, drain, disk, crashes>>
    BY <1>1 DEF runtimeVars, local, vars
  <2>2. [Next]_vars
    BY <2>1 DEF vars
  <2>3. IInv'
    BY <2>2, NextIInv DEF RInv
  <2>4. LocalType' /\ AttemptsAreDistinct'
    BY <2>1 DEF RInv, LocalType, AttemptsAreDistinct
  <2>5. (AttemptScoped => ArtifactsAreOwn)'
    BY <2>1 DEF RInv, ArtifactsAreOwn, Slot
  <2>6. (\A p \in Process : ProcessInv(p))'
    BY <2>1 DEF RInv, ProcessInv, TaskInv, RunOutputs, Slot
  <2> QED
    BY <2>2, <2>3, <2>4, <2>5, <2>6 DEF RInv
<1>2. CASE Clock
  BY <1>2, ClockOk
<1>3. ASSUME NEW p \in Process, Start(p) \/ Step(p) \/ Crash(p)
      PROVE  [Next]_vars /\ RInv'
  <2>1. CASE Start(p)
    BY <2>1, StartStep
  <2>2. CASE Crash(p)
    BY <2>2, CrashStep
  <2>3. CASE CreateStep(p)
    BY <2>3, CreateStepOk
  <2>4. CASE PublishStep(p)
    BY <2>4, PublishStepOk
  <2>5. CASE ClaimStep(p)
    BY <2>5, ClaimStepOk
  <2>6. CASE Handle(p)
    BY <2>6, HandleOk
  <2>7. CASE Hash(p)
    BY <2>7, HashOk
  <2>8. CASE CompleteStep(p)
    BY <2>8, CompleteStepOk
  <2>9. CASE FailStep(p)
    BY <2>9, FailStepOk
  <2>10. CASE \/ ReadPending(p) \/ ReadHandoffs(p) \/ ReadSummary(p)
              \/ ReadArtifacts(p) \/ Exhausted(p)
    BY <2>10, ReadStepOk
  <2>11. CASE WriteStatus(p)
    BY <2>11, WriteStatusOk
  <2> QED
    BY <1>3, <2>1, <2>2, <2>3, <2>4, <2>5, <2>6, <2>7, <2>8, <2>9, <2>10, <2>11
    DEF Step
<1> QED
  BY <1>1, <1>2, <1>3 DEF RuntimeNext

LEMMA InitRInv == RuntimeInit => RInv /\ Init
<1> SUFFICES ASSUME RuntimeInit PROVE RInv
  BY DEF RuntimeInit
<1> USE DEF RuntimeInit
<1>1. IInv
  BY InitIInv
<1>2. LocalType
  <2>1. clock = 0
    BY DEF Init
  <2>2. since \in [Process -> 0..clock]
    BY <2>1
  <2>3. Idle \in DrainRow
    BY RuntimeAssumption DEF Idle, DrainRow
  <2> QED
    BY <2>2, <2>3, RuntimeAssumption DEF LocalType, Label
<1>3. \A p \in Process : ProcessInv(p)
  BY DEF ProcessInv, Busy
<1>4. AttemptsAreDistinct
  BY DEF AttemptsAreDistinct, NoTask
<1>5. ArtifactsAreOwn
  BY DEF ArtifactsAreOwn, Init
<1> QED
  BY <1>1, <1>2, <1>3, <1>4, <1>5 DEF RInv

\* The invariant of the processes holds throughout.
THEOREM RuntimeInvariant == RuntimeSpec => []RInv
<1> QED
  BY InitRInv, RuntimeStepOk, PTL DEF RuntimeSpec

\* Every execution of the processes is an execution of the store with its free
\* clients, so every theorem about the store holds of the processes.
THEOREM RuntimeImplementsStore == RuntimeSpec => ImplementsStore
<1> QED
  BY InitRInv, RuntimeStepOk, RuntimeInvariant, PTL
  DEF RuntimeSpec, Spec, ImplementsStore

\* Two processes never hold the same attempt, even with one worker_id.
THEOREM DistinctAttempts == RuntimeSpec => []AttemptsAreDistinct
<1>1. RInv => AttemptsAreDistinct
  BY DEF RInv
<1> QED
  BY <1>1, RuntimeInvariant, PTL

\* With attempt-scoped artifacts, what a handoff recorded is never overwritten.
THEOREM ArtifactIsolation == RuntimeSpec => [](AttemptScoped => ArtifactsAreOwn)
<1>1. RInv => (AttemptScoped => ArtifactsAreOwn)
  BY DEF RInv
<1> QED
  BY <1>1, RuntimeInvariant, PTL

-----------------------------------------------------------------------------
(* A verdict of success is earned, although the four reads it is taken from *)
(* are four transactions: what each of them saw cannot change any more once *)
(* the first has seen that nothing is pending.                              *)

\* The request is published, and nothing in the run is pending.
Settled ==
  /\ event[Request] # NULL
  /\ \A w \in Work : InRun(w) => work[w].status \notin {"queued", "running"}

AllSucceeded ==
  \A w \in Work : InRun(w) /\ handoff[w] # NULL => handoff[w].status = "succeeded"

Started == {"off", "create", "publish"}
Reading == {"handoffs", "summary", "verify", "write"}

VerdictInv(p) ==
  /\ pc[p] \notin Started => event[Request] # NULL
  /\ pc[p] \in Reading /\ ~drain[p].pending => Settled
  /\ /\ pc[p] \in Reading \ {"handoffs"}
     /\ ~drain[p].pending
     /\ drain[p].statuses \cap {"blocked", "needs_human_review"} = {}
     => AllSucceeded
  /\ pc[p] \in {"verify", "write"} /\ ~drain[p].pending /\ ~drain[p].dead
       => ~DeadLetters

SInv ==
  /\ \A p \in Process : VerdictInv(p)
  /\ runStatus[TheRun] = "succeeded" => Settled /\ AllSucceeded /\ ~DeadLetters

\* Nothing changes for the items of TheRun in a step.
Frozen ==
  /\ event'[Request] = event[Request]
  /\ \A w \in Work : InRun(w) => work'[w] = work[w] /\ handoff'[w] = handoff[w]

\* A settled run stays as it is, whatever its processes and zombies do.
LEMMA SettledIsFrozen ==
  ASSUME RInv, [RuntimeNext]_runtimeVars, Settled
  PROVE  Frozen
<1>1. Request \in Event /\ Request \in External
  BY RuntimeAssumption, RoutingAssumption
<1>2. CASE UNCHANGED <<event, work, handoff>>
  BY <1>2 DEF Frozen
<1>3. ASSUME NEW p \in Process, PublishStep(p) PROVE Frozen
  <2>1. PublishEvent(Request, RequestPayload)
    BY <1>3 DEF PublishStep
  <2>2. RequestPayload \in Payload
    BY RuntimeAssumption
  <2> QED
    BY <1>1, <2>1, <2>2, PublishStepIs DEF RInv, Settled, Frozen
<1>4. ASSUME NEW p \in Process, ClaimStep(p) PROVE Frozen
  <2>1. CASE Claim(WorkerOf[p])
    <3>1. /\ UNCHANGED <<event, handoff>>
          /\ \A v \in Work :
               \/ work'[v] = work[v]
               \/ work[v].status \in {"queued", "running"}
      <4>1. WorkerOf[p] \in Worker
        BY RuntimeAssumption
      <4>2. ASSUME NEW v \in Work
            PROVE  /\ \/ work'[v] = work[v]
                      \/ work[v].status \in {"queued", "running"}
                   /\ UNCHANGED <<event, handoff>>
        BY <2>1, <4>1, ClaimStepIs DEF RInv
      <4>3. UNCHANGED <<event, handoff>>
        BY <2>1 DEF Claim, Recover, ClaimWork
      <4> QED
        BY <4>2, <4>3
    <3> QED
      BY <3>1 DEF Settled, Frozen
  <2>2. drain[p].agents \in Handlers
    BY <1>4 DEF ClaimStep, RInv, ProcessInv
  <2>3. Instants(p) \subseteq 0..clock
    BY BoundsAssumption DEF Instants, RInv, IInv, TypeOK, LocalType
  <2>4. TheRun \in Run
    BY RuntimeAssumption, RoutingAssumption
  <2> QED
    BY <1>4, <2>1, <2>2, <2>3, <2>4 DEF ClaimStep, Claim
<1>5. ASSUME NEW p \in Process, CompleteStep(p) PROVE Frozen
  <2> DEFINE t == task[p]
  <2>1. CASE UNCHANGED vars
    BY <1>2, <2>1 DEF vars
  <2>2. ASSUME NEW now \in Instants(p),
               CompleteWork(t.work, t.number, WorkerOf[p], now, t.status,
                            t.outs, t.digest)
        PROVE  Frozen
    <3>1. TaskInv(p)
      BY <1>5 DEF CompleteStep, RInv, ProcessInv, Busy
    <3>2. /\ t.work \in Work /\ t.number \in Number
          /\ t.status \in ResultStatus /\ t.outs \in RunOutputs(t.work)
          /\ t.digest \in Digest
      BY <1>5, <3>1, RuntimeAssumption DEF TaskInv, Built, CompleteStep
    <3>3. ~InRun(t.work)
      BY <2>2, <3>2 DEF CompleteWork, HoldsLease, Settled
    <3>4. \A e \in DOMAIN t.outs : RunOf[e] # TheRun
      BY <3>2, <3>3 DEF RunOutputs, InRun
    <3>5. Request \notin DOMAIN t.outs
      BY <3>4, RuntimeAssumption
    <3>6. event'[Request] = event[Request]
      BY <1>1, <2>2, <3>5 DEF CompleteWork, Published
    <3>7. ASSUME NEW v \in Work, InRun(v)
          PROVE  work'[v] = work[v] /\ handoff'[v] = handoff[v]
      <4>1. v # t.work /\ v[1] \notin DOMAIN t.outs
        BY <3>3, <3>4, <3>7 DEF InRun
      <4> QED
        BY <2>2, <4>1 DEF CompleteWork, NewWork, RInv, IInv, TypeOK
    <3> QED
      BY <3>6, <3>7 DEF Frozen
  <2> QED
    BY <1>5, <2>1, <2>2 DEF CompleteStep
<1>6. ASSUME NEW p \in Process, FailStep(p) PROVE Frozen
  <2> DEFINE t == task[p]
  <2>1. CASE UNCHANGED vars
    BY <1>2, <2>1 DEF vars
  <2>2. ASSUME NEW now \in Instants(p), FailWork(t.work, t.number, WorkerOf[p], now)
        PROVE  Frozen
    <3>1. t.work \in Work /\ t.number \in Number
      BY <1>6, ReportIs, <2>2 DEF FailStep
    <3>2. /\ work[t.work].status = "running"
          /\ \A v \in Work : v # t.work => work'[v] = work[v]
          /\ UNCHANGED <<event, handoff>>
      BY <2>2, <3>1, FailStepIs DEF RInv
    <3> QED
      BY <3>2 DEF Settled, Frozen
  <2> QED
    BY <1>6, <2>1, <2>2 DEF FailStep
<1>7. ASSUME NEW p \in Process, Start(p) \/ Crash(p) PROVE UNCHANGED vars
  BY <1>7 DEF Start, StartLane, StartWork, Crash
<1>8. ASSUME NEW p \in Process,
             \/ CreateStep(p) \/ Exhausted(p) \/ Handle(p) \/ Hash(p)
             \/ ReadPending(p) \/ ReadHandoffs(p) \/ ReadSummary(p)
             \/ ReadArtifacts(p) \/ WriteStatus(p)
      PROVE  UNCHANGED <<event, work, handoff>>
  BY <1>8
  DEF CreateStep, CreateRun, Exhausted, Handle, Hash, ReadPending, ReadHandoffs,
      ReadSummary, ReadArtifacts, Read, WriteStatus, SetRunStatus, vars
<1>9. CASE Clock \/ UNCHANGED runtimeVars
  BY <1>2, <1>9 DEF Clock, Tick, runtimeVars, vars
<1> QED
  BY <1>2, <1>3, <1>4, <1>5, <1>6, <1>7, <1>8, <1>9 DEF RuntimeNext, Step, vars

LEMMA FrozenKeeps ==
  ASSUME Frozen, Settled
  PROVE  /\ Settled'
         /\ AllSucceeded => AllSucceeded'
         /\ ~DeadLetters => ~DeadLetters'
BY DEF Frozen, Settled, AllSucceeded, DeadLetters, InRun

LEMMA RequestStays ==
  ASSUME RInv, [RuntimeNext]_runtimeVars, event[Request] # NULL
  PROVE  event'[Request] # NULL
<1>1. Request \in Event
  BY RuntimeAssumption, RoutingAssumption
<1> QED
  BY <1>1, RuntimeStepOk, HistoryStep DEF RInv

\* What a drain has concluded stays true while it is not its turn.
LEMMA ConclusionsStay ==
  ASSUME RInv, [RuntimeNext]_runtimeVars, NEW q \in Process, VerdictInv(q),
         pc'[q] = pc[q], drain'[q] = drain[q]
  PROVE  VerdictInv(q)'
<1>1. event[Request] # NULL => event'[Request] # NULL
  BY RequestStays
<1>2. /\ Settled => Settled'
      /\ Settled /\ AllSucceeded => AllSucceeded'
      /\ Settled /\ ~DeadLetters => ~DeadLetters'
  BY SettledIsFrozen, FrozenKeeps
<1>3. pc[q] \in {"verify", "write"} => pc[q] \in Reading
  BY DEF Reading
<1>4. pc[q] \in Reading \ {"handoffs"} => pc[q] \in Reading
  OBVIOUS
<1> QED
  BY <1>1, <1>2, <1>3, <1>4 DEF VerdictInv

\* No step but the end of a drain makes a run succeeded.
LEMMA OnlyVerdictSucceeds ==
  ASSUME RInv, [RuntimeNext]_runtimeVars, runStatus[TheRun] # "succeeded",
         runStatus'[TheRun] = "succeeded"
  PROVE  \E p \in Process : WriteStatus(p)
<1>0. TheRun \in Run /\ runStatus \in [Run -> FinalStatus \cup {"absent"}]
  BY RuntimeAssumption, RoutingAssumption DEF RInv, IInv, TypeOK
<1>1. ASSUME NEW X PROVE FailedRuns(X)[TheRun] \in {"failed", runStatus[TheRun]}
  BY <1>0 DEF FailedRuns
<1>2. ASSUME NEW p \in Process,
             \/ Start(p) \/ Crash(p) \/ PublishStep(p) \/ CompleteStep(p)
             \/ Exhausted(p) \/ Handle(p) \/ Hash(p)
             \/ ReadPending(p) \/ ReadHandoffs(p) \/ ReadSummary(p)
             \/ ReadArtifacts(p)
      PROVE  UNCHANGED runStatus
  BY <1>2
  DEF Start, StartLane, StartWork, Crash, PublishStep, PublishEvent, CompleteStep,
      CompleteWork, Exhausted, Handle, Hash, ReadPending, ReadHandoffs, ReadSummary,
      ReadArtifacts, Read, vars
<1>3. ASSUME NEW p \in Process, CreateStep(p)
      PROVE  runStatus'[TheRun] \in {"running", runStatus[TheRun]}
  BY <1>0, <1>3 DEF CreateStep, CreateRun, vars
<1>4. ASSUME NEW p \in Process, ClaimStep(p) \/ FailStep(p)
      PROVE  runStatus'[TheRun] \in {"failed", runStatus[TheRun]}
  BY <1>1, <1>4 DEF ClaimStep, Recover, ClaimWork, FailStep, FailWork, vars
<1>5. CASE Clock \/ UNCHANGED runtimeVars
  BY <1>5 DEF Clock, Tick, runtimeVars, vars
<1> QED
  BY <1>2, <1>3, <1>4, <1>5 DEF RuntimeNext, Step

\* One step of one process, for what its own drain concludes.
LEMMA VerdictStep ==
  ASSUME RInv, [RuntimeNext]_runtimeVars, NEW p \in Process, VerdictInv(p),
         Start(p) \/ Step(p) \/ Crash(p), Startup = "republish", Selections = {}
  PROVE  VerdictInv(p)'
<1>0. pc \in [Process -> Label] /\ drain \in [Process -> DrainRow]
  BY DEF RInv, LocalType
<1>1. CASE pc'[p] \in Started
  BY <1>1 DEF VerdictInv, Started, Reading
<1>2. CASE /\ pc'[p] \notin Started \cup Reading
           /\ event'[Request] # NULL
  BY <1>2 DEF VerdictInv, Reading
<1>3. CASE Start(p) \/ Crash(p) \/ CreateStep(p) \/ WriteStatus(p)
  <2>1. pc'[p] \in Started
    BY <1>0, <1>3
    DEF Start, StartLane, StartWork, Crash, Stop, CreateStep, WriteStatus, Goto,
        Started
  <2> QED
    BY <1>1, <2>1
<1>4. CASE PublishStep(p)
  <2>1. pc'[p] \in {"off", "claim"}
    BY <1>0, <1>4 DEF PublishStep, Stop, Goto
  <2>2. event'[Request] # NULL
    <3>1. Request \in External /\ RequestPayload \in Payload
      BY RuntimeAssumption
    <3>2. NULL # [payload |-> RequestPayload, producer |-> NULL]
      <4>1. [payload |-> RequestPayload, producer |-> NULL] \in EventRow
        BY <3>1 DEF EventRow
      <4> QED
        BY <4>1, NullAssumption
    <3> QED
      BY <1>4, <3>1, <3>2, PublishStepIs DEF PublishStep, RInv
  <2> QED
    BY <1>1, <1>2, <2>1, <2>2 DEF Started, Reading
<1>5. CASE \/ ClaimStep(p) \/ Exhausted(p) \/ Handle(p) \/ Hash(p)
           \/ CompleteStep(p) \/ FailStep(p)
  <2>1. /\ pc[p] \in {"claim"} \cup Busy
        /\ pc'[p] \in {"claim", "pending"} \cup Busy
    BY <1>0, <1>5
    DEF ClaimStep, Exhausted, Handle, Hash, CompleteStep, FailStep, Goto, Busy
  <2>2. event'[Request] # NULL
    BY <2>1, RequestStays DEF VerdictInv, Started, Busy
  <2> QED
    BY <1>2, <2>1, <2>2 DEF Started, Reading, Busy
<1>6. ASSUME \/ ReadPending(p) \/ ReadHandoffs(p) \/ ReadSummary(p)
             \/ ReadArtifacts(p)
      PROVE  VerdictInv(p)'
  <2>1. /\ UNCHANGED <<event, work, handoff>>
        /\ pc[p] \in {"pending"} \cup Reading
    BY <1>6
    DEF ReadPending, ReadHandoffs, ReadSummary, ReadArtifacts, Read, vars, Reading
  <2>2. event[Request] # NULL
    BY <2>1 DEF VerdictInv, Started, Reading
  <2>3. /\ UNCHANGED Settled
        /\ UNCHANGED AllSucceeded
        /\ UNCHANGED DeadLetters
    BY <2>1 DEF Settled, AllSucceeded, DeadLetters, InRun
  <2>4. CASE ReadPending(p)
    <3>1. pc'[p] = "handoffs" /\ drain'[p].pending = Pending
      BY <1>0, <2>4 DEF ReadPending, Read, Goto, DrainRow
    <3>2. ~Pending => Settled
      BY <2>2 DEF Pending, Settled
    <3> QED
      BY <2>1, <2>2, <2>3, <3>1, <3>2 DEF VerdictInv, Reading
  <2>5. CASE ReadHandoffs(p)
    <3>1. /\ pc[p] = "handoffs" /\ pc'[p] = "summary"
          /\ drain'[p].statuses = Statuses
          /\ drain'[p].pending = drain[p].pending
      BY <1>0, <2>5 DEF ReadHandoffs, Read, Goto, DrainRow
    <3>2. Statuses \cap {"blocked", "needs_human_review"} = {} => AllSucceeded
      BY RoutingAssumption
      DEF Statuses, AllSucceeded, RInv, IInv, TypeOK, HandoffRow
    <3> QED
      BY <2>1, <2>2, <2>3, <3>1, <3>2 DEF VerdictInv, Reading
  <2>6. CASE ReadSummary(p)
    <3>1. /\ pc[p] = "summary" /\ pc'[p] = "verify"
          /\ drain'[p].dead = DeadLetters
          /\ drain'[p].statuses = drain[p].statuses
          /\ drain'[p].pending = drain[p].pending
      BY <1>0, <2>6 DEF ReadSummary, Read, Goto, DrainRow
    <3> QED
      BY <2>1, <2>2, <2>3, <3>1 DEF VerdictInv, Reading
  <2>7. CASE ReadArtifacts(p)
    <3>1. /\ pc[p] = "verify" /\ pc'[p] = "write"
          /\ drain'[p].dead = drain[p].dead
          /\ drain'[p].statuses = drain[p].statuses
          /\ drain'[p].pending = drain[p].pending
      BY <1>0, <2>7 DEF ReadArtifacts, Read, Goto, DrainRow
    <3> QED
      BY <2>1, <2>2, <2>3, <3>1 DEF VerdictInv, Reading
  <2> QED
    BY <1>6, <2>4, <2>5, <2>6, <2>7
<1> QED
  BY <1>3, <1>4, <1>5, <1>6 DEF Step

LEMMA SuccessStep ==
  ASSUME RInv, SInv, [RuntimeNext]_runtimeVars, Startup = "republish", Selections = {}
  PROVE  SInv'
<1>1. ASSUME NEW q \in Process PROVE VerdictInv(q)'
  <2>1. VerdictInv(q)
    BY DEF SInv
  <2>2. CASE Start(q) \/ Step(q) \/ Crash(q)
    BY <2>1, <2>2, VerdictStep
  <2>3. ASSUME NEW p \in Process \ {q}, Start(p) \/ Step(p) \/ Crash(p)
        PROVE  pc'[q] = pc[q] /\ drain'[q] = drain[q]
    BY <2>3
    DEF Start, StartLane, StartWork, Crash, Stop, Step, CreateStep, PublishStep,
        ClaimStep, Exhausted, Handle, Hash, CompleteStep, FailStep, ReadPending,
        ReadHandoffs, ReadSummary, ReadArtifacts, Read, WriteStatus, Goto, RInv,
        LocalType
  <2>4. CASE Clock \/ UNCHANGED runtimeVars
    <3>1. pc'[q] = pc[q] /\ drain'[q] = drain[q]
      BY <2>4 DEF Clock, local, runtimeVars
    <3> QED
      BY <2>1, <3>1, ConclusionsStay
  <2> QED
    BY <2>1, <2>2, <2>3, <2>4, ConclusionsStay DEF RuntimeNext
<1>2. ASSUME runStatus'[TheRun] = "succeeded"
      PROVE  (Settled /\ AllSucceeded /\ ~DeadLetters)'
  <2>1. Settled /\ AllSucceeded /\ ~DeadLetters
    <3>1. CASE runStatus[TheRun] = "succeeded"
      BY <3>1 DEF SInv
    <3>2. CASE runStatus[TheRun] # "succeeded"
      <4>1. PICK p \in Process : WriteStatus(p)
        BY <1>2, <3>2, OnlyVerdictSucceeds
      <4>2. TheRun \in Run /\ runStatus \in [Run -> FinalStatus \cup {"absent"}]
        BY RuntimeAssumption, RoutingAssumption DEF RInv, IInv, TypeOK
      <4>3. Verdict(drain[p]) = "succeeded" /\ pc[p] = "write"
        BY <1>2, <4>1, <4>2 DEF WriteStatus, SetRunStatus
      <4>4. /\ ~drain[p].pending /\ ~drain[p].dead
            /\ drain[p].statuses \cap {"blocked", "needs_human_review"} = {}
        BY <4>3 DEF Verdict
      <4>5. VerdictInv(p)
        BY DEF SInv
      <4> QED
        BY <4>3, <4>4, <4>5 DEF VerdictInv, Reading
    <3> QED
      BY <3>1, <3>2
  <2> QED
    BY <2>1, SettledIsFrozen, FrozenKeeps
<1> QED
  BY <1>1, <1>2 DEF SInv

\* Where every command publishes the request before it drains, a run that is
\* reported succeeded has been worked off completely, and stays so.
THEOREM SuccessIsAlwaysEarned ==
  ASSUME Startup = "republish", Selections = {}
  PROVE  RuntimeSpec => []SuccessIsEarned
<1>1. RuntimeInit => SInv
  <2>1. TheRun \in Run
    BY RuntimeAssumption, RoutingAssumption
  <2> QED
    BY <2>1 DEF RuntimeInit, Init, SInv, VerdictInv, Started, Reading
<1>2. RInv /\ SInv /\ [RuntimeNext]_runtimeVars => SInv'
  BY SuccessStep
<1>3. RInv /\ SInv => SuccessIsEarned
  BY DEF RInv, IInv, TypeOK, WorkRow, WorkStatus, OneWinner, SInv, Settled,
         AllSucceeded, DeadLetters, SuccessIsEarned
<1> QED
  BY <1>1, <1>2, <1>3, RuntimeInvariant, PTL DEF RuntimeSpec
=============================================================================
