-------------------------- MODULE AgentStoreProofs --------------------------
(***************************************************************************)
(* Proofs about AgentStore for every value of its constants: its inductive *)
(* invariant and what follows from it, what a single step may do, and that *)
(* the store implements DurableHandoff.                                    *)
(***************************************************************************)
EXTENDS AgentStore, TLAPS

\* The work item's lease columns follow its attempts: the current attempt of a
\* running item is its latest, and the columns are NULL in every other state.
LeaseColumns ==
  \A w \in Work :
    /\ work[w].status = "running" =>
         work[w].current = work[w].attempts /\ work[w].attempts > 0
    /\ work[w].status # "running" => work[w].current = 0
    /\ work[w].status = "absent" => work[w].attempts = 0

\* The inductive invariant.  TypeOK is not inductive alone: a claim counts an
\* attempt, so the counter stays in its range only because a queued item has
\* an attempt left (RetryBudget), and that in turn needs to know that the
\* running attempt is the latest (LeaseColumns, OneHolder).
IInv ==
  /\ TypeOK
  /\ LeaseColumns
  /\ OneHolder
  /\ OneWinner
  /\ Provenance
  /\ FanOut
  /\ RetryBudget

\* Every state in which the store starts satisfies the invariant.
LEMMA InitIInv == Init => IInv
<1> SUFFICES ASSUME Init PROVE IInv
  OBVIOUS
<1> USE DEF Init
<1>1. TypeOK
  BY RoutingAssumption, BoundsAssumption
  DEF TypeOK, FinalStatus, WorkRow, AbsentWork, WorkStatus, AttemptRow,
      AbsentAttempt, AttemptStatus, Number
<1>2. LeaseColumns
  BY DEF LeaseColumns, AbsentWork
<1>3. OneHolder
  BY DEF OneHolder, AbsentWork, AbsentAttempt
<1>4. OneWinner
  BY DEF OneWinner, AbsentWork, AbsentAttempt
<1>5. Provenance
  BY DEF Provenance
<1>6. FanOut
  BY DEF FanOut, AbsentWork, Work
<1>7. RetryBudget
  BY BoundsAssumption DEF RetryBudget, AbsentWork, AbsentAttempt, Number
<1> QED
  BY <1>1, <1>2, <1>3, <1>4, <1>5, <1>6, <1>7 DEF IInv

\* A clock tick changes no row.
LEMMA TickIInv == IInv /\ Tick => IInv'
<1> SUFFICES ASSUME IInv, Tick PROVE IInv'
  OBVIOUS
<1> USE DEF IInv, Tick
<1>1. TypeOK'
  BY BoundsAssumption DEF TypeOK
<1>2. (LeaseColumns /\ OneHolder /\ OneWinner)'
  BY DEF LeaseColumns, OneHolder, OneWinner
<1>3. (Provenance /\ FanOut /\ RetryBudget)'
  BY DEF Provenance, FanOut, RetryBudget
<1> QED
  BY <1>1, <1>2, <1>3

\* create_run and set_run_status touch the run row alone.
LEMMA RunStatusIInv ==
  ASSUME IInv,
         NEW r \in Run,
         CreateRun(r) \/ \E s \in FinalStatus : SetRunStatus(r, s)
  PROVE  IInv'
<1> USE DEF IInv, CreateRun, SetRunStatus
<1>1. TypeOK'
  BY DEF TypeOK, FinalStatus
<1>2. (LeaseColumns /\ OneHolder /\ OneWinner)'
  BY DEF LeaseColumns, OneHolder, OneWinner
<1>3. (Provenance /\ FanOut /\ RetryBudget)'
  BY DEF Provenance, FanOut, RetryBudget
<1> QED
  BY <1>1, <1>2, <1>3

\* The rows that a publication inserts are well-formed.
LEMMA QueuedWorkType == TypeOK => QueuedWork \in WorkRow
<1>1. AbsentWork \in WorkRow
  BY BoundsAssumption DEF AbsentWork, WorkRow, WorkStatus
<1> QED
  BY <1>1 DEF TypeOK, QueuedWork, WorkRow, WorkStatus

\* The events table stays well-formed under a publication.
LEMMA PublishedType ==
  ASSUME TypeOK, NEW outs, NEW producer \in AttemptId \cup {NULL},
         \A e \in DOMAIN outs : outs[e] \in Payload
  PROVE  Published(outs, producer) \in [Event -> EventRow \cup {NULL}]
BY DEF TypeOK, Published, EventRow

\* publish_event: a repeated publication finds the event and its work in
\* place (FanOut) and inserts nothing.
LEMMA PublishEventIInv ==
  ASSUME IInv, NEW e \in External, NEW payload \in Payload,
         PublishEvent(e, payload)
  PROVE  IInv'
<1> DEFINE outs == [x \in {e} |-> payload]
<1>0. e \in Event
  BY RoutingAssumption
<1>1. /\ ~Collides(outs, NULL)
      /\ event' = Published(outs, NULL)
      /\ work' = [v \in Work |->
           IF v \in NewWork(outs) THEN QueuedWork ELSE work[v]]
      /\ UNCHANGED <<clock, runStatus, attempt, handoff>>
  BY DEF PublishEvent
<1>2. /\ DOMAIN outs = {e}
      /\ outs[e] = payload
  OBVIOUS
<1> HIDE DEF outs
<1>3. TypeOK'
  <2>1. event' \in [Event -> EventRow \cup {NULL}]
    BY <1>1, <1>2, PublishedType DEF IInv
  <2>2. work' \in [Work -> WorkRow]
    BY <1>1, QueuedWorkType DEF IInv, TypeOK
  <2> QED
    BY <1>1, <2>1, <2>2 DEF IInv, TypeOK
<1>4. \A v \in Work :
        \/ work'[v] = work[v]
        \/ /\ work[v].status = "absent"
           /\ work[v].attempts = 0
           /\ v[1] = e
           /\ v[2] \in Routes[e]
           /\ work'[v].status = "queued"
           /\ work'[v].attempts = 0
           /\ work'[v].current = 0
  BY <1>1, <1>2 DEF NewWork, QueuedWork, AbsentWork, IInv, LeaseColumns
<1>5. LeaseColumns'
  BY <1>4 DEF IInv, LeaseColumns
<1>6. OneHolder'
  BY <1>1, <1>4 DEF IInv, OneHolder
<1>7. OneWinner'
  BY <1>1, <1>4 DEF IInv, OneWinner
<1>8. Provenance'
  <2>1. \A x \in Event :
          \/ event'[x] = event[x]
          \/ event[x] = NULL /\ event'[x].producer = NULL
    BY <1>1 DEF Published
  <2>2. \A w \in Work : handoff[w] # NULL => handoff[w].outputs \subseteq Event
    BY DEF IInv, TypeOK, HandoffRow
  <2>3. handoff' = handoff
    BY <1>1
  <2> QED
    BY <2>1, <2>2, <2>3 DEF IInv, Provenance
<1>9. FanOut'
  <2> SUFFICES ASSUME NEW x \in Event, NEW a \in Agent
               PROVE  work'[<<x, a>>].status # "absent"
                        <=> event'[x] # NULL /\ a \in Routes[x]
    BY DEF FanOut
  <2>1. <<x, a>> \in Work
    BY DEF Work
  <2>2. CASE x = e
    <3>1. event'[x] # NULL
      BY <1>0, <1>1, <1>2, <2>2, NullAssumption DEF Published, EventRow
    <3> QED
      BY <1>1, <1>2, <2>1, <2>2, <3>1
      DEF IInv, FanOut, NewWork, QueuedWork, AbsentWork
  <2>3. CASE x # e
    BY <1>1, <1>2, <2>1, <2>3 DEF IInv, FanOut, NewWork, Published
  <2> QED
    BY <2>2, <2>3
<1>10. RetryBudget'
  BY <1>1, <1>4, BoundsAssumption DEF IInv, RetryBudget, Number
<1> QED
  BY <1>3, <1>5, <1>6, <1>7, <1>8, <1>9, <1>10 DEF IInv

\* Clearing the lease columns of a row leaves its other columns alone.
LEMMA UnleasedRow ==
  ASSUME NEW row \in WorkRow
  PROVE  /\ Unleased(row) \in WorkRow
         /\ Unleased(row).attempts = row.attempts
         /\ Unleased(row).current = 0
<1>1. /\ 0 \in 0..MaxAttempts
      /\ 0 \in 0..(MaxClock + LeaseSeconds)
  BY BoundsAssumption
<1>2. DOMAIN row = {"status", "attempts", "owner", "lease", "current",
                    "available", "created"}
  BY DEF WorkRow
<1>3. Unleased(row) \in WorkRow
  BY <1>1 DEF Unleased, WorkRow
<1> QED
  BY <1>2, <1>3 DEF Unleased

\* A recovered row, field by field: what changes is the status, the lease
\* columns and the instant at which it is available again.
LEMMA RecoveredRow ==
  ASSUME IInv, NEW X \in SUBSET Work, NEW now \in 0..clock, NEW v \in Work
  PROVE  LET row == Recovered(X, now)[v]
         IN  /\ row \in WorkRow
             /\ row.attempts = work[v].attempts
             /\ v \notin X => row = work[v]
             /\ v \in X =>
                  /\ row.status = AfterAttempt(work[v])
                  /\ row.current = 0
<1>1. work[v] \in WorkRow
  BY DEF IInv, TypeOK
<1>2. now \in 0..MaxClock
  BY BoundsAssumption DEF IInv, TypeOK
<1>3. CASE v \in X
  <2>1. /\ Unleased(work[v]) \in WorkRow
        /\ Unleased(work[v]).attempts = work[v].attempts
        /\ Unleased(work[v]).current = 0
    BY <1>1, UnleasedRow
  <2>2. AfterAttempt(work[v]) \in WorkStatus
    BY DEF AfterAttempt, WorkStatus
  <2> QED
    BY <1>2, <1>3, <2>1, <2>2 DEF Recovered, WorkRow
<1>4. CASE v \notin X
  BY <1>1, <1>4 DEF Recovered
<1> QED
  BY <1>3, <1>4

\* A forfeited attempt was the running attempt of a recovered item.
LEMMA ForfeitedRow ==
  ASSUME IInv, NEW X \in SUBSET Work, NEW v \in Work, NEW n \in Number,
         \A w \in X : work[w].status = "running"
  PROVE  LET row == Forfeited(X)[v][n]
         IN  /\ row \in AttemptRow
             /\ v \in X /\ n = work[v].current => row.status = "lease_expired"
             /\ ~(v \in X /\ n = work[v].current) => row = attempt[v][n]
<1>1. attempt[v][n] \in AttemptRow
  BY DEF IInv, TypeOK
<1>2. v \in X /\ n = work[v].current => attempt[v][n].status = "running"
  BY DEF IInv, OneHolder
<1>3. Forfeited(X)[v][n] =
        IF v \in X /\ n = work[v].current /\ attempt[v][n].status = "running"
        THEN [attempt[v][n] EXCEPT !.status = "lease_expired"]
        ELSE attempt[v][n]
  BY DEF Forfeited
<1> QED
  BY <1>1, <1>2, <1>3 DEF AttemptRow, AttemptStatus

\* The tables a recovery writes are well-formed.
LEMMA RecoveryType ==
  ASSUME IInv, NEW X \in SUBSET Work, NEW now \in 0..clock,
         \A w \in X : work[w].status = "running"
  PROVE  /\ Recovered(X, now) \in [Work -> WorkRow]
         /\ Forfeited(X) \in [Work -> [Number -> AttemptRow]]
         /\ FailedRuns(X) \in [Run -> FinalStatus \cup {"absent"}]
<1>1. Recovered(X, now) \in [Work -> WorkRow]
  <2>1. \A v \in Work : Recovered(X, now)[v] \in WorkRow
    BY RecoveredRow
  <2> QED
    BY <2>1 DEF Recovered
<1>2. Forfeited(X) \in [Work -> [Number -> AttemptRow]]
  <2>1. \A v \in Work, n \in Number : Forfeited(X)[v][n] \in AttemptRow
    BY ForfeitedRow
  <2> QED
    BY <2>1 DEF Forfeited
<1>3. FailedRuns(X) \in [Run -> FinalStatus \cup {"absent"}]
  BY DEF IInv, TypeOK, FailedRuns, FinalStatus
<1> QED
  BY <1>1, <1>2, <1>3

\* The invariants of one work item, over its row, its attempts and its
\* handoff: what recovery establishes and a claim builds on in one action.
RowInv(row, tries, h) ==
  /\ row.status = "running" => row.current = row.attempts /\ row.attempts > 0
  /\ row.status # "running" => row.current = 0
  /\ row.status = "absent" => row.attempts = 0
  /\ row.status = "succeeded" <=> h # NULL
  /\ row.status = "queued" => row.attempts < MaxAttempts
  /\ row.status = "dead_letter" => row.attempts = MaxAttempts
  /\ \A n \in Number :
       /\ tries[n].status = "running" <=>
            row.status = "running" /\ row.current = n
       /\ tries[n].status = "succeeded" <=> h # NULL /\ h.attempt = n
       /\ tries[n].status # "absent" <=> n <= row.attempts
       /\ row.status = "dead_letter" => tries[n].status \in
            {"retryable_failure", "failed", "lease_expired"}

\* The row invariant of every item is the conjunction of four invariants.
LEMMA RowInvIsInvariant ==
  (\A v \in Work : RowInv(work[v], attempt[v], handoff[v]))
    <=> LeaseColumns /\ OneHolder /\ OneWinner /\ RetryBudget
BY DEF RowInv, LeaseColumns, OneHolder, OneWinner, RetryBudget

\* Recovery keeps the invariants of every item, expired or not.
LEMMA RecoveredRowInv ==
  ASSUME IInv, NEW X \in SUBSET Work, NEW now \in 0..clock,
         \A w \in X : work[w].status = "running", NEW v \in Work
  PROVE  RowInv(Recovered(X, now)[v], Forfeited(X)[v], handoff[v])
<1> DEFINE row == Recovered(X, now)[v]
<1> DEFINE tries == Forfeited(X)[v]
<1>1. RowInv(work[v], attempt[v], handoff[v])
  BY RowInvIsInvariant DEF IInv
<1>2. /\ row.attempts = work[v].attempts
      /\ v \notin X => row = work[v]
      /\ v \in X => row.status = AfterAttempt(work[v]) /\ row.current = 0
  BY RecoveredRow
<1>3. \A n \in Number :
        /\ v \in X /\ n = work[v].current => tries[n].status = "lease_expired"
        /\ ~(v \in X /\ n = work[v].current) => tries[n] = attempt[v][n]
  BY ForfeitedRow
<1>4. \A n \in Number : attempt[v][n].status \in AttemptStatus
  BY DEF IInv, TypeOK, AttemptRow
<1>5. work[v].attempts \in 0..MaxAttempts
  BY DEF IInv, TypeOK, WorkRow
<1> SUFFICES RowInv(row, tries, handoff[v])
  OBVIOUS
<1> HIDE DEF row, tries
<1>6. CASE v \notin X
  BY <1>1, <1>2, <1>3, <1>6 DEF RowInv
<1>7. CASE v \in X
  <2>1. /\ work[v].current = work[v].attempts
        /\ work[v].attempts > 0
        /\ work[v].status = "running"
    BY <1>1, <1>7 DEF RowInv
  <2>2. handoff[v] = NULL
    BY <1>1, <2>1 DEF RowInv
  <2>3. \/ row.status = "queued" /\ row.attempts < MaxAttempts
        \/ row.status = "dead_letter" /\ row.attempts = MaxAttempts
    BY <1>2, <1>5, <1>7, BoundsAssumption DEF AfterAttempt
  <2>4. ASSUME NEW n \in Number
        PROVE  /\ tries[n].status \notin {"running", "succeeded"}
               /\ tries[n].status # "absent" <=> n <= row.attempts
    BY <1>1, <1>2, <1>3, <1>7, <2>1, <2>2 DEF RowInv, Number
  <2>5. ASSUME row.status = "dead_letter", NEW n \in Number
        PROVE  tries[n].status \in
                 {"retryable_failure", "failed", "lease_expired"}
    <3>1. tries[n].status # "absent"
      BY <2>3, <2>4, <2>5, BoundsAssumption DEF Number
    <3>2. tries[n].status \in AttemptStatus
      BY <1>3, <1>4 DEF AttemptStatus
    <3> QED
      BY <2>4, <3>1, <3>2 DEF AttemptStatus
  <2> QED
    BY <1>2, <1>7, <2>2, <2>3, <2>4, <2>5 DEF RowInv
<1> QED
  BY <1>6, <1>7

\* Events are delivered as long as the set of existing work items stands.
LEMMA DeliveredStays ==
  ASSUME IInv, event' = event, handoff' = handoff,
         \A v \in Work : work'[v].status = "absent" <=> work[v].status = "absent"
  PROVE  Provenance' /\ FanOut'
<1>1. Provenance'
  BY DEF IInv, Provenance
<1>2. FanOut'
  BY DEF IInv, FanOut, Work
<1> QED
  BY <1>1, <1>2

\* claim_work that finds nothing to claim still commits the recovery.
LEMMA RecoverIInv ==
  ASSUME IInv, NEW r \in Run, NEW A \in Handlers, NEW now \in 0..clock,
         Recover(r, A, now)
  PROVE  IInv'
<1> DEFINE X == Expired(r, A, now)
<1>1. /\ X \in SUBSET Work
      /\ \A w \in X : work[w].status = "running"
  BY DEF Expired
<1>2. /\ work' = Recovered(X, now)
      /\ attempt' = Forfeited(X)
      /\ runStatus' = FailedRuns(X)
      /\ UNCHANGED <<clock, event, handoff>>
  BY DEF Recover
<1> HIDE DEF X
<1>3. TypeOK'
  BY <1>1, <1>2, RecoveryType DEF IInv, TypeOK
<1>4. \A v \in Work : RowInv(work[v], attempt[v], handoff[v])'
  BY <1>1, <1>2, RecoveredRowInv
<1>5. (LeaseColumns /\ OneHolder /\ OneWinner /\ RetryBudget)'
  BY <1>4 DEF RowInv, LeaseColumns, OneHolder, OneWinner, RetryBudget
<1>6. (Provenance /\ FanOut)'
  BY <1>1, <1>2, RecoveredRow, DeliveredStays DEF AfterAttempt
<1> QED
  BY <1>3, <1>5, <1>6 DEF IInv

\* claim_work: the claimed item was queued, possibly by this very recovery,
\* so it has an attempt left and no live one.
LEMMA ClaimWorkIInv ==
  ASSUME IInv, NEW r \in Run, NEW A \in Handlers, NEW now \in 0..clock,
         NEW w \in Work, NEW p \in Worker, ClaimWork(w, p, r, A, now)
  PROVE  IInv'
<1> DEFINE X == Expired(r, A, now)
<1> DEFINE rows == Recovered(X, now)
<1> DEFINE k == rows[w].attempts + 1
<1> DEFINE try == [worker |-> p, status |-> "running", started |-> now]
<1>1. /\ X \in SUBSET Work
      /\ \A v \in X : work[v].status = "running"
  BY DEF Expired
<1>2. /\ rows[w].status = "queued"
      /\ work' = [rows EXCEPT ![w] = Claimed(rows[w], p)]
      /\ attempt' = [Forfeited(X) EXCEPT ![w][k] = try]
      /\ runStatus' = FailedRuns(X)
      /\ UNCHANGED <<clock, event, handoff>>
  BY DEF ClaimWork, Ready
<1>3. /\ rows \in [Work -> WorkRow]
      /\ Forfeited(X) \in [Work -> [Number -> AttemptRow]]
      /\ FailedRuns(X) \in [Run -> FinalStatus \cup {"absent"}]
  BY <1>1, RecoveryType
<1>4. \A v \in Work : RowInv(rows[v], Forfeited(X)[v], handoff[v])
  BY <1>1, RecoveredRowInv
<1>5. \A v \in Work : rows[v].status = "absent" <=> work[v].status = "absent"
  BY <1>1, RecoveredRow DEF AfterAttempt
<1> HIDE DEF X, rows
<1>6. k \in Number
  BY <1>2, <1>3, <1>4, BoundsAssumption DEF RowInv, Number, WorkRow
<1>7. /\ Claimed(rows[w], p) \in WorkRow
      /\ Claimed(rows[w], p).status = "running"
      /\ Claimed(rows[w], p).attempts = k
      /\ Claimed(rows[w], p).current = k
  <2>1. clock + LeaseSeconds \in 0..(MaxClock + LeaseSeconds)
    BY BoundsAssumption DEF IInv, TypeOK
  <2>2. k \in 0..MaxAttempts
    BY <1>6, BoundsAssumption DEF Number
  <2>3. rows[w] \in WorkRow
    BY <1>3
  <2> QED
    BY <2>1, <2>2, <2>3 DEF Claimed, WorkRow, WorkStatus
<1>8. try \in AttemptRow
  BY BoundsAssumption DEF IInv, TypeOK, AttemptRow, AttemptStatus
<1> HIDE DEF k, try
<1>9. TypeOK'
  BY <1>2, <1>3, <1>6, <1>7, <1>8 DEF IInv, TypeOK
<1>10. ASSUME NEW v \in Work PROVE RowInv(work[v], attempt[v], handoff[v])'
  <2>1. CASE v # w
    BY <1>2, <1>3, <1>4, <2>1
  <2>2. CASE v = w
    <3>1. /\ handoff[w] = NULL
          /\ \A n \in Number :
               /\ Forfeited(X)[w][n].status \notin {"running", "succeeded"}
               /\ Forfeited(X)[w][n].status # "absent" <=> n < k
      BY <1>2, <1>3, <1>4 DEF RowInv, k, Number, WorkRow
    <3>2. work'[w] = Claimed(rows[w], p) /\ handoff'[w] = NULL
      BY <1>2, <1>3, <3>1
    <3>3. \A n \in Number :
            attempt'[w][n] = IF n = k THEN try ELSE Forfeited(X)[w][n]
      BY <1>2, <1>3, <1>6
    <3> QED
      BY <1>6, <1>7, <2>2, <3>1, <3>2, <3>3 DEF RowInv, Number, try
  <2> QED
    BY <2>1, <2>2
<1>11. (LeaseColumns /\ OneHolder /\ OneWinner /\ RetryBudget)'
  BY <1>10 DEF RowInv, LeaseColumns, OneHolder, OneWinner, RetryBudget
<1>12. \A v \in Work : work'[v].status = "absent" <=> work[v].status = "absent"
  BY <1>2, <1>3, <1>5, <1>7
<1>13. (Provenance /\ FanOut)'
  BY <1>2, <1>12, DeliveredStays
<1> QED
  BY <1>9, <1>11, <1>13 DEF IInv

\* fail_work: the reporting attempt is the running one and the latest, so
\* when the budget is spent every attempt has ended without success.
LEMMA FailWorkIInv ==
  ASSUME IInv, NEW w \in Work, NEW n \in Number, NEW p, NEW now \in 0..clock,
         FailWork(w, n, p, now)
  PROVE  IInv'
<1> DEFINE s == AfterAttempt(work[w])
<1> DEFINE row == [Unleased(work[w]) EXCEPT !.status = s, !.available = clock]
<1> DEFINE t == IF s = "queued" THEN "retryable_failure" ELSE "failed"
<1>1. /\ work[w].status = "running"
      /\ work[w].current = n
      /\ attempt[w][n].status = "running"
      /\ work' = [work EXCEPT ![w] = row]
      /\ attempt' = [attempt EXCEPT ![w][n].status = t]
      /\ runStatus' = FailedRuns({w})
      /\ UNCHANGED <<clock, event, handoff>>
  BY DEF FailWork, HoldsLease
<1>2. work[w] \in WorkRow /\ attempt[w] \in [Number -> AttemptRow]
  BY DEF IInv, TypeOK
<1>3. /\ row \in WorkRow
      /\ row.status = s
      /\ row.attempts = work[w].attempts
      /\ row.current = 0
  <2>1. s \in WorkStatus /\ clock \in 0..MaxClock
    BY DEF AfterAttempt, WorkStatus, IInv, TypeOK
  <2>2. /\ Unleased(work[w]) \in WorkRow
        /\ Unleased(work[w]).attempts = work[w].attempts
        /\ Unleased(work[w]).current = 0
    BY <1>2, UnleasedRow
  <2> QED
    BY <2>1, <2>2 DEF WorkRow
<1>4. FailedRuns({w}) \in [Run -> FinalStatus \cup {"absent"}]
  BY DEF IInv, TypeOK, FailedRuns, FinalStatus
<1>5. RowInv(work[w], attempt[w], handoff[w])
  BY RowInvIsInvariant DEF IInv
<1>6. t \in {"retryable_failure", "failed"}
  OBVIOUS
<1> HIDE DEF row, t
<1>7. TypeOK'
  <2>1. work' \in [Work -> WorkRow]
    BY <1>1, <1>3 DEF IInv, TypeOK
  <2>2. [attempt[w][n] EXCEPT !.status = t] \in AttemptRow
    BY <1>2, <1>6 DEF AttemptRow, AttemptStatus
  <2>3. attempt' \in [Work -> [Number -> AttemptRow]]
    BY <1>1, <2>2 DEF IInv, TypeOK
  <2> QED
    BY <1>1, <1>4, <2>1, <2>3 DEF IInv, TypeOK
<1>8. ASSUME NEW v \in Work PROVE RowInv(work[v], attempt[v], handoff[v])'
  <2>1. CASE v # w
    <3>1. RowInv(work[v], attempt[v], handoff[v])
      BY RowInvIsInvariant DEF IInv
    <3>2. work'[v] = work[v] /\ attempt'[v] = attempt[v] /\ handoff'[v] = handoff[v]
      BY <1>1, <2>1 DEF IInv, TypeOK
    <3> QED
      BY <3>1, <3>2
  <2>2. CASE v = w
    <3>1. work'[w] = row /\ handoff'[w] = NULL
      BY <1>1, <1>5 DEF RowInv, IInv, TypeOK
    <3>2. \A m \in Number :
            attempt'[w][m].status = IF m = n THEN t ELSE attempt[w][m].status
      BY <1>1, <1>2 DEF IInv, TypeOK, AttemptRow
    <3>3. n = work[w].attempts
      BY <1>1, <1>5 DEF RowInv
    <3>4. \/ s = "queued" /\ n < MaxAttempts
          \/ s = "dead_letter" /\ n = MaxAttempts
      BY <3>3, BoundsAssumption DEF AfterAttempt, Number
    <3>5. \A m \in Number \ {n} :
            /\ attempt[w][m].status \notin {"running", "succeeded"}
            /\ attempt[w][m].status # "absent" <=> m <= n
            /\ attempt[w][m].status \in AttemptStatus
      BY <1>1, <1>2, <1>5, <3>3 DEF RowInv, AttemptRow
    <3>6. \A m \in Number : n = MaxAttempts => m <= n
      BY DEF Number
    <3> HIDE DEF s
    <3>7. ASSUME NEW m \in Number
          PROVE  /\ attempt'[w][m].status \notin {"running", "succeeded"}
                 /\ attempt'[w][m].status # "absent" <=> m <= n
                 /\ s = "dead_letter" => attempt'[w][m].status \in
                      {"retryable_failure", "failed", "lease_expired"}
      BY <1>6, <3>2, <3>4, <3>5, <3>6 DEF AttemptStatus, Number
    <3> QED
      BY <1>3, <2>2, <3>1, <3>3, <3>4, <3>7 DEF RowInv
  <2> QED
    BY <2>1, <2>2
<1>9. (LeaseColumns /\ OneHolder /\ OneWinner /\ RetryBudget)'
  BY <1>8 DEF RowInv, LeaseColumns, OneHolder, OneWinner, RetryBudget
<1>10. (Provenance /\ FanOut)'
  BY <1>1, <1>2, <1>3, DeliveredStays DEF IInv, TypeOK, AfterAttempt
<1> QED
  BY <1>7, <1>9, <1>10 DEF IInv

\* complete_work: the winner is the running attempt, so no handoff existed,
\* and none of its outputs existed under another producer.
LEMMA CompleteWorkIInv ==
  ASSUME IInv, NEW w \in Work, NEW n \in Number, NEW p, NEW now \in 0..clock,
         NEW s \in ResultStatus, NEW outs \in RunOutputs(w), NEW d \in Digest,
         CompleteWork(w, n, p, now, s, outs, d)
  PROVE  IInv'
<1> DEFINE row == [Unleased(work[w]) EXCEPT !.status = "succeeded"]
<1> DEFINE h == [attempt |-> n, status |-> s, outputs |-> DOMAIN outs,
                 artifacts |-> d]
<1>1. /\ work[w].status = "running"
      /\ work[w].current = n
      /\ ~Collides(outs, <<w, n>>)
      /\ handoff[w] = NULL
      /\ attempt[w][n].status = "running"
      /\ event' = Published(outs, <<w, n>>)
      /\ work' = [v \in Work |->
                   IF v = w THEN row
                   ELSE IF v \in NewWork(outs) THEN QueuedWork ELSE work[v]]
      /\ attempt' = [attempt EXCEPT ![w][n].status = "succeeded"]
      /\ handoff' = [handoff EXCEPT ![w] = h]
      /\ UNCHANGED <<clock, runStatus>>
  BY DEF CompleteWork, HoldsLease
<1>2. /\ DOMAIN outs \subseteq Event
      /\ \A e \in DOMAIN outs : outs[e] \in Payload
  BY RoutingAssumption DEF RunOutputs, Emissions, Work
<1>3. /\ row \in WorkRow
      /\ row.status = "succeeded"
      /\ row.attempts = work[w].attempts
      /\ row.current = 0
  <2>1. /\ Unleased(work[w]) \in WorkRow
        /\ Unleased(work[w]).attempts = work[w].attempts
        /\ Unleased(work[w]).current = 0
    BY UnleasedRow DEF IInv, TypeOK
  <2> QED
    BY <2>1 DEF WorkRow, WorkStatus
<1>4. h \in HandoffRow /\ h # NULL /\ h.attempt = n /\ h.outputs = DOMAIN outs
  BY <1>2, NullAssumption DEF HandoffRow
<1>5. <<w, n>> \in AttemptId /\ <<w, n>> # NULL
  BY NullAssumption DEF AttemptId
<1>6. \A v \in Work : RowInv(work[v], attempt[v], handoff[v])
  BY RowInvIsInvariant DEF IInv
<1>7. attempt \in [Work -> [Number -> AttemptRow]] /\ handoff \in [Work -> HandoffRow \cup {NULL}]
  BY DEF IInv, TypeOK
<1> HIDE DEF row, h
<1>8. TypeOK'
  <2>1. event' \in [Event -> EventRow \cup {NULL}]
    BY <1>1, <1>2, <1>5, PublishedType DEF IInv
  <2>2. work' \in [Work -> WorkRow]
    BY <1>1, <1>3, QueuedWorkType DEF IInv, TypeOK
  <2>3. [attempt[w][n] EXCEPT !.status = "succeeded"] \in AttemptRow
    <3>1. attempt[w][n] \in AttemptRow
      BY <1>7
    <3>2. "succeeded" \in AttemptStatus
      BY DEF AttemptStatus
    <3> QED
      BY <3>1, <3>2 DEF AttemptRow
  <2>4. attempt' \in [Work -> [Number -> AttemptRow]]
    BY <1>1, <1>7, <2>3
  <2> QED
    BY <1>1, <1>4, <1>7, <2>1, <2>2, <2>4 DEF IInv, TypeOK
<1>9. ASSUME NEW v \in Work PROVE RowInv(work[v], attempt[v], handoff[v])'
  <2>1. CASE v = w
    <3>1. work'[w] = row /\ handoff'[w] = h
      BY <1>1, <1>7
    <3>2. \A m \in Number : attempt'[w][m].status =
            IF m = n THEN "succeeded" ELSE attempt[w][m].status
      BY <1>1, <1>7 DEF AttemptRow
    <3> QED
      BY <1>1, <1>3, <1>4, <1>6, <2>1, <3>1, <3>2 DEF RowInv
  <2>2. CASE v # w /\ v \in NewWork(outs)
    <3>1. work[v].status = "absent" /\ work'[v] = QueuedWork
      BY <1>1, <2>2 DEF NewWork
    <3>2. /\ work'[v].status = "queued"
          /\ work'[v].attempts = 0
          /\ work'[v].current = 0
      BY <3>1 DEF QueuedWork, AbsentWork
    <3>3. attempt'[v] = attempt[v] /\ handoff'[v] = handoff[v]
      BY <1>1, <1>7, <2>2
    <3> QED
      BY <1>6, <3>1, <3>2, <3>3, BoundsAssumption DEF RowInv
  <2>3. CASE v # w /\ v \notin NewWork(outs)
    BY <1>1, <1>6, <1>7, <2>3
  <2> QED
    BY <2>1, <2>2, <2>3
<1>10. (LeaseColumns /\ OneHolder /\ OneWinner /\ RetryBudget)'
  BY <1>9 DEF RowInv, LeaseColumns, OneHolder, OneWinner, RetryBudget
<1>11. \A e \in Event :
         /\ e \notin DOMAIN outs => event'[e] = event[e]
         /\ e \in DOMAIN outs =>
              /\ event'[e] # NULL
              /\ event'[e].producer = <<w, n>>
              /\ event[e] = NULL
  <2>1. SUFFICES ASSUME NEW e \in DOMAIN outs
        PROVE  /\ event'[e] # NULL
               /\ event'[e].producer = <<w, n>>
               /\ event[e] = NULL
    BY <1>1 DEF Published
  <2>2. e \in Event
    BY <1>2
  <2>3. event[e] = NULL
    <3> SUFFICES ASSUME event[e] # NULL PROVE FALSE
      OBVIOUS
    <3>1. event[e] = [payload |-> outs[e], producer |-> <<w, n>>]
      BY <1>1 DEF Collides
    <3>2. event[e].producer = <<w, n>>
      BY <3>1
    <3>3. handoff[w] # NULL
      BY <1>5, <2>2, <3>2 DEF IInv, Provenance
    <3> QED
      BY <1>1, <3>3
  <2>4. event'[e] = [payload |-> outs[e], producer |-> <<w, n>>]
    BY <1>1, <2>2, <2>3 DEF Published
  <2>5. event'[e] \in EventRow
    BY <1>2, <1>5, <2>4 DEF EventRow
  <2> QED
    BY <2>3, <2>4, <2>5, NullAssumption
<1>12. Provenance'
  <2>1. ASSUME NEW e \in Event, event'[e] # NULL, event'[e].producer # NULL
        PROVE  LET v == event'[e].producer[1]
               IN  /\ handoff'[v] # NULL
                   /\ handoff'[v].attempt = event'[e].producer[2]
                   /\ e \in handoff'[v].outputs
    <3>1. CASE e \in DOMAIN outs
      <4>1. event'[e].producer = <<w, n>>
        BY <1>11, <3>1
      <4>2. event'[e].producer[1] = w /\ event'[e].producer[2] = n
        BY <4>1
      <4>3. handoff'[w] = h
        BY <1>1, <1>7
      <4> QED
        BY <1>4, <3>1, <4>2, <4>3
    <3>2. CASE e \notin DOMAIN outs
      <4>1. event'[e] = event[e]
        BY <1>11, <3>2
      <4>2. event[e] \in EventRow
        BY <2>1, <4>1 DEF IInv, TypeOK
      <4>3. event[e].producer[1] \in Work
        BY <2>1, <4>1, <4>2 DEF EventRow, AttemptId
      <4>4. handoff[event[e].producer[1]] # NULL
        BY <2>1, <4>1 DEF IInv, Provenance
      <4>5. handoff'[event[e].producer[1]] = handoff[event[e].producer[1]]
        BY <1>1, <1>7, <4>3, <4>4
      <4> QED
        BY <2>1, <4>1, <4>5 DEF IInv, Provenance
    <3> QED
      BY <3>1, <3>2
  <2>2. ASSUME NEW v \in Work, handoff'[v] # NULL, NEW e \in handoff'[v].outputs
        PROVE  event'[e] # NULL /\ event'[e].producer = <<v, handoff'[v].attempt>>
    <3>1. CASE v = w
      BY <1>1, <1>2, <1>4, <1>7, <1>11, <2>2, <3>1
    <3>2. CASE v # w
      <4>1. handoff'[v] = handoff[v]
        BY <1>1, <1>7, <3>2
      <4>2. e \in Event
        BY <1>7, <2>2, <4>1 DEF HandoffRow
      <4> QED
        BY <1>11, <2>2, <4>1, <4>2 DEF IInv, Provenance
    <3> QED
      BY <3>1, <3>2
  <2> QED
    BY <2>1, <2>2 DEF Provenance
<1>13. FanOut'
  <2> SUFFICES ASSUME NEW e \in Event, NEW a \in Agent
               PROVE  work'[<<e, a>>].status # "absent"
                        <=> event'[e] # NULL /\ a \in Routes[e]
    BY DEF FanOut
  <2>1. <<e, a>> \in Work
    BY DEF Work
  <2>2. work[<<e, a>>].status # "absent" <=> event[e] # NULL /\ a \in Routes[e]
    BY DEF IInv, FanOut
  <2>3. CASE <<e, a>> = w
    <3>1. event[e] # NULL /\ a \in Routes[e]
      BY <1>1, <2>2, <2>3
    <3> QED
      BY <1>1, <1>3, <1>11, <2>1, <2>3, <3>1
  <2>4. CASE <<e, a>> # w
    BY <1>1, <1>11, <2>1, <2>2, <2>4 DEF NewWork, QueuedWork, AbsentWork
  <2> QED
    BY <2>3, <2>4
<1> QED
  BY <1>8, <1>10, <1>12, <1>13 DEF IInv

\* Every step of the store preserves the invariant.
LEMMA NextIInv == IInv /\ [Next]_vars => IInv'
<1> SUFFICES ASSUME IInv, [Next]_vars PROVE IInv'
  OBVIOUS
<1>1. CASE Tick
  BY <1>1, TickIInv
<1>2. CASE \E r \in Run :
             CreateRun(r) \/ \E s \in FinalStatus : SetRunStatus(r, s)
  BY <1>2, RunStatusIInv
<1>3. CASE \E e \in External, payload \in Payload : PublishEvent(e, payload)
  BY <1>3, PublishEventIInv
<1>4. CASE \E p \in Worker : Claim(p)
  <2>1. PICK p \in Worker, r \in Run, A \in Handlers, now \in 0..clock :
          \/ Recover(r, A, now)
          \/ \E w \in Work : ClaimWork(w, p, r, A, now)
    BY <1>4 DEF Claim
  <2> QED
    BY <2>1, RecoverIInv, ClaimWorkIInv
<1>5. CASE \E w \in Work, n \in Number : Report(w, n)
  <2>1. PICK w \in Work, n \in Number : Report(w, n)
    BY <1>5
  <2> DEFINE p == attempt[w][n].worker
  <2>2. PICK now \in attempt[w][n].started..clock :
          \/ FailWork(w, n, p, now)
          \/ \E s \in ResultStatus, outs \in RunOutputs(w), d \in Digest :
               CompleteWork(w, n, p, now, s, outs, d)
    BY <2>1 DEF Report
  <2>3. now \in 0..clock
    BY BoundsAssumption DEF IInv, TypeOK, AttemptRow
  <2> QED
    BY <2>2, <2>3, FailWorkIInv, CompleteWorkIInv
<1>6. CASE UNCHANGED vars
  <2> USE <1>6 DEF vars
  <2>1. TypeOK'
    BY DEF IInv, TypeOK
  <2>2. (LeaseColumns /\ OneHolder /\ OneWinner)'
    BY DEF IInv, LeaseColumns, OneHolder, OneWinner
  <2>3. (Provenance /\ FanOut /\ RetryBudget)'
    BY DEF IInv, Provenance, FanOut, RetryBudget
  <2> QED
    BY <2>1, <2>2, <2>3 DEF IInv
<1> QED
  BY <1>1, <1>2, <1>3, <1>4, <1>5, <1>6 DEF Next

\* The invariant holds in every reachable state of the store.
THEOREM StoreInvariant == Spec => []IInv
<1> QED
  BY InitIInv, NextIInv, PTL DEF Spec

\* Type correctness: in particular the attempt counter stays within the
\* budget, so every INSERT and UPDATE writes a row of the schema.
THEOREM TypeCorrect == Spec => []TypeOK
<1>1. IInv => TypeOK
  BY DEF IInv
<1> QED
  BY <1>1, StoreInvariant, PTL

\* Fencing: an item has one live attempt at most, and the handoff it gets is
\* the one of its single successful attempt.
THEOREM Fencing == Spec => []Fenced
<1>1. IInv => Fenced
  BY DEF IInv, Fenced
<1> QED
  BY <1>1, StoreInvariant, PTL

\* Attribution: what an agent published came with the handoff of the very
\* attempt the event names, and what a handoff lists that attempt published.
THEOREM EventsAreAttributed == Spec => []Provenance
<1>1. IInv => Provenance
  BY DEF IInv
<1> QED
  BY <1>1, StoreInvariant, PTL

\* Delivery: an event and the work and handoffs that follow from it are never
\* separated.
THEOREM Delivery == Spec => []FanOut
<1>1. IInv => FanOut
  BY DEF IInv
<1> QED
  BY <1>1, StoreInvariant, PTL

\* The retry budget is spent exactly, on attempts numbered without a gap.
THEOREM Budget == Spec => []RetryBudget
<1>1. IInv => RetryBudget
  BY DEF IInv
<1> QED
  BY <1>1, StoreInvariant, PTL

-----------------------------------------------------------------------------
(* What a single step of the store may do: the action properties.          *)

\* What claim_work does to one item, whether or not it claims anything: the
\* item is left alone, loses a lease that is over, or is claimed.
LEMMA ClaimStepIs ==
  ASSUME IInv, NEW p \in Worker, Claim(p), NEW v \in Work
  PROVE  /\ \/ work'[v] = work[v]
            \/ /\ work[v].status \in {"queued", "running"}
               /\ work'[v].status \in {"queued", "running", "dead_letter"}
         /\ \A n \in Number :
              \/ attempt'[v][n] = attempt[v][n]
              \/ attempt[v][n].status = "absent" /\ attempt'[v][n].status = "running"
              \/ /\ attempt[v][n].status = "running"
                 /\ attempt'[v][n].status = "lease_expired"
                 /\ work[v].lease <= clock
         /\ UNCHANGED <<event, handoff>>
<1>1. PICK r \in Run, A \in Handlers, now \in 0..clock :
        \/ Recover(r, A, now)
        \/ \E w \in Work : ClaimWork(w, p, r, A, now)
  BY DEF Claim
<1> DEFINE X == Expired(r, A, now)
<1> DEFINE rows == Recovered(X, now)
<1> DEFINE tries == Forfeited(X)
<1>2. /\ X \in SUBSET Work
      /\ \A w \in X : work[w].status = "running" /\ work[w].lease <= now
  BY DEF Expired
<1>3. /\ work[v] \in WorkRow
      /\ clock \in Nat
      /\ now <= clock
  BY BoundsAssumption DEF IInv, TypeOK
<1>4. /\ v \notin X => rows[v] = work[v]
      /\ v \in X => rows[v].status \in {"queued", "dead_letter"}
      /\ rows[v].attempts = work[v].attempts
  BY <1>2, RecoveredRow DEF AfterAttempt
<1>5. /\ rows \in [Work -> WorkRow]
      /\ tries \in [Work -> [Number -> AttemptRow]]
  BY <1>2, RecoveryType
<1>6. RowInv(rows[v], tries[v], handoff[v])
  BY <1>2, RecoveredRowInv
<1>7. v \in X => work[v].lease <= clock
  BY <1>2, <1>3 DEF WorkRow
<1>8. ASSUME NEW n \in Number
      PROVE  \/ tries[v][n] = attempt[v][n]
             \/ /\ attempt[v][n].status = "running"
                /\ tries[v][n].status = "lease_expired"
                /\ work[v].lease <= clock
  <2>1. v \in X /\ n = work[v].current => attempt[v][n].status = "running"
    BY <1>2 DEF IInv, OneHolder
  <2> QED
    BY <1>2, <1>7, <2>1, ForfeitedRow
<1>9. UNCHANGED <<event, handoff>>
  BY <1>1 DEF Recover, ClaimWork
<1>10. CASE Recover(r, A, now)
  <2>1. work' = rows /\ attempt' = tries
    BY <1>10 DEF Recover
  <2> QED
    BY <1>2, <1>4, <1>8, <1>9, <2>1
<1>11. CASE \E w \in Work : ClaimWork(w, p, r, A, now)
  <2>1. PICK w \in Work : ClaimWork(w, p, r, A, now)
    BY <1>11
  <2> DEFINE k == rows[w].attempts + 1
  <2> DEFINE try == [worker |-> p, status |-> "running", started |-> now]
  <2>2. /\ rows[w].status = "queued"
        /\ work' = [rows EXCEPT ![w] = Claimed(rows[w], p)]
        /\ attempt' = [tries EXCEPT ![w][k] = try]
    BY <2>1 DEF ClaimWork, Ready
  <2>3. CASE v # w
    BY <1>2, <1>4, <1>5, <1>8, <1>9, <2>2, <2>3
  <2>4. CASE v = w
    <3>1. work[v].status \in {"queued", "running"}
      BY <1>2, <1>4, <2>2, <2>4
    <3>2. work'[v].status = "running"
      <4>1. work'[v] = Claimed(rows[w], p) /\ rows[w] \in WorkRow
        BY <1>5, <2>2, <2>4
      <4> QED
        BY <4>1 DEF Claimed, WorkRow
    <3>3. \A n \in Number : attempt'[v][n] = IF n = k THEN try ELSE tries[v][n]
      BY <1>5, <2>2, <2>4
    <3>4. k \in Number => tries[v][k].status = "absent"
      BY <1>5, <1>6, <2>4 DEF RowInv, WorkRow
    <3>5. k \in Number => attempt[v][k].status = "absent"
      BY <1>8, <3>4
    <3> HIDE DEF rows, tries
    <3> QED
      BY <1>8, <1>9, <3>1, <3>2, <3>3, <3>5
  <2> QED
    BY <2>3, <2>4
<1> QED
  BY <1>1, <1>10, <1>11

\* fail_work ends the attempt that reports, and its item is queued or dead.
LEMMA FailStepIs ==
  ASSUME IInv, NEW w \in Work, NEW m \in Number, NEW p, NEW now,
         FailWork(w, m, p, now)
  PROVE  /\ work[w].status = "running"
         /\ work'[w].status \in {"queued", "dead_letter"}
         /\ \A v \in Work : v # w => work'[v] = work[v]
         /\ \A v \in Work, n \in Number :
              \/ attempt'[v][n] = attempt[v][n]
              \/ /\ attempt[v][n].status = "running"
                 /\ attempt'[v][n].status \in {"retryable_failure", "failed"}
         /\ UNCHANGED <<event, handoff>>
<1> DEFINE s == AfterAttempt(work[w])
<1> DEFINE row == [Unleased(work[w]) EXCEPT !.status = s, !.available = clock]
<1> DEFINE t == IF s = "queued" THEN "retryable_failure" ELSE "failed"
<1>1. /\ work[w].status = "running"
      /\ attempt[w][m].status = "running"
      /\ work' = [work EXCEPT ![w] = row]
      /\ attempt' = [attempt EXCEPT ![w][m].status = t]
      /\ UNCHANGED <<event, handoff>>
  BY DEF FailWork, HoldsLease
<1>2. row.status = s /\ s \in {"queued", "dead_letter"}
  <2>1. Unleased(work[w]) \in WorkRow
    BY UnleasedRow DEF IInv, TypeOK
  <2> QED
    BY <2>1 DEF AfterAttempt, WorkRow
<1>3. t \in {"retryable_failure", "failed"}
  OBVIOUS
<1> HIDE DEF row, t
<1>4. ASSUME NEW v \in Work, NEW n \in Number
      PROVE  \/ attempt'[v][n] = attempt[v][n]
             \/ /\ attempt[v][n].status = "running"
                /\ attempt'[v][n].status \in {"retryable_failure", "failed"}
  BY <1>1, <1>3 DEF IInv, TypeOK, AttemptRow
<1> QED
  BY <1>1, <1>2, <1>4 DEF IInv, TypeOK

\* Either there is nothing new in a publication and it changes nothing, or the
\* keys are new and so is all the work they are routed to.
LEMMA PublicationIs ==
  ASSUME IInv, NEW outs, NEW producer, ~Collides(outs, producer),
         DOMAIN outs \subseteq Event
  PROVE  /\ \A e \in DOMAIN outs :
              event[e] # NULL =>
                event[e] = [payload |-> outs[e], producer |-> producer]
         /\ \A e \in DOMAIN outs, v \in Work :
              v[1] = e /\ v[2] \in Routes[e] =>
                (work[v].status = "absent" <=> event[e] = NULL)
<1>1. ASSUME NEW e \in DOMAIN outs, NEW v \in Work, v[1] = e, v[2] \in Routes[e]
      PROVE  work[v].status = "absent" <=> event[e] = NULL
  <2>1. v = <<v[1], v[2]>> /\ v[1] \in Event /\ v[2] \in Agent
    BY DEF Work
  <2> QED
    BY <1>1, <2>1 DEF IInv, FanOut
<1> QED
  BY <1>1 DEF Collides

\* complete_work ends the one running attempt; everything it inserts is new.
LEMMA CompleteStepIs ==
  ASSUME IInv, NEW w \in Work, NEW m \in Number, NEW p, NEW now,
         NEW s \in ResultStatus, NEW outs \in RunOutputs(w), NEW d \in Digest,
         CompleteWork(w, m, p, now, s, outs, d)
  PROVE  /\ work[w].status = "running" /\ work'[w].status = "succeeded"
         /\ handoff[w] = NULL
         /\ \A e \in DOMAIN outs :
              /\ e \in Event
              /\ event[e] = NULL
              /\ event'[e] = [payload |-> outs[e], producer |-> <<w, m>>]
         /\ \A e \in Event \ DOMAIN outs : event'[e] = event[e]
         /\ \A v \in Work : v # w =>
              /\ handoff'[v] = handoff[v]
              /\ v[1] \in DOMAIN outs /\ v[2] \in Routes[v[1]] =>
                   work[v].status = "absent" /\ work'[v].status = "queued"
              /\ ~(v[1] \in DOMAIN outs /\ v[2] \in Routes[v[1]]) =>
                   work'[v] = work[v]
         /\ \A v \in Work, n \in Number :
              \/ attempt'[v][n] = attempt[v][n]
              \/ /\ attempt[v][n].status = "running"
                 /\ attempt'[v][n].status = "succeeded"
<1>1. /\ work[w].status = "running"
      /\ ~Collides(outs, <<w, m>>)
      /\ handoff[w] = NULL
      /\ attempt[w][m].status = "running"
      /\ event' = Published(outs, <<w, m>>)
      /\ work' = [v \in Work |->
                   IF v = w THEN [Unleased(work[w]) EXCEPT !.status = "succeeded"]
                   ELSE IF v \in NewWork(outs) THEN QueuedWork ELSE work[v]]
      /\ attempt' = [attempt EXCEPT ![w][m].status = "succeeded"]
      /\ \A v \in Work : v # w => handoff'[v] = handoff[v]
  BY DEF CompleteWork, HoldsLease, IInv, TypeOK
<1>2. DOMAIN outs \subseteq Event
  BY RoutingAssumption DEF RunOutputs, Emissions, Work
<1>3. work'[w].status = "succeeded"
  <2>1. Unleased(work[w]) \in WorkRow
    BY UnleasedRow DEF IInv, TypeOK
  <2> QED
    BY <1>1, <2>1 DEF WorkRow
<1>4. ASSUME NEW e \in DOMAIN outs
      PROVE  /\ event[e] = NULL
             /\ event'[e] = [payload |-> outs[e], producer |-> <<w, m>>]
  <2>1. e \in Event
    BY <1>2
  <2>2. event[e] = NULL
    <3> SUFFICES ASSUME event[e] # NULL PROVE FALSE
      OBVIOUS
    <3>1. event[e].producer = <<w, m>>
      BY <1>1 DEF Collides
    <3>2. <<w, m>> # NULL
      BY NullAssumption DEF AttemptId
    <3> QED
      BY <1>1, <2>1, <3>1, <3>2 DEF IInv, Provenance
  <2> QED
    BY <1>1, <2>1, <2>2 DEF Published
<1>5. \A e \in Event \ DOMAIN outs : event'[e] = event[e]
  BY <1>1 DEF Published
<1>6. ASSUME NEW v \in Work, v # w
      PROVE  /\ v[1] \in DOMAIN outs /\ v[2] \in Routes[v[1]] =>
                  work[v].status = "absent" /\ work'[v].status = "queued"
             /\ ~(v[1] \in DOMAIN outs /\ v[2] \in Routes[v[1]]) =>
                  work'[v] = work[v]
  <2>1. QueuedWork.status = "queued"
    BY DEF QueuedWork, AbsentWork
  <2>2. v[1] \in DOMAIN outs /\ v[2] \in Routes[v[1]] => work[v].status = "absent"
    BY <1>1, <1>2, <1>4, PublicationIs
  <2> QED
    BY <1>1, <1>6, <2>1, <2>2 DEF NewWork
<1>7. ASSUME NEW v \in Work, NEW n \in Number
      PROVE  \/ attempt'[v][n] = attempt[v][n]
             \/ /\ attempt[v][n].status = "running"
                /\ attempt'[v][n].status = "succeeded"
  BY <1>1 DEF IInv, TypeOK, AttemptRow
<1> QED
  BY <1>1, <1>2, <1>3, <1>4, <1>5, <1>6, <1>7

\* publish_event: all of it is new, or nothing is.
LEMMA PublishStepIs ==
  ASSUME IInv, NEW e \in External, NEW payload \in Payload,
         PublishEvent(e, payload)
  PROVE  /\ e \in Event
         /\ UNCHANGED <<attempt, handoff>>
         /\ \A x \in Event : x # e => event'[x] = event[x]
         /\ \/ /\ event[e] # NULL
               /\ event' = event
               /\ \A v \in Work : work'[v] = work[v]
            \/ /\ event[e] = NULL
               /\ event'[e] = [payload |-> payload, producer |-> NULL]
               /\ \A v \in Work :
                    /\ v[1] = e /\ v[2] \in Routes[e] =>
                         /\ work[v].status = "absent"
                         /\ work'[v].status = "queued"
                    /\ ~(v[1] = e /\ v[2] \in Routes[e]) => work'[v] = work[v]
<1> DEFINE outs == [x \in {e} |-> payload]
<1>1. /\ ~Collides(outs, NULL)
      /\ event' = Published(outs, NULL)
      /\ work' = [v \in Work |->
           IF v \in NewWork(outs) THEN QueuedWork ELSE work[v]]
      /\ UNCHANGED <<attempt, handoff>>
  BY DEF PublishEvent
<1>2. DOMAIN outs = {e} /\ outs[e] = payload /\ e \in Event
  BY RoutingAssumption
<1> HIDE DEF outs
<1>3. /\ event[e] # NULL => event[e] = [payload |-> payload, producer |-> NULL]
      /\ \A v \in Work : v[1] = e /\ v[2] \in Routes[e] =>
           (work[v].status = "absent" <=> event[e] = NULL)
  BY <1>1, <1>2, PublicationIs
<1>4. \A x \in Event : event'[x] =
        IF x = e /\ event[e] = NULL
        THEN [payload |-> payload, producer |-> NULL] ELSE event[x]
  BY <1>1, <1>2 DEF Published
<1>5. event[e] # NULL => event' = event
  BY <1>1, <1>2 DEF Published, IInv, TypeOK
<1>6. QueuedWork.status = "queued"
  BY DEF QueuedWork, AbsentWork
<1>7. \A v \in Work :
        v \in NewWork(outs) <=>
          v[1] = e /\ v[2] \in Routes[e] /\ work[v].status = "absent"
  BY <1>2 DEF NewWork
<1> QED
  BY <1>1, <1>2, <1>3, <1>4, <1>5, <1>6, <1>7

\* The steps of the store, as the cases of every proof below.
LEMMA StepCases ==
  ASSUME IInv, [Next]_vars
  PROVE  \/ UNCHANGED <<event, work, attempt, handoff>>
         \/ \E e \in External, payload \in Payload : PublishEvent(e, payload)
         \/ \E p \in Worker : Claim(p)
         \/ \E w \in Work, n \in Number, p \in Worker \cup {NULL},
               now \in 0..clock :
              \/ FailWork(w, n, p, now)
              \/ \E s \in ResultStatus, outs \in RunOutputs(w), d \in Digest :
                   CompleteWork(w, n, p, now, s, outs, d)
<1>1. CASE UNCHANGED vars \/ Tick
  BY <1>1 DEF vars, Tick
<1>2. CASE \E r \in Run :
             CreateRun(r) \/ \E s \in FinalStatus : SetRunStatus(r, s)
  BY <1>2 DEF CreateRun, SetRunStatus
<1>3. CASE \E w \in Work, n \in Number : Report(w, n)
  <2>1. PICK w \in Work, n \in Number : Report(w, n)
    BY <1>3
  <2>2. attempt[w][n] \in AttemptRow
    BY DEF IInv, TypeOK
  <2>3. /\ attempt[w][n].worker \in Worker \cup {NULL}
        /\ attempt[w][n].started..clock \subseteq 0..clock
    BY <2>2, BoundsAssumption DEF AttemptRow, IInv, TypeOK
  <2> QED
    BY <2>1, <2>3 DEF Report
<1> QED
  BY <1>1, <1>2, <1>3 DEF Next

\* LeaseHonoured for one step: only a claim expires attempts, and the instant
\* it works with is never ahead of the clock.
LEMMA LeaseHonouredStep ==
  ASSUME IInv, [Next]_vars, NEW v \in Work, NEW n \in Number,
         attempt[v][n].status = "running", attempt'[v][n].status = "lease_expired"
  PROVE  work[v].lease <= clock
<1>1. CASE UNCHANGED <<event, work, attempt, handoff>>
  BY <1>1
<1>2. CASE \E e \in External, payload \in Payload : PublishEvent(e, payload)
  BY <1>2, PublishStepIs
<1>3. CASE \E p \in Worker : Claim(p)
  BY <1>3, ClaimStepIs
<1>4. ASSUME NEW w \in Work, NEW m \in Number, NEW p, NEW now,
             FailWork(w, m, p, now)
      PROVE  FALSE
  BY <1>4, FailStepIs
<1>5. ASSUME NEW w \in Work, NEW m \in Number, NEW p, NEW now,
             NEW s \in ResultStatus, NEW outs \in RunOutputs(w), NEW d \in Digest,
             CompleteWork(w, m, p, now, s, outs, d)
      PROVE  FALSE
  BY <1>5, CompleteStepIs
<1> QED
  BY <1>1, <1>2, <1>3, <1>4, <1>5, StepCases

\* No live lease is ever taken away, whatever stale instants the claimers
\* work with.
THEOREM LeasesAreHonoured == Spec => LeaseHonoured
<1>1. IInv /\ [Next]_vars =>
        [\A w \in Work, n \in Number : OverWhenExpired(w, n)]_vars
  BY LeaseHonouredStep DEF OverWhenExpired
<1> QED
  BY <1>1, StoreInvariant, PTL DEF Spec, LeaseHonoured

\* HistoryImmutable for one step, table by table.
LEMMA HistoryStep ==
  ASSUME IInv, [Next]_vars
  PROVE  /\ \A e \in Event : event[e] # NULL => event'[e] = event[e]
         /\ \A v \in Work :
              /\ handoff[v] # NULL => handoff'[v] = handoff[v]
              /\ work[v].status \in {"succeeded", "dead_letter"} =>
                   work'[v] = work[v]
              /\ \A n \in Number :
                   attempt[v][n].status \notin {"absent", "running"} =>
                     attempt'[v][n] = attempt[v][n]
<1>1. CASE UNCHANGED <<event, work, attempt, handoff>>
  BY <1>1
<1>2. ASSUME NEW e \in External, NEW payload \in Payload, PublishEvent(e, payload)
      PROVE  /\ \A x \in Event : event[x] # NULL => event'[x] = event[x]
             /\ \A v \in Work :
                  work[v].status # "absent" => work'[v] = work[v]
             /\ UNCHANGED <<attempt, handoff>>
  BY <1>2, PublishStepIs
<1>3. ASSUME NEW p \in Worker, Claim(p), NEW v \in Work
      PROVE  /\ UNCHANGED <<event, handoff>>
             /\ work[v].status \in {"succeeded", "dead_letter"} =>
                  work'[v] = work[v]
             /\ \A n \in Number :
                  attempt[v][n].status \notin {"absent", "running"} =>
                    attempt'[v][n] = attempt[v][n]
  BY <1>3, ClaimStepIs
<1>4. ASSUME NEW w \in Work, NEW m \in Number, NEW p, NEW now,
             FailWork(w, m, p, now), NEW v \in Work
      PROVE  /\ UNCHANGED <<event, handoff>>
             /\ work[v].status \in {"succeeded", "dead_letter"} =>
                  work'[v] = work[v]
             /\ \A n \in Number :
                  attempt[v][n].status \notin {"absent", "running"} =>
                    attempt'[v][n] = attempt[v][n]
  BY <1>4, FailStepIs
<1>5. ASSUME NEW w \in Work, NEW m \in Number, NEW p, NEW now,
             NEW s \in ResultStatus, NEW outs \in RunOutputs(w), NEW d \in Digest,
             CompleteWork(w, m, p, now, s, outs, d), NEW v \in Work
      PROVE  /\ handoff[v] # NULL => handoff'[v] = handoff[v]
             /\ work[v].status \in {"succeeded", "dead_letter"} =>
                  work'[v] = work[v]
             /\ \A n \in Number :
                  attempt[v][n].status \notin {"absent", "running"} =>
                    attempt'[v][n] = attempt[v][n]
  <2>1. CASE v = w
    BY <1>5, <2>1, CompleteStepIs
  <2>2. CASE v # w
    BY <1>5, <2>2, CompleteStepIs
  <2> QED
    BY <2>1, <2>2
<1>6. \A e \in Event : event[e] # NULL => event'[e] = event[e]
  <2>1. ASSUME NEW p \in Worker, Claim(p) PROVE UNCHANGED event
    BY <2>1 DEF Claim, Recover, ClaimWork
  <2>2. ASSUME NEW w \in Work, NEW m \in Number, NEW p, NEW now,
               FailWork(w, m, p, now)
        PROVE  UNCHANGED event
    BY <2>2 DEF FailWork
  <2>3. ASSUME NEW w \in Work, NEW m \in Number, NEW p, NEW now,
               NEW s \in ResultStatus, NEW outs \in RunOutputs(w),
               NEW d \in Digest, CompleteWork(w, m, p, now, s, outs, d)
        PROVE  \A e \in Event : event[e] # NULL => event'[e] = event[e]
    BY <2>3, CompleteStepIs
  <2> QED
    BY <1>1, <1>2, <2>1, <2>2, <2>3, StepCases
<1>7. ASSUME NEW v \in Work
      PROVE  /\ handoff[v] # NULL => handoff'[v] = handoff[v]
             /\ work[v].status \in {"succeeded", "dead_letter"} =>
                  work'[v] = work[v]
             /\ \A n \in Number :
                  attempt[v][n].status \notin {"absent", "running"} =>
                    attempt'[v][n] = attempt[v][n]
  BY <1>1, <1>2, <1>3, <1>4, <1>5, StepCases
<1> QED
  BY <1>6, <1>7

\* Events, handoffs, ended attempts and decided work items are immutable.
THEOREM HistoryIsImmutable == Spec => HistoryImmutable
<1>1. IInv /\ [Next]_vars =>
        [/\ \A e \in Event : event[e] # NULL => event'[e] = event[e]
         /\ \A w \in Work :
              /\ handoff[w] # NULL => handoff'[w] = handoff[w]
              /\ work[w].status \in {"succeeded", "dead_letter"} =>
                   work'[w] = work[w]
              /\ \A n \in Number :
                   attempt[w][n].status \notin {"absent", "running"} =>
                     attempt'[w][n] = attempt[w][n]]_vars
  BY HistoryStep
<1> QED
  BY <1>1, StoreInvariant, PTL DEF Spec, HistoryImmutable

-----------------------------------------------------------------------------
(* The store implements DurableHandoff under the mapping of AgentStore:    *)
(* publish_event is an Inject the first time and a stutter when repeated,  *)
(* complete_work is a Finish, a recovery or a failure that dead-letters is *)
(* an Abandon, and everything else, retries included, is a stutter.        *)

\* The initial tables map to the initial abstract state.
LEMMA InitRefines == Init => Abstract!Init
BY DEF Init, AbsentWork, Abstract!Init, Abstract!Work, Accepted, Outcome, Work

\* A publication injects its event, or repeats one and changes nothing.
LEMMA PublishRefines ==
  ASSUME IInv, NEW e \in External, NEW payload \in Payload,
         PublishEvent(e, payload)
  PROVE  Abstract!Inject(e, payload) \/ UNCHANGED <<Accepted, Outcome>>
<1> DEFINE outs == [x \in {e} |-> payload]
<1>1. e \in Event /\ \A x \in Event : x # e => event'[x] = event[x]
  BY PublishStepIs
<1>2. CASE event[e] # NULL
  <2>1. event' = event /\ \A v \in Work : work'[v] = work[v]
    BY <1>2, PublishStepIs
  <2> QED
    BY <2>1 DEF Accepted, Outcome
<1>3. CASE event[e] = NULL
  <2>1. /\ event'[e] = [payload |-> payload, producer |-> NULL]
        /\ \A v \in Work :
             /\ v[1] = e /\ v[2] \in Routes[e] => work'[v].status = "queued"
             /\ ~(v[1] = e /\ v[2] \in Routes[e]) => work'[v] = work[v]
    BY <1>3, PublishStepIs
  <2>2. event'[e] # NULL
    BY <2>1, NullAssumption DEF EventRow
  <2>3. Accepted' = [x \in Event |->
          IF x \in DOMAIN outs THEN [payload |-> outs[x], by |-> NULL]
          ELSE Accepted[x]]
    BY <1>1, <2>1, <2>2 DEF Accepted
  <2>4. \A x \in DOMAIN outs : Accepted[x] = NULL
    BY <1>1, <1>3 DEF Accepted
  <2>5. Outcome' = [v \in Work |->
          IF v[1] \in DOMAIN outs /\ v[2] \in Routes[v[1]] THEN "pending"
          ELSE Outcome[v]]
    BY <2>1 DEF Outcome
  <2> QED
    BY <2>3, <2>4, <2>5
    DEF Abstract!Inject, Abstract!Accept, Abstract!Delivered, Abstract!Work, Work
<1> QED
  BY <1>2, <1>3

\* A step that leaves the events alone and moves items only between queued,
\* running and dead_letter abandons the ones it dead-letters.
LEMMA RetryRefines ==
  ASSUME event' = event,
         \A v \in Work :
           \/ work'[v] = work[v]
           \/ /\ work[v].status \in {"queued", "running"}
              /\ work'[v].status \in {"queued", "running", "dead_letter"}
  PROVE  \/ \E X \in SUBSET {w \in Abstract!Work : Outcome[w] = "pending"} :
              Abstract!Abandon(X)
         \/ UNCHANGED <<Accepted, Outcome>>
<1> DEFINE X == {w \in Work : work[w].status \in {"queued", "running"}
                               /\ work'[w].status = "dead_letter"}
<1>1. Accepted' = Accepted
  BY DEF Accepted
<1>2. Outcome' = [w \in Work |-> IF w \in X THEN "dead" ELSE Outcome[w]]
  BY DEF Outcome
<1>3. X \in SUBSET {w \in Abstract!Work : Outcome[w] = "pending"}
  BY DEF Outcome, Abstract!Work, Work
<1> HIDE DEF X
<1>4. CASE X = {}
  BY <1>1, <1>2, <1>4 DEF Outcome
<1>5. CASE X # {}
  BY <1>1, <1>2, <1>3, <1>5 DEF Abstract!Abandon, Abstract!Work, Work
<1> QED
  BY <1>4, <1>5

\* Completion finishes its item and accepts all its outputs in one step.
LEMMA CompleteRefines ==
  ASSUME IInv, NEW w \in Work, NEW n \in Number, NEW p, NEW now,
         NEW s \in ResultStatus, NEW outs \in RunOutputs(w), NEW d \in Digest,
         CompleteWork(w, n, p, now, s, outs, d)
  PROVE  Abstract!Next
<1>1. /\ work[w].status = "running" /\ work'[w].status = "succeeded"
      /\ handoff[w] = NULL
      /\ \A e \in DOMAIN outs :
           /\ e \in Event
           /\ event[e] = NULL
           /\ event'[e] = [payload |-> outs[e], producer |-> <<w, n>>]
      /\ \A e \in Event \ DOMAIN outs : event'[e] = event[e]
      /\ \A v \in Work : v # w =>
           /\ handoff'[v] = handoff[v]
           /\ v[1] \in DOMAIN outs /\ v[2] \in Routes[v[1]] =>
                work[v].status = "absent" /\ work'[v].status = "queued"
           /\ ~(v[1] \in DOMAIN outs /\ v[2] \in Routes[v[1]]) =>
                work'[v] = work[v]
      /\ \A v \in Work, m \in Number :
           \/ attempt'[v][m] = attempt[v][m]
           \/ /\ attempt[v][m].status = "running"
              /\ attempt'[v][m].status = "succeeded"
  BY CompleteStepIs
<1>2. outs \in [DOMAIN outs -> Payload] /\ DOMAIN outs \in SUBSET Event
  <2>1. PICK E \in SUBSET Outputs[w[2]] : outs \in [E -> Payload]
    BY DEF RunOutputs, Emissions
  <2> QED
    BY <1>1, <2>1
<1>3. ASSUME NEW e \in DOMAIN outs PROVE event'[e] # NULL
  <2>1. <<w, n>> \in AttemptId /\ outs[e] \in Payload
    BY <1>2 DEF AttemptId
  <2>2. [payload |-> outs[e], producer |-> <<w, n>>] \in EventRow
    BY <2>1 DEF EventRow
  <2> QED
    BY <1>1, <2>2, NullAssumption
<1>4. <<w, n>> # NULL /\ <<w, n>>[1] = w
  BY NullAssumption DEF AttemptId
<1>5. Accepted' = [e \in Event |->
        IF e \in DOMAIN outs THEN [payload |-> outs[e], by |-> w]
        ELSE Accepted[e]]
  <2>1. ASSUME NEW e \in DOMAIN outs
        PROVE  /\ event'[e] # NULL
               /\ event'[e].payload = outs[e]
               /\ event'[e].producer # NULL
               /\ event'[e].producer[1] = w
    <3>1. event'[e] = [payload |-> outs[e], producer |-> <<w, n>>]
      BY <1>1
    <3>2. event'[e].payload = outs[e] /\ event'[e].producer = <<w, n>>
      BY <3>1
    <3> QED
      BY <1>3, <1>4, <3>2
  <2>2. \A e \in Event \ DOMAIN outs : event'[e] = event[e]
    BY <1>1
  <2> QED
    BY <2>1, <2>2 DEF Accepted
<1>6. \A e \in DOMAIN outs : Accepted[e] = NULL
  BY <1>1 DEF Accepted
<1>7. Outcome[w] = "pending"
  BY <1>1 DEF Outcome
<1>8. Outcome' = [v \in Work |->
        IF v = w THEN "done"
        ELSE IF v[1] \in DOMAIN outs /\ v[2] \in Routes[v[1]] THEN "pending"
        ELSE Outcome[v]]
  BY <1>1 DEF Outcome
<1>9. Abstract!Finish(w, outs)
  BY <1>5, <1>6, <1>7, <1>8
  DEF Abstract!Finish, Abstract!Accept, Abstract!Delivered, Abstract!Work, Work
<1> QED
  BY <1>2, <1>9 DEF Abstract!Next, Abstract!Work, Work

\* Every step of the store is an abstract step or a stutter.
LEMMA NextRefines ==
  ASSUME IInv, [Next]_vars
  PROVE  [Abstract!Next]_<<Accepted, Outcome>>
<1>1. CASE UNCHANGED <<event, work, attempt, handoff>>
  BY <1>1 DEF Accepted, Outcome
<1>2. ASSUME NEW e \in External, NEW payload \in Payload, PublishEvent(e, payload)
      PROVE  [Abstract!Next]_<<Accepted, Outcome>>
  BY <1>2, PublishRefines DEF Abstract!Next
<1>3. ASSUME NEW p \in Worker, Claim(p)
      PROVE  [Abstract!Next]_<<Accepted, Outcome>>
  <2>1. event' = event
    BY <1>3 DEF Claim, Recover, ClaimWork
  <2>2. \A v \in Work :
          \/ work'[v] = work[v]
          \/ /\ work[v].status \in {"queued", "running"}
             /\ work'[v].status \in {"queued", "running", "dead_letter"}
    BY <1>3, ClaimStepIs
  <2> QED
    BY <2>1, <2>2, RetryRefines DEF Abstract!Next
<1>4. ASSUME NEW w \in Work, NEW n \in Number, NEW p, NEW now,
             FailWork(w, n, p, now)
      PROVE  [Abstract!Next]_<<Accepted, Outcome>>
  <2>1. event' = event
    BY <1>4 DEF FailWork
  <2>2. \A v \in Work :
          \/ work'[v] = work[v]
          \/ /\ work[v].status \in {"queued", "running"}
             /\ work'[v].status \in {"queued", "running", "dead_letter"}
    BY <1>4, FailStepIs
  <2> QED
    BY <2>1, <2>2, RetryRefines DEF Abstract!Next
<1>5. ASSUME NEW w \in Work, NEW n \in Number, NEW p, NEW now,
             NEW s \in ResultStatus, NEW outs \in RunOutputs(w), NEW d \in Digest,
             CompleteWork(w, n, p, now, s, outs, d)
      PROVE  [Abstract!Next]_<<Accepted, Outcome>>
  BY <1>5, CompleteRefines
<1> QED
  BY <1>1, <1>2, <1>3, <1>4, <1>5, StepCases

\* The store implements the abstract specification, for every number of runs,
\* events, agents, workers and attempts.
THEOREM StoreImplementsHandoff == Spec => ImplementsHandoff
<1> QED
  BY InitRefines, NextRefines, StoreInvariant, PTL
  DEF Spec, ImplementsHandoff, Abstract!Spec
=============================================================================
