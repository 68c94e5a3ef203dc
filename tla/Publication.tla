---------------------------- MODULE Publication ----------------------------
(***************************************************************************)
(* The authorized publication of secure branches: the authorizer and the   *)
(* publisher agents (publication_agents.py), the per-account ledger of     *)
(* consumed authorizations (publication_ledger.py), the guarded push       *)
(* (secure_publish.py), and the remote branch, which others write too.     *)
(*                                                                         *)
(* Work items come from any number of runs and databases; only the ledger  *)
(* and the remote are shared by them.  An item is handed to attempts as    *)
(* AgentStore does it: one lease at a time, a new attempt once the lease   *)
(* is over or the last attempt failed, and a report is accepted from the   *)
(* current attempt alone.  An attempt may outlive its lease and its        *)
(* process may be killed at any point, also while git push is running: the *)
(* push is a process of its own, and nobody ends it then.                  *)
(***************************************************************************)
EXTENDS Integers

CONSTANTS
  Request,       \* publication requests, by request_id
  Item,          \* publication work items: one per run and request
  RequestOf,
  Executes,      \* the items of runs with execute = True
  Patch,         \* patch_sha, expected_remote_sha, issued_at and expires_at
  Expected,      \*   of each request
  Issued,
  Expires,
  Commit,        \* commits the remote branch may point to
  MaxAttempts,
  LeaseSeconds,
  MinWindow,     \* MIN_MUTATION_WINDOW_SECONDS
  MaxPush,       \* MAX_PUSH_SECONDS
  MaxClock,      \* bound on the clock
  MaxForeign,    \* bound on the changes others make to the branch
  MaxCrashes,    \* bound on crashes
  NULL           \* an absent branch, row or worker

LedgerRow == [item : Item, status : {"reserved", "published"}]

ASSUME RequestAssumption ==
  /\ RequestOf \in [Item -> Request]
  /\ Executes \subseteq Item
  /\ Patch \in [Request -> Commit]
  /\ Expected \in [Request -> Commit \cup {NULL}]
  /\ Issued \in [Request -> Nat]
  /\ Expires \in [Request -> Nat]
  /\ NULL \notin Commit \cup Item \cup LedgerRow

ASSUME BoundsAssumption ==
  /\ MaxAttempts \in Nat \ {0}
  /\ LeaseSeconds \in Nat \ {0}
  /\ MinWindow \in Nat \ {0} /\ MaxPush \in Nat \ {0}
  /\ MaxClock \in Nat /\ MaxForeign \in Nat /\ MaxCrashes \in Nat

VARIABLES
  clock,
  remote,     \* the remote secure branch
  writer,     \* history: the item whose push set it last, NULL for others
  ledger,     \* publication_consumptions, by request
  item,       \* the publisher's work items
  attempt,    \* their attempts: where the handler is, and its git push
  foreign,
  crashes

vars == <<clock, remote, writer, ledger, item, attempt, foreign, crashes>>

-----------------------------------------------------------------------------
Number == 1..MaxAttempts
Sha == Commit \cup {NULL}

Outcome == {"published", "already-published", "planned", "blocked"}
ItemStatus == {"new", "authorized", "dead"} \cup Outcome

\* Where an attempt is.  "over": it has reported, failed, or was killed.
Place ==
  {"absent", "validate", "reserve", "inspect", "look", "push", "pushing",
   "verify", "mark", "complete", "raised", "over"}

\* A git push: not started, running, or over with the remote changed by it.
PushState == {"none", "sent", "landed"}

AttemptAt(l, lease) ==
  [at |-> l, lease |-> lease, result |-> "blocked", push |-> "none",
   deadline |-> 0]

Init ==
  /\ clock = 0
  /\ remote \in {Expected[r] : r \in Request}
  /\ writer = NULL
  /\ ledger = [r \in Request |-> NULL]
  /\ item = [i \in Item |-> [status |-> "new", current |-> 0, attempts |-> 0]]
  /\ attempt = [i \in Item |-> [n \in Number |-> AttemptAt("absent", 0)]]
  /\ foreign = 0
  /\ crashes = 0

-----------------------------------------------------------------------------
(* The authorizer verifies the request with its bundle and policy; what     *)
(* fails there is blocked, and no work is routed to the publisher.          *)

\* validate_publication_request: neither future-dated nor expired.
Fresh(r) == Issued[r] <= clock /\ clock < Expires[r]

Authorize(i) ==
  /\ item[i].status = "new"
  /\ \/ Fresh(RequestOf[i]) /\ item' = [item EXCEPT ![i].status = "authorized"]
     \/ item' = [item EXCEPT ![i].status = "blocked"]    \* any check may fail
  /\ UNCHANGED <<clock, remote, writer, ledger, attempt, foreign, crashes>>

-----------------------------------------------------------------------------
(* Delivery of an item to an attempt, as AgentStore does it.                *)

Live(i) == item[i].current # 0 /\ clock < attempt[i][item[i].current].lease

\* Mutants: the budget is not looked at; or a spent one is no reason to stop.
ClaimUnbounded(i) ==
  /\ item[i].status = "authorized"
  /\ ~Live(i)
  /\ item' = [item EXCEPT ![i].attempts = @ + 1, ![i].current = @ + 1]
  /\ UNCHANGED <<clock, remote, writer, ledger, attempt, foreign, crashes>>

ClaimOnlyLeft(i) ==
  LET n == item[i].attempts + 1
  IN  /\ item[i].status = "authorized"
      /\ ~Live(i)
      /\ item[i].attempts < MaxAttempts
      /\ item' = [item EXCEPT ![i].attempts = n, ![i].current = n]
      /\ attempt' = [attempt EXCEPT ![i][n] =
           AttemptAt("validate", clock + LeaseSeconds)]
      /\ UNCHANGED <<clock, remote, writer, ledger, foreign, crashes>>

Claim(i) ==
  /\ item[i].status = "authorized"
  /\ ~Live(i)
  /\ IF item[i].attempts < MaxAttempts
     THEN LET n == item[i].attempts + 1
          IN  /\ item' = [item EXCEPT ![i].attempts = n, ![i].current = n]
              /\ attempt' = [attempt EXCEPT ![i][n] =
                   AttemptAt("validate", clock + LeaseSeconds)]
     ELSE /\ item' = [item EXCEPT ![i].status = "dead", ![i].current = 0]
          /\ UNCHANGED attempt
  /\ UNCHANGED <<clock, remote, writer, ledger, foreign, crashes>>

-----------------------------------------------------------------------------
(* The publisher's handler.  Its steps may be taken at any time later.      *)

Goto(i, n, l) == attempt' = [attempt EXCEPT ![i][n].at = l]
Return(i, n, result) ==
  attempt' = [attempt EXCEPT ![i][n].at = "complete", ![i][n].result = result]

\* An exception: after the reservation it is raised again and the attempt
\* fails; before it, and when nothing is executed, it is reported as blocked.
Raise(i, n) ==
  IF i \in Executes /\ attempt[i][n].at \notin {"validate", "reserve"}
  THEN Goto(i, n, "raised") ELSE Return(i, n, "blocked")

KeepShared == UNCHANGED <<clock, remote, writer, ledger, item, foreign, crashes>>

\* Snapshots, record, checkout path (any of which may fail), expiry and lease.
Validate(i, n) ==
  /\ attempt[i][n].at = "validate"
  /\ \/ /\ Fresh(RequestOf[i])
        /\ clock < attempt[i][n].lease
        /\ Goto(i, n, IF i \in Executes THEN "reserve" ELSE "inspect")
     \/ Raise(i, n)
  /\ KeepShared

\* Mutant: an authorization reserved by another run is taken over.
ReservableByAnyone(r, i) == TRUE

\* PublicationLedger.reserve: the row is absent, or exactly this item's.
Reservable(r, i) == ledger[r] # NULL => ledger[r].item = i

Reserve(i, n) ==
  LET r == RequestOf[i]
  IN  /\ attempt[i][n].at = "reserve"
      /\ \/ /\ Reservable(r, i)
            /\ ledger' = [ledger EXCEPT ![r] =
                 IF ledger[r] = NULL THEN [item |-> i, status |-> "reserved"]
                 ELSE ledger[r]]
            /\ Goto(i, n, "inspect")
         \/ /\ ~Reservable(r, i)
            /\ Raise(i, n)
            /\ UNCHANGED ledger
         \* A lock time-out of SQLite is not caught: the attempt fails.
         \/ Goto(i, n, "raised") /\ UNCHANGED ledger
      /\ UNCHANGED <<clock, remote, writer, item, foreign, crashes>>

Minimum(a, b) == IF a <= b THEN a ELSE b

\* Mutant: the lease is left out of the window.
WindowByExpiry(i, n) == Expires[RequestOf[i]] - clock

\* mutation_timeout_seconds: what both deadlines leave, or too little.
Window(i, n) ==
  Minimum(Expires[RequestOf[i]], attempt[i][n].lease) - clock

\* publish_secure_branch up to its first look at the remote: the window, and
\* the local checkout (its branch at the patch, one parent, ancestry, origin).
Inspect(i, n) ==
  /\ attempt[i][n].at = "inspect"
  /\ \/ IF i \in Executes
        THEN Window(i, n) >= MinWindow /\ Goto(i, n, "look")
        ELSE Return(i, n, "planned")
     \/ Raise(i, n)
  /\ KeepShared

\* ls-remote: the patch is there already, or what is expected is, or neither.
Look(i, n) ==
  LET r == RequestOf[i]
  IN  /\ attempt[i][n].at = "look"
      /\ \/ /\ remote = Patch[r]
            /\ attempt' = [attempt EXCEPT ![i][n].at = "mark",
                                          ![i][n].result = "already-published"]
         \/ remote # Patch[r] /\ remote = Expected[r] /\ Goto(i, n, "push")
         \/ Raise(i, n)
      /\ KeepShared

\* The window is taken again, and bounds the push.
Push(i, n) ==
  /\ attempt[i][n].at = "push"
  /\ \/ /\ Window(i, n) >= MinWindow
        /\ attempt' = [attempt EXCEPT
             ![i][n].at = "pushing",
             ![i][n].push = "sent",
             ![i][n].deadline = clock + Minimum(Window(i, n), MaxPush)]
     \/ Raise(i, n)
  /\ KeepShared

\* Mutant: a plain --force.
LandForced(i, n) ==
  LET r == RequestOf[i]
  IN  /\ attempt[i][n].push = "sent"
      /\ remote' = Patch[r]
      /\ writer' = i
      /\ attempt' = [attempt EXCEPT ![i][n].push = "landed"]
      /\ UNCHANGED <<clock, ledger, item, foreign, crashes>>

\* The remote applies the push: --force-with-lease is a compare-and-swap.
Land(i, n) ==
  LET r == RequestOf[i]
  IN  /\ attempt[i][n].push = "sent"
      /\ remote = Expected[r]
      /\ remote' = Patch[r]
      /\ writer' = i
      /\ attempt' = [attempt EXCEPT ![i][n].push = "landed"]
      /\ UNCHANGED <<clock, ledger, item, foreign, crashes>>

\* git push returns: it worked, or there was nothing to do; or it failed or was
\* refused, whether or not it had landed; or it was killed at its deadline, and
\* the remote may still have all it needs to apply it later.
PushReturns(i, n) ==
  LET sent == attempt[i][n].push
      gone == IF sent = "landed" THEN "landed" ELSE "none"
      returns(l, push) ==
        attempt' = [attempt EXCEPT ![i][n].at = l, ![i][n].push = push]
  IN  /\ attempt[i][n].at = "pushing"
      /\ \/ /\ sent = "landed" \/ remote = Patch[RequestOf[i]]
            /\ returns("verify", gone)
         \/ returns("raised", gone)
         \/ clock = attempt[i][n].deadline /\ returns("raised", sent)
      /\ KeepShared

\* ls-remote again: somebody may have moved the branch since.
Verify(i, n) ==
  /\ attempt[i][n].at = "verify"
  /\ \/ /\ remote = Patch[RequestOf[i]]
        /\ attempt' = [attempt EXCEPT ![i][n].at = "mark",
                                      ![i][n].result = "published"]
     \/ Raise(i, n)
  /\ KeepShared

\* Mutant: what was there already is not recorded.
MarkOnlyPushed(i, n) ==
  LET r == RequestOf[i]
  IN  /\ attempt[i][n].at = "mark"
      /\ ledger' = IF attempt[i][n].result = "already-published" THEN ledger
                   ELSE [ledger EXCEPT ![r].status = "published"]
      /\ Goto(i, n, "complete")
      /\ UNCHANGED <<clock, remote, writer, item, foreign, crashes>>

\* mark_published; a second call for the same item changes nothing.
Mark(i, n) ==
  LET r == RequestOf[i]
  IN  /\ attempt[i][n].at = "mark"
      /\ \/ /\ ledger[r] # NULL /\ ledger[r].item = i
            /\ ledger' = [ledger EXCEPT ![r].status = "published"]
            /\ Goto(i, n, "complete")
         \/ Raise(i, n) /\ UNCHANGED ledger
      /\ UNCHANGED <<clock, remote, writer, item, foreign, crashes>>

-----------------------------------------------------------------------------
(* The end of an attempt: complete_work or fail_work of the store, which    *)
(* accept the current attempt only, and refuse it once its lease is over    *)
(* (unless it looked at the clock before: see AgentStore).                  *)

Complete(i, n) ==
  /\ attempt[i][n].at = "complete"
  /\ \/ /\ item[i].current = n
        /\ item' = [item EXCEPT ![i].status = attempt[i][n].result,
                                ![i].current = 0]
     \/ (item[i].current # n \/ ~Live(i)) /\ UNCHANGED item
  /\ Goto(i, n, "over")
  /\ UNCHANGED <<clock, remote, writer, ledger, foreign, crashes>>

Fail(i, n) ==
  /\ attempt[i][n].at = "raised"
  /\ \/ /\ item[i].current = n /\ Live(i)
        /\ item' = [item EXCEPT
             ![i].status = IF item[i].attempts < MaxAttempts THEN @ ELSE "dead",
             ![i].current = 0]
     \/ (item[i].current # n \/ ~Live(i)) /\ UNCHANGED item
  /\ Goto(i, n, "over")
  /\ UNCHANGED <<clock, remote, writer, ledger, foreign, crashes>>

\* The process is killed; a push it started goes on.  The bound leaves the
\* clock room to pass the lease.
Crash(i, n) ==
  /\ attempt[i][n].at \notin {"absent", "over"}
  /\ crashes < MaxCrashes
  /\ clock + LeaseSeconds <= MaxClock
  /\ crashes' = crashes + 1
  /\ Goto(i, n, "over")
  /\ UNCHANGED <<clock, remote, writer, ledger, item, foreign>>

-----------------------------------------------------------------------------
\* Anybody else with access to the repository moves or deletes the branch.
Foreign(v) ==
  /\ foreign < MaxForeign
  /\ foreign' = foreign + 1
  /\ v # remote
  /\ remote' = v
  /\ writer' = NULL
  /\ UNCHANGED <<clock, ledger, item, attempt, crashes>>

\* A push that is waited for is killed when its time is up.
Tick ==
  /\ clock < MaxClock
  /\ \A i \in Item, n \in Number :
       attempt[i][n].at = "pushing" => clock < attempt[i][n].deadline
  /\ clock' = clock + 1
  /\ UNCHANGED <<remote, writer, ledger, item, attempt, foreign, crashes>>

Handler(i, n) ==
  \/ Validate(i, n) \/ Reserve(i, n) \/ Inspect(i, n) \/ Look(i, n)
  \/ Push(i, n) \/ PushReturns(i, n) \/ Verify(i, n) \/ Mark(i, n)
  \/ Complete(i, n) \/ Fail(i, n)

Next ==
  \/ Tick
  \/ \E v \in Sha : Foreign(v)
  \/ \E i \in Item : Authorize(i) \/ Claim(i)
  \/ \E i \in Item, n \in Number : Handler(i, n) \/ Land(i, n) \/ Crash(i, n)

Spec == Init /\ [][Next]_vars

\* Time passes, a process that is not killed goes on, and drains go on claiming.
Fairness ==
  /\ WF_vars(Tick)
  /\ \A i \in Item :
       /\ WF_vars(Authorize(i)) /\ WF_vars(Claim(i))
       /\ \A n \in Number : WF_vars(Handler(i, n))

FairSpec == Spec /\ Fairness

-----------------------------------------------------------------------------
ItemRow ==
  [status : ItemStatus, current : 0..MaxAttempts, attempts : 0..MaxAttempts]
AttemptRow ==
  [at : Place, lease : 0..(MaxClock + LeaseSeconds), result : Outcome,
   push : PushState, deadline : Int]

TypeOK ==
  /\ clock \in 0..MaxClock
  /\ remote \in Sha
  /\ writer \in Item \cup {NULL}
  /\ ledger \in [Request -> LedgerRow \cup {NULL}]
  /\ item \in [Item -> ItemRow]
  /\ attempt \in [Item -> [Number -> AttemptRow]]
  /\ foreign \in 0..MaxForeign
  /\ crashes \in 0..MaxCrashes

\* The two databases agree: an item that the store of its run shows as having
\* published is the one the ledger names, and the ledger has it as published,
\* although a crash may come between the push, the mark and the completion.
SuccessIsRecorded ==
  \A i \in Item :
    item[i].status \in {"published", "already-published"} =>
      ledger[RequestOf[i]] = [item |-> i, status |-> "published"]

\* Replay: a request is never pushed, not even by a push whose process was
\* killed, on behalf of an item that the ledger does not name, and two items
\* of the same request are never both past the reservation.
OneConsumer ==
  \A i \in Item :
    (\E n \in Number :
       \/ attempt[i][n].push # "none"
       \/ i \in Executes /\ attempt[i][n].at \in
            {"inspect", "look", "push", "pushing", "verify", "mark"})
      => ledger[RequestOf[i]] # NULL /\ ledger[RequestOf[i]].item = i

\* "rechecks authorization and worker deadlines immediately before a
\* timeout-bounded push" (docs/AGENT_RUNTIME.md): unless its process was killed
\* and left it behind, a push changes the remote only while the request is
\* authorized and the attempt holds its lease.  The same goes for a push that
\* was killed at its deadline when the remote had already received it.
InWindow(i, n) ==
  attempt[i][n].push = "sent" /\ attempt'[i][n].push = "landed"
    /\ attempt[i][n].at = "pushing"
    => clock <= Expires[RequestOf[i]] /\ clock <= attempt[i][n].lease

MutationWindow == [][\A i \in Item, n \in Number : InWindow(i, n)]_vars

Promise ==
  INSTANCE OneTimeAuthorization WITH
    holder <- [r \in Request |->
                 IF ledger[r] = NULL THEN NULL ELSE ledger[r].item]

\* The lane implements the one-time authorization, whatever crashes, retries,
\* replays and foreign pushes do.
ImplementsAuthorization == Promise!Spec

\* Every item is decided.
ItemsAreDecided ==
  \A i \in Item : <>(item[i].status \notin {"new", "authorized"})

\* "Retry after local commit or remote push recognizes the exact approved
\* state" (docs/WBS_EXECUTION_PLAN.md): an item that is reported as blocked,
\* with executed False, has not changed the remote.
BlockedIsUntouched ==
  \A i \in Item, n \in Number :
    item[i].status = "blocked" => attempt[i][n].push # "landed"
=============================================================================
