----------------------------- MODULE MCRecovery -----------------------------
(***************************************************************************)
(* Two of the program's processes that somebody has to repeat until they   *)
(* are done, side by side and not interacting: the publication of one      *)
(* request (Publication) and the application of a fork plan              *)
(* (MCForkLifecycle).  A behaviour is one of the first or one of the       *)
(* second.                                                                 *)
(***************************************************************************)
EXTENDS MCForkLifecycle

CONSTANTS
  first, i1, i2, commit1, commit2,
  Request, Item, RequestOf, Executes, Patch, Expected, Issued, Expires, Commit,
  MaxAttempts, LeaseSeconds, MinWindow, MaxPush, MaxClock, MaxForeign, MaxCrashes

VARIABLES
  process,    \* which of the two
  clock, branch, writer, ledger, item, attempt, foreign, crashes

publishing == <<clock, branch, writer, ledger, item, attempt, foreign, crashes>>

both == <<process, publishing, vars>>

P == INSTANCE Publication WITH remote <- branch

\* MCPublication's instance of it: one request in the runs of two items.
ThePatch == first :> commit2
TheExpected == first :> commit1
TheIssued == first :> 0
TheExpires == first :> 2
TheRequest == (i1 :> first) @@ (i2 :> first)

Publishes(A) == process = "publication" /\ A /\ UNCHANGED <<process, vars>>
Applies(A) == process = "forks" /\ A /\ UNCHANGED <<process, publishing>>

RecoveryInit == process \in {"publication", "forks"} /\ Init /\ P!Init

RecoveryNext == Publishes(P!Next) \/ Applies(Next)

\* The fairness of each, for its own behaviours.
RecoverySpec ==
  /\ RecoveryInit /\ [][RecoveryNext]_both
  /\ WF_both(Applies(StartFork(Operator, Wanted)))
  /\ \A c \in Process : WF_both(Applies(Step(c)))
  /\ WF_both(Publishes(P!Tick))
  /\ \A i \in Item :
       /\ WF_both(Publishes(P!Authorize(i))) /\ WF_both(Publishes(P!Claim(i)))
       /\ \A n \in P!Number : WF_both(Publishes(P!Handler(i, n)))

\* ForkLifecycle!RepetitionConverges, for the behaviours it is about: whoever
\* repeats apply-fork-plan finds every fork of the plan verified in the end.
ForksConverge == process = "forks" => RepetitionConverges

\* Publication!ItemsAreDecided, likewise: every publication ends in a decision,
\* although the process that holds its lease is killed.
ItemsAreDecided == process = "publication" => P!ItemsAreDecided
=============================================================================
