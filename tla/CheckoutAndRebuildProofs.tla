--------------------- MODULE CheckoutAndRebuildProofs ---------------------
(***************************************************************************)
(* Proofs about two lanes.                                                 *)
(*                                                                         *)
(* ManagedCheckout, for any number of reconciliations, patch items and     *)
(* approvals, and any history of upstream.                                 *)
(*                                                                         *)
(* RebuildLane, for any bundles, any outcome of their verification and any *)
(* number of starts, attempts and expired leases.  That a candidate is one *)
(* build made twice follows from what every attempt has verified by the    *)
(* time it comes to a place, and from the fact that only reports of such   *)
(* attempts are ever in the file (RebuildInvariant).  That one undisturbed *)
(* start comes to a candidate needs the whole history of that start: what  *)
(* is staged, found and verified is what was asked for (SteadyInvariant).  *)
(***************************************************************************)
EXTENDS ManagedCheckout, RebuildLane, TLAPS

-----------------------------------------------------------------------------
(* The managed checkout.                                                    *)


\* A commit that may be part of the secure branch: if it was built for an
\* approval, then for one whose base contains what it requires.
Known(r) == r \in Approval => approval[r] # NULL /\ Contained(r)

\* What an approval says its base contains is what it does contain.
HistoryInv ==
  \A a \in Approval : approval[a] # NULL =>
    /\ approval[a].base \in approval[a].history
    /\ \A x \in approval[a].history :
         Known(x) /\ Reachable(x) \subseteq approval[a].history

RefInv ==
  /\ Known(secure)
  /\ \A s \in Sync : Known(sync[s].secure)
  /\ \A x \in removed : Known(x)

SyncInv(s) ==
  /\ sync[s].at \in {"fetch", "read"} => source \in sync[s].seen
  /\ sync[s].at = "read" => tracking \in sync[s].seen
  /\ sync[s].at \notin {"idle", "fetch", "review"} => tracking # NULL
  /\ sync[s].at \notin {"idle", "fetch", "read", "review"} =>
       sync[s].upstream \in sync[s].seen
  /\ sync[s].at \in {"compare", "ready"} => sync[s].secure # NULL

OnBranch(x) == x \in Reachable(secure) \cup removed

PatchInv(p) ==
  /\ patch[p].at # "idle" =>
       patch[p].approval \in Approval /\ approval[patch[p].approval] # NULL
  /\ patch[p].result # "none" => patch[p].at = "done"
  /\ patch[p].at \in {"cas", "actual", "verify"} => Contained(patch[p].approval)
  /\ patch[p].at = "verify" => OnBranch(patch[p].approval)
  /\ patch[p].result \in Success => OnBranch(PatchSha(p))

IInv ==
  /\ TypeOK
  /\ HistoryInv
  /\ RefInv
  /\ \A s \in Sync : SyncInv(s)
  /\ \A p \in Patcher : PatchInv(p)

-----------------------------------------------------------------------------
(* What git's reachability is worth.                                        *)

LEMMA ReachableInSha == ASSUME TypeOK, NEW r \in Ref
                        PROVE  Reachable(r) \subseteq Sha
  BY CommitAssumption DEF TypeOK, Reachable, Sha, Ref, ApprovalState

LEMMA ReachableSelf == ASSUME TypeOK, NEW r \in Sha, Known(r)
                       PROVE  r \in Reachable(r)
  BY CommitAssumption DEF TypeOK, Reachable, Sha, Known

\* Whatever can be reached from a known commit is known, and so is what can be
\* reached from there.
LEMMA ReachableClosed ==
  ASSUME TypeOK, HistoryInv, NEW r \in Ref, Known(r), NEW x \in Reachable(r)
  PROVE  Known(x) /\ Reachable(x) \subseteq Reachable(r)
<1>1. CASE r \in Commit
  <2>1. x \in Ancestors[r] /\ Reachable(r) = Ancestors[r]
    BY <1>1 DEF Reachable
  <2>2. x \in Commit /\ Ancestors[x] \subseteq Ancestors[r]
    BY <1>1, <2>1, CommitAssumption
  <2> QED
    BY <2>1, <2>2, NameAssumption DEF Reachable, Known
<1>2. CASE r \in Approval
  <2>1. /\ approval[r] # NULL
        /\ Reachable(r) = approval[r].history \cup {r}
    BY <1>2, NameAssumption DEF Reachable, Known
  <2>2. CASE x = r
    BY <2>2
  <2>3. CASE x \in approval[r].history
    BY <1>2, <2>1, <2>3 DEF HistoryInv
  <2> QED
    BY <2>1, <2>2, <2>3
<1>3. CASE r = NULL
  BY <1>3, NameAssumption DEF Reachable, Sha
<1> QED
  BY <1>1, <1>2, <1>3 DEF Ref, Sha

-----------------------------------------------------------------------------
LEMMA InitIInv == Init => IInv
<1> SUFFICES ASSUME Init PROVE IInv
  OBVIOUS
<1>1. TypeOK
  <2>1. SyncAt("idle", {}) \in SyncState
    BY DEF SyncAt, SyncState, SyncPlace, Ref
  <2>2. [at |-> "idle", approval |-> NULL, result |-> "none"] \in PatchState
    BY DEF PatchState, PatchPlace, Action
  <2> QED
    BY <2>1, <2>2, BoundsAssumption DEF Init, TypeOK, Ref
<1>2. HistoryInv
  BY DEF Init, HistoryInv
<1>3. RefInv
  BY NameAssumption DEF Init, RefInv, Known, Sha, SyncAt
<1>4. \A s \in Sync : SyncInv(s)
  BY DEF Init, SyncInv, SyncAt
<1>5. \A p \in Patcher : PatchInv(p)
  BY DEF Init, PatchInv, Success
<1> QED
  BY <1>1, <1>2, <1>3, <1>4, <1>5 DEF IInv

-----------------------------------------------------------------------------
(* Types.                                                                   *)

LEMMA TypeSync ==
  ASSUME TypeOK, NEW s \in Sync,
         \/ StartSync(s) \/ Fetch(s) \/ ReadUpstream(s) \/ MoveMirror(s)
         \/ ReadSecure(s) \/ CreateSecure(s) \/ RereadSecure(s) \/ Compare(s)
         \/ SyncFails(s)
  PROVE  TypeOK'
<1> USE DEF TypeOK, others
<1>1. \A place \in SyncPlace, seen \in SUBSET Commit :
        SyncAt(place, seen) \in SyncState
  BY DEF SyncAt, SyncState, Ref
<1>2. sync' \in [Sync -> SyncState]
  <2>1. CASE StartSync(s) \/ SyncFails(s)
    BY <1>1, <2>1 DEF StartSync, SyncFails, SyncPlace
  <2>2. CASE Fetch(s) \/ MoveMirror(s) \/ ReadSecure(s) \/ CreateSecure(s)
    BY <2>2
    DEF Fetch, MoveMirror, ReadSecure, CreateSecure, SyncState, SyncPlace
  <2>3. CASE ReadUpstream(s) \/ RereadSecure(s)
    BY <2>3 DEF ReadUpstream, RereadSecure, SyncState, SyncPlace, Ref
  <2>4. CASE Compare(s)
    BY <1>1, <2>4 DEF Compare, SyncState, SyncPlace
  <2> QED
    BY <2>1, <2>2, <2>3, <2>4
<1> QED
  BY <1>2
  DEF StartSync, Fetch, ReadUpstream, MoveMirror, ReadSecure, CreateSecure,
      RereadSecure, Compare, SyncFails, Ref, Sha

LEMMA TypeApprove ==
  ASSUME TypeOK, NEW s \in Sync, SyncInv(s), NEW a \in Approval, Approve(s, a)
  PROVE  TypeOK'
<1>1. sync[s].secure \in Sha /\ sync[s].upstream \in Commit
  BY DEF Approve, TypeOK, SyncInv, SyncState, Ref
<1>2. Reachable(sync[s].secure) \subseteq Sha
  BY <1>1, ReachableInSha DEF Ref
<1>3. approval' \in [Approval -> ApprovalState \cup {NULL}]
  BY <1>1, <1>2 DEF Approve, TypeOK, ApprovalState
<1> QED
  BY <1>3 DEF Approve, TypeOK, others

LEMMA TypePatch ==
  ASSUME TypeOK, NEW p \in Patcher, PatchInv(p),
         \/ \E a \in Approval : StartPatch(p, a)
         \/ Gate(p) \/ Inspect(p) \/ Cas(p) \/ CasFails(p) \/ Actual(p)
         \/ Verify(p) \/ Block(p) \/ Retry(p)
  PROVE  TypeOK'
<1> USE DEF TypeOK, others
<1>1. patch' \in [Patcher -> PatchState]
  BY DEF StartPatch, Gate, Inspect, Cas, CasFails, Actual, Verify, Block, Retry,
         Goto, Report, PatchState, PatchPlace, Action
<1>2. secure' \in Ref
  BY DEF StartPatch, Gate, Inspect, Cas, CasFails, Actual, Verify, Block, Retry,
         PatchInv, Ref, Sha
<1> QED
  BY <1>1, <1>2
  DEF StartPatch, Gate, Inspect, Cas, CasFails, Actual, Verify, Block, Retry

LEMMA TypeOthers ==
  ASSUME TypeOK, \/ \E c \in Commit : UpstreamMoves(c)
                 \/ \E r \in Ref : ByHand(r)
  PROVE  TypeOK'
<1> USE DEF TypeOK
<1>1. ASSUME NEW c \in Commit, UpstreamMoves(c) PROVE TypeOK'
  <2>1. sync' \in [Sync -> SyncState]
    BY <1>1 DEF UpstreamMoves, SyncState
  <2> QED
    BY <1>1, <2>1, BoundsAssumption DEF UpstreamMoves
<1>2. ASSUME NEW r \in Ref, ByHand(r) PROVE TypeOK'
  BY <1>2, BoundsAssumption, ReachableInSha DEF ByHand
<1> QED
  BY <1>1, <1>2

LEMMA TypeStep == IInv /\ [Next]_vars => TypeOK'
<1> SUFFICES ASSUME IInv, [Next]_vars PROVE TypeOK'
  OBVIOUS
<1>1. CASE UNCHANGED vars
  BY <1>1 DEF IInv, TypeOK, vars
<1> QED
  BY <1>1, TypeSync, TypeApprove, TypePatch, TypeOthers DEF Next, IInv

-----------------------------------------------------------------------------
(* Approvals, once given, are immutable, so what is known stays known and   *)
(* contains what it did.                                                    *)

LEMMA ApprovalStep ==
  ASSUME TypeOK, [Next]_vars, NEW a \in Approval, approval[a] # NULL
  PROVE  approval'[a] = approval[a]
<1>1. CASE \E s \in Sync, b \in Approval : Approve(s, b)
  BY <1>1 DEF Approve, TypeOK
<1>2. CASE UNCHANGED approval
  BY <1>2
<1> QED
  BY <1>1, <1>2
  DEF Next, vars, StartSync, Fetch, ReadUpstream, MoveMirror, ReadSecure,
      CreateSecure, RereadSecure, Compare, SyncFails, StartPatch, Gate, Inspect,
      Cas, CasFails, Actual, Verify, Block, Retry, UpstreamMoves, ByHand

LEMMA KnownStays ==
  ASSUME TypeOK, [Next]_vars, NEW r, Known(r)
  PROVE  Known(r)' /\ Reachable(r)' = Reachable(r)
<1>1. CASE r \in Approval
  BY <1>1, ApprovalStep DEF Known, Reachable, Contained
<1>2. CASE r \notin Approval
  BY <1>2 DEF Known, Reachable
<1> QED
  BY <1>1, <1>2

LEMMA HistoryStep == IInv /\ [Next]_vars => HistoryInv'
<1> SUFFICES ASSUME IInv, [Next]_vars, NEW a \in Approval, approval'[a] # NULL
             PROVE  /\ approval'[a].base \in approval'[a].history
                    /\ \A x \in approval'[a].history :
                         Known(x)' /\ Reachable(x)' \subseteq approval'[a].history
  BY DEF HistoryInv
<1> USE DEF IInv
<1>1. CASE approval[a] # NULL
  <2>1. approval'[a] = approval[a]
    BY <1>1, ApprovalStep
  <2> QED
    BY <1>1, <2>1, KnownStays DEF HistoryInv
<1>2. CASE approval[a] = NULL
  <2>1. PICK s \in Sync : Approve(s, a)
    <3>1. CASE \E s \in Sync, b \in Approval : Approve(s, b)
      BY <1>2, <3>1 DEF Approve, TypeOK
    <3>2. CASE UNCHANGED approval
      BY <1>2, <3>2
    <3> QED
      BY <3>1, <3>2
      DEF Next, vars, StartSync, Fetch, ReadUpstream, MoveMirror, ReadSecure,
          CreateSecure, RereadSecure, Compare, SyncFails, StartPatch, Gate,
          Inspect, Cas, CasFails, Actual, Verify, Block, Retry, UpstreamMoves,
          ByHand
  <2> DEFINE base == sync[s].secure
  <2>2. base \in Sha /\ Known(base)
    BY <2>1 DEF Approve, TypeOK, SyncInv, SyncState, Ref, RefInv
  <2>3. approval'[a].base = base /\ approval'[a].history = Reachable(base)
    BY <2>1 DEF Approve, TypeOK
  <2>4. base \in Reachable(base)
    BY <2>2, ReachableSelf
  <2>5. ASSUME NEW x \in Reachable(base)
        PROVE  Known(x)' /\ Reachable(x)' \subseteq Reachable(base)
    BY <2>2, ReachableClosed, KnownStays DEF Ref
  <2> HIDE DEF base
  <2> QED
    BY <2>3, <2>4, <2>5
<1> QED
  BY <1>1, <1>2

-----------------------------------------------------------------------------
(* The secure branch.                                                       *)

\* The three ways in which the secure branch moves: it is created, it becomes
\* the approved commit of which it was the base, or it is moved by hand.
LEMMA SecureStep ==
  ASSUME IInv, [Next]_vars
  PROVE  \/ UNCHANGED <<secure, removed>>
         \/ secure = NULL /\ secure' \in Commit /\ removed' = removed
         \/ \E a \in Approval :
              /\ approval[a] # NULL /\ Contained(a)
              /\ secure = approval[a].base /\ secure' = a
              /\ removed' = removed
         \/ \E r \in Commit \cup removed \cup {NULL} :
              /\ secure' = r
              /\ removed' = removed \cup (Reachable(secure) \ Reachable(r))
<1>1. ASSUME NEW s \in Sync, CreateSecure(s)
      PROVE  secure = NULL /\ secure' \in Commit /\ removed' = removed
  BY <1>1 DEF CreateSecure, IInv, TypeOK, SyncInv, others
<1>2. ASSUME NEW p \in Patcher, Cas(p)
      PROVE  \E a \in Approval :
               /\ approval[a] # NULL /\ Contained(a)
               /\ secure = approval[a].base /\ secure' = a
               /\ removed' = removed
  BY <1>2 DEF Cas, Base, IInv, PatchInv, others
<1>3. ASSUME NEW r \in Ref, ByHand(r)
      PROVE  /\ r \in Commit \cup removed \cup {NULL}
             /\ secure' = r
             /\ removed' = removed \cup (Reachable(secure) \ Reachable(r))
  BY <1>3 DEF ByHand
<1>4. CASE UNCHANGED <<secure, removed>>
  BY <1>4
<1> QED
  BY <1>1, <1>2, <1>3, <1>4
  DEF Next, vars, others, StartSync, Fetch, ReadUpstream, MoveMirror,
      ReadSecure, RereadSecure, Compare, SyncFails, Approve, StartPatch, Gate,
      Inspect, CasFails, Actual, Verify, Block, Retry, UpstreamMoves

\* What is on the branch is still there, or was taken off by hand.
LEMMA BranchKeeps ==
  ASSUME IInv, [Next]_vars, NEW x, OnBranch(x)
  PROVE  OnBranch(x)'
<1> USE DEF IInv
<1>1. PICK c \in Ref : c = secure
  BY DEF TypeOK
<1>2. Known(c) /\ Reachable(c)' = Reachable(c)
  BY <1>1, KnownStays DEF RefInv
<1>3. CASE UNCHANGED <<secure, removed>>
  BY <1>1, <1>2, <1>3 DEF OnBranch
<1>4. CASE secure = NULL /\ removed' = removed
  BY <1>4, NameAssumption DEF OnBranch, Reachable, Sha
<1>5. ASSUME NEW a \in Approval,
             approval[a] # NULL, secure = approval[a].base, secure' = a,
             removed' = removed
      PROVE  OnBranch(x)'
  <2>1. Reachable(c) \subseteq approval[a].history
    BY <1>1, <1>5 DEF HistoryInv
  <2>2. approval'[a] = approval[a]
    BY <1>5, ApprovalStep
  <2>3. approval[a].history \subseteq Reachable(a)'
    BY <1>5, <2>2, NameAssumption DEF Reachable
  <2> QED
    BY <1>1, <1>5, <2>1, <2>3 DEF OnBranch
<1>6. ASSUME NEW r \in Commit \cup removed \cup {NULL}, secure' = r,
             removed' = removed \cup (Reachable(secure) \ Reachable(r))
      PROVE  OnBranch(x)'
  <2>1. Known(r)
    BY <1>6, NameAssumption DEF RefInv, Known, Sha
  <2>2. Reachable(r)' = Reachable(r)
    BY <2>1, KnownStays
  <2> QED
    BY <1>6, <2>2 DEF OnBranch
<1> QED
  BY <1>3, <1>4, <1>5, <1>6, SecureStep

LEMMA RefStep == IInv /\ [Next]_vars => RefInv'
<1> SUFFICES ASSUME IInv, [Next]_vars PROVE RefInv'
  OBVIOUS
<1> USE DEF IInv
<1>1. ASSUME NEW r, Known(r) PROVE Known(r)'
  BY <1>1, KnownStays
<1>2. PICK c \in Ref : c = secure
  BY DEF TypeOK
<1>3. PICK d : d = secure'
  OBVIOUS
<1>4. Known(c)
  BY <1>2 DEF RefInv
<1>5. Known(d) /\ \A x \in removed' : Known(x)
  <2>1. CASE UNCHANGED <<secure, removed>>
    BY <1>2, <1>3, <1>4, <2>1 DEF RefInv
  <2>2. CASE secure' \in Commit /\ removed' = removed
    BY <1>3, <2>2, NameAssumption DEF RefInv, Known
  <2>3. ASSUME NEW a \in Approval, approval[a] # NULL, Contained(a),
               secure' = a, removed' = removed
        PROVE  Known(d) /\ \A x \in removed' : Known(x)
    BY <1>3, <2>3 DEF RefInv, Known
  <2>4. ASSUME NEW r \in Commit \cup removed \cup {NULL}, secure' = r,
               removed' = removed \cup (Reachable(secure) \ Reachable(r))
        PROVE  Known(d) /\ \A x \in removed' : Known(x)
    <3>1. Known(r)
      BY NameAssumption DEF RefInv, Known, Sha
    <3>2. \A x \in Reachable(c) : Known(x)
      BY <1>2, <1>4, ReachableClosed
    <3> QED
      BY <1>2, <1>3, <2>4, <3>1, <3>2 DEF RefInv
  <2> QED
    BY <2>1, <2>2, <2>3, <2>4, SecureStep
<1>6. ASSUME NEW s \in Sync, NEW e, e = sync'[s].secure PROVE Known(e)
  <2>1. NULL \notin Approval
    BY NameAssumption DEF Sha
  <2>2. ASSUME NEW t \in Sync,
               \/ StartSync(t) \/ Fetch(t) \/ ReadUpstream(t) \/ MoveMirror(t)
               \/ ReadSecure(t) \/ CreateSecure(t) \/ RereadSecure(t)
               \/ Compare(t) \/ SyncFails(t)
        PROVE  e \in {sync[s].secure, secure, NULL}
    BY <1>6, <2>2
    DEF TypeOK, SyncState, SyncAt, StartSync, Fetch, ReadUpstream, MoveMirror,
        ReadSecure, CreateSecure, RereadSecure, Compare, SyncFails
  <2>3. ASSUME NEW a \in Commit, UpstreamMoves(a) PROVE e = sync[s].secure
    BY <1>6, <2>3 DEF TypeOK, SyncState, UpstreamMoves
  <2>4. ASSUME UNCHANGED sync PROVE e = sync[s].secure
    BY <1>6, <2>4
  <2>5. e \in {sync[s].secure, secure, NULL}
    BY <2>2, <2>3, <2>4
    DEF Next, vars, Approve, StartPatch, Gate, Inspect, Cas, CasFails, Actual,
        Verify, Block, Retry, ByHand
  <2> QED
    BY <2>1, <2>5 DEF RefInv, Known
<1> QED
  BY <1>1, <1>3, <1>5, <1>6 DEF RefInv

-----------------------------------------------------------------------------
(* What a reconciliation knows.                                             *)

LEMMA SyncStep ==
  ASSUME IInv, [Next]_vars, NEW s \in Sync
  PROVE  SyncInv(s)'
<1> USE DEF IInv
<1>1. ASSUME NEW t \in Sync,
             \/ StartSync(t) \/ Fetch(t) \/ ReadUpstream(t) \/ MoveMirror(t)
             \/ ReadSecure(t) \/ CreateSecure(t) \/ RereadSecure(t)
             \/ Compare(t) \/ SyncFails(t)
      PROVE  SyncInv(s)'
  <2>1. SyncInv(s) /\ SyncInv(t)
    OBVIOUS
  <2>2. CASE t = s
    BY <1>1, <2>1, <2>2, NameAssumption
    DEF SyncInv, TypeOK, SyncState, SyncAt, StartSync, Fetch, ReadUpstream,
        MoveMirror, ReadSecure, CreateSecure, RereadSecure, Compare, SyncFails,
        others, Sha
  <2>3. CASE t # s
    <3>1. sync'[s] = sync[s] /\ source' = source
      BY <1>1, <2>3
      DEF TypeOK, StartSync, Fetch, ReadUpstream, MoveMirror, ReadSecure,
          CreateSecure, RereadSecure, Compare, SyncFails, others
    <3>2. tracking' \in {tracking, source} /\ source \in Commit
      BY <1>1
      DEF TypeOK, StartSync, Fetch, ReadUpstream, MoveMirror, ReadSecure,
          CreateSecure, RereadSecure, Compare, SyncFails, others
    <3> QED
      BY <2>1, <3>1, <3>2, NameAssumption DEF SyncInv, Sha
  <2> QED
    BY <2>2, <2>3
<1>2. ASSUME NEW c \in Commit, UpstreamMoves(c) PROVE SyncInv(s)'
  BY <1>2 DEF SyncInv, TypeOK, SyncState, UpstreamMoves
<1>3. ASSUME UNCHANGED <<source, tracking, sync>> PROVE SyncInv(s)'
  BY <1>3 DEF SyncInv
<1> QED
  BY <1>1, <1>2, <1>3
  DEF Next, vars, others, Approve, StartPatch, Gate, Inspect, Cas, CasFails,
      Actual, Verify, Block, Retry, ByHand

-----------------------------------------------------------------------------
(* What a patch item knows.                                                 *)

\* An item that takes no step keeps what it knows.
LEMMA PatchStable ==
  ASSUME IInv, [Next]_vars, NEW p \in Patcher, patch'[p] = patch[p]
  PROVE  PatchInv(p)'
<1> USE DEF IInv
<1>1. patch[p] \in PatchState /\ PatchInv(p)
  BY DEF TypeOK
<1>2. CASE patch[p].at = "idle"
  <2>1. patch[p].result \notin Success
    BY <1>1, <1>2 DEF PatchInv, Success
  <2> QED
    BY <1>1, <1>2, <2>1 DEF PatchInv
<1>3. CASE patch[p].at # "idle"
  <2>1. PICK a \in Approval : a = patch[p].approval
    BY <1>1, <1>3 DEF PatchInv
  <2>2. approval[a] # NULL /\ approval'[a] = approval[a]
    BY <1>1, <1>3, <2>1, ApprovalStep DEF PatchInv
  <2>3. PICK b : b = PatchSha(p)
    OBVIOUS
  <2>4. b = PatchSha(p)'
    BY <2>1, <2>2, <2>3 DEF PatchSha, Base
  <2>5. OnBranch(a) => OnBranch(a)'
    BY BranchKeeps
  <2>6. OnBranch(b) => OnBranch(b)'
    BY BranchKeeps
  <2> QED
    BY <1>1, <1>3, <2>1, <2>2, <2>3, <2>4, <2>5, <2>6 DEF PatchInv, Contained
<1> QED
  BY <1>2, <1>3

LEMMA PatchOwnStep ==
  ASSUME IInv, [Next]_vars, NEW p \in Patcher,
         \/ \E a \in Approval : StartPatch(p, a)
         \/ Gate(p) \/ Inspect(p) \/ Cas(p) \/ CasFails(p) \/ Actual(p)
         \/ Verify(p) \/ Block(p) \/ Retry(p)
  PROVE  PatchInv(p)'
<1> USE DEF IInv, others
<1>1. patch[p] \in PatchState /\ patch \in [Patcher -> PatchState] /\ PatchInv(p)
  BY DEF TypeOK
<1>2. approval' = approval
  BY DEF StartPatch, Gate, Inspect, Cas, CasFails, Actual, Verify, Block, Retry
<1>3. ASSUME NEW a \in Approval, StartPatch(p, a) PROVE PatchInv(p)'
  <2>1. /\ patch'[p].approval = a /\ patch'[p].at = "gate"
        /\ patch'[p].result = "none"
    BY <1>1, <1>3 DEF StartPatch, PatchInv, PatchState
  <2> QED
    BY <1>2, <1>3, <2>1 DEF StartPatch, PatchInv, Success
<1>4. CASE patch[p].at # "idle"
  <2>1. PICK a \in Approval : a = patch[p].approval /\ approval[a] # NULL
    BY <1>1, <1>4 DEF PatchInv
  <2>2. PICK c \in Ref : c = secure
    BY DEF TypeOK
  <2>3. c # NULL => c \in Reachable(c)
    BY <2>2, ReachableSelf DEF RefInv, Ref
  <2>4. CASE Gate(p) \/ CasFails(p) \/ Block(p) \/ Retry(p)
    BY <1>1, <1>2, <2>1, <2>4
    DEF Gate, CasFails, Block, Retry, Goto, Report, PatchInv, PatchState,
        Success, Contained
  <2>5. CASE Inspect(p)
    <3>1. c # NULL /\ UNCHANGED <<secure, removed>>
      BY <1>1, <2>1, <2>2, <2>5, NameAssumption
      DEF Inspect, Base, TypeOK, ApprovalState, Ref, Sha
    <3>2. OnBranch(c)'
      BY <1>2, <2>2, <2>3, <3>1 DEF OnBranch, Reachable
    <3>3. CASE secure = a /\ Report(p, "reused-approved-commit")
      BY <1>1, <1>2, <2>1, <2>2, <3>2, <3>3
      DEF Report, PatchInv, PatchState, PatchSha, Success
    <3>4. CASE secure = Base(p) /\ Report(p, "already-present")
      BY <1>1, <1>2, <2>1, <2>2, <3>2, <3>4
      DEF Report, PatchInv, PatchState, PatchSha, Base, Success
    <3>5. CASE Report(p, "planned")
      BY <1>1, <1>2, <2>1, <3>5 DEF Report, PatchInv, PatchState, Success
    <3>6. CASE Contained(a) /\ Goto(p, "cas") /\ patch[p].at = "inspect"
      BY <1>1, <1>2, <2>1, <3>6
      DEF Goto, PatchInv, PatchState, Success, Contained
    <3> QED
      BY <2>1, <2>5, <3>3, <3>4, <3>5, <3>6 DEF Inspect
  <2>6. CASE Cas(p)
    <3>1. secure' = a
      BY <2>1, <2>6 DEF Cas
    <3>2. OnBranch(a)'
      BY <1>2, <2>1, <3>1, NameAssumption DEF OnBranch, Reachable
    <3> QED
      BY <1>1, <1>2, <2>1, <2>6, <3>2
      DEF Cas, Goto, PatchInv, PatchState, Success, Contained
  <2>7. CASE Actual(p)
    <3>1. c = a /\ UNCHANGED <<secure, removed>>
      BY <2>1, <2>2, <2>7 DEF Actual
    <3>2. OnBranch(a)'
      BY <1>2, <2>2, <2>3, <3>1, NameAssumption DEF OnBranch, Reachable, Sha
    <3> QED
      BY <1>1, <1>2, <2>1, <2>7, <3>2
      DEF Actual, Goto, PatchInv, PatchState, Success, Contained
  <2>8. CASE Verify(p)
    <3>1. OnBranch(a)
      BY <1>1, <2>1, <2>8 DEF Verify, PatchInv
    <3>2. OnBranch(a)'
      BY <3>1, BranchKeeps
    <3> QED
      BY <1>1, <1>2, <2>1, <2>8, <3>2
      DEF Verify, Report, PatchInv, PatchState, PatchSha, Success
  <2> QED
    BY <1>4, <2>4, <2>5, <2>6, <2>7, <2>8 DEF StartPatch
<1> QED
  BY <1>1, <1>3, <1>4
  DEF Gate, Inspect, Cas, CasFails, Actual, Verify, Block, Retry

LEMMA PatchStep ==
  ASSUME IInv, [Next]_vars, NEW p \in Patcher
  PROVE  PatchInv(p)'
<1>1. ASSUME NEW q \in Patcher,
             \/ \E a \in Approval : StartPatch(q, a)
             \/ Gate(q) \/ Inspect(q) \/ Cas(q) \/ CasFails(q) \/ Actual(q)
             \/ Verify(q) \/ Block(q) \/ Retry(q)
      PROVE  PatchInv(p)'
  <2>1. CASE q = p
    BY <1>1, <2>1, PatchOwnStep
  <2>2. CASE q # p
    <3>1. patch'[p] = patch[p]
      BY <1>1, <2>2
      DEF IInv, TypeOK, StartPatch, Gate, Inspect, Cas, CasFails, Actual,
          Verify, Block, Retry, Goto, Report
    <3> QED
      BY <3>1, PatchStable
  <2> QED
    BY <2>1, <2>2
<1>2. ASSUME patch' = patch PROVE PatchInv(p)'
  BY <1>2, PatchStable
<1> QED
  BY <1>1, <1>2
  DEF Next, vars, StartSync, Fetch, ReadUpstream, MoveMirror, ReadSecure,
      CreateSecure, RereadSecure, Compare, SyncFails, Approve, UpstreamMoves,
      ByHand

-----------------------------------------------------------------------------
LEMMA Inductive == IInv /\ [Next]_vars => IInv'
<1> SUFFICES ASSUME IInv, [Next]_vars PROVE IInv'
  OBVIOUS
<1>1. TypeOK' /\ HistoryInv' /\ RefInv'
  BY TypeStep, HistoryStep, RefStep
<1>2. \A s \in Sync : SyncInv(s)'
  BY SyncStep
<1>3. \A p \in Patcher : PatchInv(p)'
  BY PatchStep
<1> QED
  BY <1>1, <1>2, <1>3 DEF IInv

LEMMA Invariant == Spec => []IInv
  BY InitIInv, Inductive, PTL DEF Spec

\* Every ref and every value the two programs hold is what it is used as; in
\* particular a run that reports its reconciliation has found a secure branch.
THEOREM TypeCorrect == Spec => []TypeOK
<1>1. IInv => TypeOK
  BY DEF IInv
<1> QED
  BY <1>1, Invariant, PTL

\* The commit of a patch result (secure_commit_sha) is never lost by what
\* reconcile_repository and apply_secure_patch do: the branch is created where
\* there is none, and otherwise moved from an approved base to its successor.
THEOREM ReportsStay == Spec => []ReportsAreKept
<1>1. IInv => ReportsAreKept
  BY DEF IInv, PatchInv, OnBranch, ReportsAreKept
<1> QED
  BY <1>1, Invariant, PTL

\* A secure branch that has the commit of an approval also has the upstream
\* commit that was analysed for it, whatever fetches came between the reads of
\* a reconciliation: the ancestry check of apply_secure_patch decides, and what
\* it decided stays true of every branch that is built on the commit.
THEOREM PatchedBranchContainsAnalysed == Spec => []RequiredIsContained
<1>1. ASSUME IInv, NEW a \in Approval, a \in Reachable(secure)
      PROVE  approval[a].required \in Reachable(secure)
  <2>1. PICK c \in Ref : c = secure
    BY <1>1 DEF IInv, TypeOK
  <2>2. Known(a) /\ Reachable(a) \subseteq Reachable(c)
    BY <1>1, <2>1, ReachableClosed DEF IInv, RefInv
  <2>3. approval[a].required \in approval[a].history
    BY <2>2 DEF Known, Contained
  <2>4. approval[a].history \subseteq Reachable(a)
    BY <2>2, NameAssumption DEF Known, Reachable
  <2> QED
    BY <2>1, <2>2, <2>3, <2>4
<1>2. IInv => RequiredIsContained
  BY <1>1 DEF RequiredIsContained
<1> QED
  BY <1>2, Invariant, PTL

\* upstream_sha, the commit recon is run on, is what upstream was at some moment
\* of this reconciliation, although the tracking ref it is read from is written
\* by every other reconciliation, too.
THEOREM AnalysisIsCurrent == Spec => []AnalysedIsCurrent
<1>1. IInv => AnalysedIsCurrent
  BY DEF IInv, SyncInv, AnalysedIsCurrent
<1> QED
  BY <1>1, Invariant, PTL

-----------------------------------------------------------------------------
(* The comparison of two builds: what its state is.                         *)

Runs == {q.run : q \in Requested}

Reports ==
  {Comparison(l, r, run, k) :
     l \in Bundle, r \in Bundle, run \in Runs, k \in 1..MaxTries}

\* Reports that an attempt has made of two verified bundles of two runs.
Genuine ==
  {x \in Reports :
     /\ Authoritative(x.evidence.left) /\ Authoritative(x.evidence.right)
     /\ BoundToRuns(x.evidence.left, x.evidence.right, x.executions)}

Place ==
  {"check_left", "check_right", "verify_left", "verify_right", "load_left", "load_right",
   "compare", "refer", "mismatch", "refer_mismatch", "done",
   "check_comparison", "read_comparison", "check_mismatch", "read_mismatch", "gate"}

Attempt ==
  [at : Place, left : Bundle \cup {Nil}, right : Bundle \cup {Nil},
   comparison : Genuine \cup {Nil}, ref : Genuine \cup {Nil},
   mismatch : Genuine \cup {Nil}]

Finding ==
  [comparison : Genuine \cup {Nil}, mismatch : Genuine \cup {Nil}, matched : BOOLEAN,
   bundle : [Side -> Bundle \cup {Nil}], run : Runs]

ItemStatus == {"none", "open", "done", "review", "blocked", "dead"}

Item ==
  [at : ItemStatus, attempts : 0..MaxTries, payload : Config \cup Finding \cup {Nil}]

Stage == {"idle", "find_left", "stage_right", "find_right", "pin", "done"}

Starter ==
  [at : Stage, request : Requested \cup {Nil}, found : [Side -> Bundle \cup {Nil}]]

\* A start that is under way has a request; bundles are staged before they are found.
StartInvariant ==
  /\ starter \in [1..MaxStarts -> Starter]
  /\ manifest \in [Side -> Bundle \cup {Nil}]
  /\ config \in Config \cup {Nil}
  /\ \A c \in 1..MaxStarts : starter[c].request = Nil <=> starter[c].at = "idle"
  /\ \A c \in 1..MaxStarts :
       /\ starter[c].at # "idle" => manifest["left"] \in Bundle
       /\ starter[c].at \in {"find_right", "pin", "done"} => manifest["right"] \in Bundle
  /\ config # Nil => \A side \in Side : manifest[side] \in Bundle

WorkTypes ==
  /\ item \in [Handler -> Item]
  /\ handling \in [Handler -> [1..MaxTries -> Attempt \cup {Nil}]]
  /\ file \in [comparison : Genuine \cup {Nil}, mismatch : Genuine \cup {Nil}]

\* The work is that of the config.
WorkIsPinned ==
  /\ config = Nil => item["repro"].at = "none" /\ candidate = Nil
  /\ item["repro"].at # "none" => item["repro"].payload = config
  /\ item["governor"].at # "none" =>
       /\ item["repro"].at \notin {"none", "open"}
       /\ item["governor"].payload \in Finding
       /\ item["governor"].payload.bundle = config.bundle
       /\ item["governor"].payload.run = config.run
  /\ \A s \in Handler : item[s].at # "none" => item[s].attempts \in 1..MaxTries
  /\ \A s \in Handler, k \in 1..MaxTries :
       handling[s][k] # Nil => item[s].at # "none"

\* What an attempt of repro-v3 has done when it has come to a place, and what is in
\* the file of the comparison by then.
Compares(mine, report) ==
  /\ mine.at \in {"verify_right", "load_left", "load_right", "compare"} =>
       mine.left \in Bundle /\ Authoritative(mine.left)
  /\ mine.at \in {"load_left", "load_right", "compare"} =>
       mine.right \in Bundle /\ Authoritative(mine.right)
  /\ mine.at \in {"refer", "mismatch", "refer_mismatch", "done"} =>
       mine.comparison \in Genuine /\ report \in Genuine

\* And one of governor-v3.
Judges(mine) ==
  mine.at \in {"gate", "check_mismatch", "read_mismatch"} => mine.comparison \in Genuine

AttemptsAreRight ==
  /\ \A k \in 1..MaxTries :
       handling["repro"][k] # Nil => Compares(handling["repro"][k], file.comparison)
  /\ \A k \in 1..MaxTries :
       handling["governor"][k] # Nil => Judges(handling["governor"][k])
  /\ item["governor"].at # "none" => file.comparison \in Genuine

CandidateIsOneBuild == candidate # Nil => MadeTwice(config.bundle, config.run)

WorkInvariant == WorkTypes /\ WorkIsPinned /\ AttemptsAreRight /\ CandidateIsOneBuild

RebuildInvariant == StartInvariant /\ WorkInvariant

-----------------------------------------------------------------------------
(* The starts.                                                              *)

LEMMA StartInvariantInit == RebuildInit => StartInvariant
<1> SUFFICES ASSUME RebuildInit PROVE StartInvariant
  OBVIOUS
<1>1. NoBundles \in [Side -> Bundle \cup {Nil}]
  BY DEF NoBundles
<1>2. \A c \in 1..MaxStarts : /\ starter[c] \in Starter
                              /\ starter[c].request = Nil /\ starter[c].at = "idle"
  BY <1>1 DEF RebuildInit, Starter, Stage
<1>3. starter \in [1..MaxStarts -> Starter]
  BY <1>1 DEF RebuildInit, Starter, Stage
<1> QED
  BY <1>1, <1>2, <1>3 DEF RebuildInit, StartInvariant

\* A start that changes its own state only.
LEMMA OneStarter ==
  ASSUME StartInvariant, NEW c \in 1..MaxStarts, NEW x \in Starter,
         starter' = [starter EXCEPT ![c] = x]
  PROVE  /\ starter' \in [1..MaxStarts -> Starter] /\ starter'[c] = x
         /\ \A d \in 1..MaxStarts \ {c} : starter'[d] = starter[d]
BY DEF StartInvariant

LEMMA BeginStep ==
  ASSUME StartInvariant, NEW c \in 1..MaxStarts, NEW q \in Requested, Begin(c, q)
  PROVE  StartInvariant'
<1> DEFINE x == [at |-> "find_left", request |-> q, found |-> NoBundles]
<1>1. starter' = [starter EXCEPT ![c] = x]
  BY DEF Begin
<1>2. x \in Starter /\ x.at = "find_left" /\ x.request # Nil
  BY RebuildAssumption DEF Starter, Stage, NoBundles
<1> HIDE DEF x
<1>3. /\ starter' \in [1..MaxStarts -> Starter] /\ starter'[c] = x
      /\ \A d \in 1..MaxStarts \ {c} : starter'[d] = starter[d]
  BY <1>1, <1>2, OneStarter
<1>4. q.bundle["left"] \in Bundle
  BY RebuildAssumption DEF Side
<1>5. /\ manifest' \in [Side -> Bundle \cup {Nil}]
      /\ manifest'["left"] \in Bundle /\ manifest'["right"] = manifest["right"]
      /\ UNCHANGED config
  BY <1>4 DEF Begin, StartInvariant, Side
<1> QED
  BY <1>2, <1>3, <1>5 DEF StartInvariant, Side

LEMMA FindStep ==
  ASSUME StartInvariant, NEW c \in 1..MaxStarts, NEW side \in Side,
         NEW from, NEW to \in Stage, Find(c, side, from, to),
         \/ side = "left" /\ from = "find_left" /\ to = "stage_right"
         \/ side = "right" /\ from = "find_right" /\ to = "pin"
  PROVE  /\ StartInvariant'
         /\ starter'[c].request = starter[c].request /\ starter'[c].at = to
         /\ starter'[c].found = [starter[c].found EXCEPT ![side] = manifest[side]]
         /\ \A d \in 1..MaxStarts \ {c} : starter'[d] = starter[d]
<1> DEFINE old == starter[c]
<1> DEFINE x == [at |-> to, request |-> old.request,
                 found |-> [old.found EXCEPT ![side] = manifest[side]]]
<1>1. old \in Starter /\ old.at = from /\ old.at # "idle" /\ manifest[side] \in Bundle \cup {Nil}
  BY DEF Find, AtStart, StartInvariant
<1>2. x \in Starter
  BY <1>1 DEF Starter
<1>3. starter' = [starter EXCEPT ![c] = x]
  <2>1. starter' = [starter EXCEPT
          ![c] = [old EXCEPT !.at = to, !.found = [@ EXCEPT ![side] = manifest[side]]]]
    BY DEF Find, StartInvariant
  <2>2. [old EXCEPT !.at = to, !.found = [@ EXCEPT ![side] = manifest[side]]] = x
    <3> DEFINE g == [old.found EXCEPT ![side] = manifest[side]]
    <3> HIDE DEF g
    <3> DEFINE y == [old EXCEPT !.at = to, !.found = g]
    <3>1. DOMAIN old = {"at", "request", "found"}
      BY <1>1 DEF Starter
    <3> HIDE DEF old
    <3>2. y.at = to /\ y.request = old.request /\ y.found = g
      BY <3>1
    <3>3. y = [f \in {"at", "request", "found"} |-> y[f]]
      BY <3>1
    <3>4. y = [at |-> to, request |-> old.request, found |-> g]
      <4> HIDE DEF y
      <4> QED
        BY <3>2, <3>3
    <3> QED
      BY <3>4 DEF g, old
  <2> QED
    BY <2>1, <2>2
<1>4. x.at = to /\ x.request = old.request /\ x.request # Nil
      /\ x.found = [old.found EXCEPT ![side] = manifest[side]]
  BY <1>1 DEF StartInvariant
<1> HIDE DEF x
<1>5. /\ starter' \in [1..MaxStarts -> Starter] /\ starter'[c] = x
      /\ \A d \in 1..MaxStarts \ {c} : starter'[d] = starter[d]
  BY <1>2, <1>3, OneStarter
<1>6. UNCHANGED <<manifest, config>>
  BY DEF Find
<1>7. StartInvariant'
  BY <1>1, <1>4, <1>5, <1>6 DEF StartInvariant
<1> QED
  BY <1>4, <1>5, <1>7

LEMMA MovesIs ==
  ASSUME StartInvariant, NEW c \in 1..MaxStarts, NEW to \in Stage, Moves(c, to)
  PROVE  /\ starter' \in [1..MaxStarts -> Starter]
         /\ starter'[c].request = starter[c].request /\ starter'[c].at = to
         /\ starter'[c].found = starter[c].found
         /\ \A d \in 1..MaxStarts \ {c} : starter'[d] = starter[d]
<1> DEFINE x == [starter[c] EXCEPT !.at = to]
<1>1. starter[c] \in Starter
  BY DEF StartInvariant
<1>2. /\ x \in Starter /\ x.at = to /\ x.request = starter[c].request
      /\ x.found = starter[c].found
  BY <1>1 DEF Starter
<1>3. starter' = [starter EXCEPT ![c] = x]
  BY DEF Moves
<1> HIDE DEF x
<1> QED
  BY <1>2, <1>3, OneStarter

LEMMA StageRightStep ==
  ASSUME StartInvariant, NEW c \in 1..MaxStarts, StageRight(c)
  PROVE  StartInvariant'
<1>1. starter[c].at = "stage_right"
  BY DEF StageRight, AtStart
<1>2. /\ starter' \in [1..MaxStarts -> Starter]
      /\ starter'[c].request = starter[c].request /\ starter'[c].at = "find_right"
      /\ \A d \in 1..MaxStarts \ {c} : starter'[d] = starter[d]
  BY MovesIs DEF StageRight, Stage
<1>3. starter[c].request \in Requested
  BY <1>1 DEF StartInvariant, Starter
<1>4. starter[c].request.bundle["right"] \in Bundle
  BY <1>3, RebuildAssumption DEF Side
<1>5. /\ manifest' \in [Side -> Bundle \cup {Nil}]
      /\ manifest'["right"] \in Bundle /\ manifest'["left"] = manifest["left"]
      /\ UNCHANGED config
  BY <1>4 DEF StageRight, StartInvariant, Side
<1> QED
  BY <1>1, <1>2, <1>5 DEF StartInvariant, Side

\* What the run is created for.
LEMMA PinStep ==
  ASSUME StartInvariant, NEW c \in 1..MaxStarts, Pin(c)
  PROVE  /\ StartInvariant'
         /\ [bundle |-> starter[c].found, run |-> starter[c].request.run] \in Config
<1> DEFINE payload == [bundle |-> starter[c].found, run |-> starter[c].request.run]
<1>1. starter[c].at = "pin"
  BY DEF Pin, AtStart
<1>2. /\ starter' \in [1..MaxStarts -> Starter]
      /\ starter'[c].request = starter[c].request /\ starter'[c].at = "done"
      /\ \A d \in 1..MaxStarts \ {c} : starter'[d] = starter[d]
  BY MovesIs DEF Pin, Stage
<1>3. starter[c].request \in Requested /\ starter[c].found \in [Side -> Bundle \cup {Nil}]
  BY <1>1 DEF StartInvariant, Starter
<1>4. payload \in Config
  BY <1>3 DEF Config
<1>5. UNCHANGED manifest /\ (config' = config \/ config' = payload)
  BY DEF Pin
<1>6. manifest["left"] \in Bundle /\ manifest["right"] \in Bundle
  BY <1>1 DEF StartInvariant
<1> HIDE DEF payload
<1>7. StartInvariant'
  BY <1>1, <1>2, <1>4, <1>5, <1>6 DEF StartInvariant, Side
<1> QED
  BY <1>4, <1>7 DEF payload

-----------------------------------------------------------------------------
(* The attempts.  A step of one of them goes on with it, or it is a retreat: *)
(* attempts end or begin anew, and nothing is gained.                       *)

Retreat ==
  /\ item' \in [Handler -> Item]
  /\ handling' \in [Handler -> [1..MaxTries -> Attempt \cup {Nil}]]
  /\ \A t \in Handler :
       /\ item'[t].payload = item[t].payload
       /\ item'[t].at = "none" <=> item[t].at = "none"
       /\ item[t].at # "open" => item'[t].at = item[t].at
       /\ item[t].at # "none" => item'[t].attempts \in 1..MaxTries
  /\ \A t \in Handler, j \in 1..MaxTries :
       \/ handling'[t][j] = handling[t][j]
       \/ handling'[t][j] = Nil
       \/ handling'[t][j] = Fresh(t) /\ item[t].at # "none"

LEMMA FreshIsAttempt ==
  ASSUME NEW s \in Handler
  PROVE  /\ Fresh(s) \in Attempt
         /\ \A report : Compares(Fresh("repro"), report)
         /\ Judges(Fresh("governor"))
BY DEF Fresh, Attempt, Place, Compares, Judges

\* Another state of one item.
LEMMA OneItem ==
  ASSUME WorkInvariant, NEW s \in Handler, NEW x \in Item, item' = [item EXCEPT ![s] = x]
  PROVE  /\ item' \in [Handler -> Item] /\ item'[s] = x
         /\ \A t \in Handler \ {s} : item'[t] = item[t]
BY DEF WorkInvariant, WorkTypes

LEMMA OneAttempt ==
  ASSUME WorkInvariant, NEW s \in Handler, NEW k \in 1..MaxTries,
         NEW a \in Attempt \cup {Nil}, Becomes(s, k, a)
  PROVE  /\ handling' \in [Handler -> [1..MaxTries -> Attempt \cup {Nil}]]
         /\ handling'[s][k] = a
         /\ \A t \in Handler, j \in 1..MaxTries :
              t # s \/ j # k => handling'[t][j] = handling[t][j]
BY DEF WorkInvariant, WorkTypes, Becomes

LEMMA ItemMoves ==
  ASSUME WorkInvariant, NEW s \in Handler, NEW at \in ItemStatus
  PROVE  LET x == [item[s] EXCEPT !.at = at]
         IN  /\ x \in Item /\ x.at = at
             /\ x.attempts = item[s].attempts /\ x.payload = item[s].payload
<1>1. item[s] \in Item
  BY DEF WorkInvariant, WorkTypes
<1> QED
  BY <1>1 DEF Item

LEMMA EndsIs ==
  ASSUME WorkInvariant, NEW s \in Handler, NEW k \in 1..MaxTries,
         handling[s][k] # Nil, NEW outcome \in ItemStatus \ {"none", "open"},
         Ends(s, k, outcome)
  PROVE  Retreat
<1>1. item[s].at # "none"
  BY DEF WorkInvariant, WorkIsPinned
<1>2. /\ handling' \in [Handler -> [1..MaxTries -> Attempt \cup {Nil}]]
      /\ handling'[s][k] = Nil
      /\ \A t \in Handler, j \in 1..MaxTries :
           t # s \/ j # k => handling'[t][j] = handling[t][j]
  BY OneAttempt DEF Ends
<1>3. /\ item \in [Handler -> Item]
      /\ \A t \in Handler : item[t].at # "none" => item[t].attempts \in 1..MaxTries
  BY DEF WorkInvariant, WorkTypes, WorkIsPinned
<1>4. CASE Current(s, k)
  <2> DEFINE x == [item[s] EXCEPT !.at = outcome]
  <2>1. item' = [item EXCEPT ![s] = x]
    BY <1>4 DEF Ends
  <2>2. /\ x \in Item /\ x.at = outcome
        /\ x.attempts = item[s].attempts /\ x.payload = item[s].payload
    BY ItemMoves
  <2> HIDE DEF x
  <2>3. /\ item' \in [Handler -> Item] /\ item'[s] = x
        /\ \A t \in Handler \ {s} : item'[t] = item[t]
    BY <2>1, <2>2, OneItem
  <2>4. item[s].at = "open"
    BY <1>4 DEF Current
  <2> QED
    BY <1>1, <1>2, <1>3, <2>2, <2>3, <2>4 DEF Retreat
<1>5. CASE ~Current(s, k)
  BY <1>2, <1>3, <1>5 DEF Ends, Retreat
<1> QED
  BY <1>4, <1>5

LEMMA AgainIs ==
  ASSUME WorkInvariant, NEW s \in Handler, NEW k \in 1..MaxTries, Current(s, k),
         NEW left \in {Nil, handling[s][k]}, Again(s, k, left)
  PROVE  Retreat
<1>1. /\ item \in [Handler -> Item]
      /\ handling \in [Handler -> [1..MaxTries -> Attempt \cup {Nil}]]
      /\ \A t \in Handler : item[t].at # "none" => item[t].attempts \in 1..MaxTries
  BY DEF WorkInvariant, WorkTypes, WorkIsPinned
<1>2. item[s].at = "open" /\ item[s].attempts = k /\ MaxTries \in Nat /\ k \in Nat
  BY RebuildAssumption DEF Current
<1>3. CASE k < MaxTries
  <2> DEFINE x == [item[s] EXCEPT !.attempts = @ + 1]
  <2>1. item' = [item EXCEPT ![s] = x]
    BY <1>2, <1>3 DEF Again
  <2>2. k + 1 \in 1..MaxTries /\ k + 1 # k
    BY <1>2, <1>3
  <2>3. /\ x \in Item /\ x.at = "open"
        /\ x.attempts = k + 1 /\ x.payload = item[s].payload
    <3>1. item[s] \in Item /\ item[s].attempts = k /\ item[s].at = "open"
      BY <1>1, <1>2
    <3>2. k + 1 \in 0..MaxTries
      BY <1>2, <2>2
    <3> DEFINE n == k + 1
    <3> HIDE DEF n
    <3>3. [item[s] EXCEPT !.attempts = n] \in Item
      BY <3>1, <3>2 DEF Item, n
    <3>4. x = [item[s] EXCEPT !.attempts = n]
      BY <3>1 DEF n
    <3> QED
      BY <3>1, <3>3, <3>4 DEF Item, n
  <2> HIDE DEF x
  <2>4. /\ item' \in [Handler -> Item] /\ item'[s] = x
        /\ \A t \in Handler \ {s} : item'[t] = item[t]
    BY <2>1, <2>3, OneItem
  <2>5. handling' = [handling EXCEPT ![s][k] = left, ![s][k + 1] = Fresh(s)]
    BY <1>2, <1>3 DEF Again
  <2>6. /\ handling' \in [Handler -> [1..MaxTries -> Attempt \cup {Nil}]]
        /\ handling'[s][k] = left /\ handling'[s][k + 1] = Fresh(s)
        /\ \A t \in Handler, j \in 1..MaxTries :
             t # s \/ j \notin {k, k + 1} => handling'[t][j] = handling[t][j]
    <3>1. Fresh(s) \in Attempt
      BY FreshIsAttempt
    <3> QED
      BY <1>1, <2>2, <2>5, <3>1
  <2> QED
    BY <1>1, <1>2, <2>2, <2>3, <2>4, <2>6 DEF Retreat
<1>4. CASE ~(k < MaxTries)
  <2> DEFINE x == [item[s] EXCEPT !.at = "dead"]
  <2>1. item' = [item EXCEPT ![s] = x] /\ Becomes(s, k, left)
    BY <1>2, <1>4 DEF Again, Becomes
  <2>2. /\ x \in Item /\ x.at = "dead"
        /\ x.attempts = item[s].attempts /\ x.payload = item[s].payload
    BY ItemMoves DEF ItemStatus
  <2> HIDE DEF x
  <2>3. /\ item' \in [Handler -> Item] /\ item'[s] = x
        /\ \A t \in Handler \ {s} : item'[t] = item[t]
    BY <2>1, <2>2, OneItem
  <2>4. left \in Attempt \cup {Nil}
    <3>1. handling[s][k] \in Attempt \cup {Nil}
      BY <1>1
    <3> QED
      BY <3>1
  <2>5. /\ handling' \in [Handler -> [1..MaxTries -> Attempt \cup {Nil}]]
        /\ handling'[s][k] = left
        /\ \A t \in Handler, j \in 1..MaxTries :
             t # s \/ j # k => handling'[t][j] = handling[t][j]
    BY <2>1, <2>4, OneAttempt
  <2> QED
    BY <1>1, <1>2, <2>2, <2>3, <2>5 DEF Retreat
<1> QED
  BY <1>3, <1>4

LEMMA FailsIs ==
  ASSUME WorkInvariant, NEW s \in Handler, NEW k \in 1..MaxTries,
         handling[s][k] # Nil, Fails(s, k)
  PROVE  Retreat
<1>1. CASE s = "repro"
  BY <1>1, EndsIs DEF Fails, ItemStatus
<1>2. CASE s # "repro" /\ Current(s, k)
  BY <1>2, AgainIs DEF Fails
<1>3. CASE s # "repro" /\ ~Current(s, k)
  <2>1. Becomes(s, k, Nil) /\ item' = item
    BY <1>3 DEF Fails
  <2>2. /\ handling' \in [Handler -> [1..MaxTries -> Attempt \cup {Nil}]]
        /\ handling'[s][k] = Nil
        /\ \A t \in Handler, j \in 1..MaxTries :
             t # s \/ j # k => handling'[t][j] = handling[t][j]
    BY <2>1, OneAttempt
  <2>3. /\ item \in [Handler -> Item]
        /\ \A t \in Handler : item[t].at # "none" => item[t].attempts \in 1..MaxTries
    BY DEF WorkInvariant, WorkTypes, WorkIsPinned
  <2> QED
    BY <2>1, <2>2, <2>3 DEF Retreat
<1> QED
  BY <1>1, <1>2, <1>3

\* Nothing is lost by a retreat.
LEMMA RetreatKeeps ==
  ASSUME WorkInvariant, Retreat, UNCHANGED <<file, config>>,
         candidate' = candidate \/ config # Nil
  PROVE  WorkTypes' /\ WorkIsPinned' /\ AttemptsAreRight'
<1>1. WorkTypes'
  BY DEF WorkInvariant, WorkTypes, Retreat
<1>2. "repro" \in Handler /\ "governor" \in Handler
  BY DEF Handler
<1>3. WorkIsPinned'
  BY <1>2 DEF WorkInvariant, WorkIsPinned, Retreat
<1>4. \A k \in 1..MaxTries :
        handling'["repro"][k] # Nil => Compares(handling'["repro"][k], file'.comparison)
  BY <1>2, FreshIsAttempt DEF WorkInvariant, AttemptsAreRight, Retreat
<1>5. \A k \in 1..MaxTries :
        handling'["governor"][k] # Nil => Judges(handling'["governor"][k])
  BY <1>2, FreshIsAttempt DEF WorkInvariant, AttemptsAreRight, Retreat
<1>6. item'["governor"].at # "none" => file'.comparison \in Genuine
  BY <1>2 DEF WorkInvariant, AttemptsAreRight, Retreat
<1> QED
  BY <1>1, <1>3, <1>4, <1>5, <1>6 DEF AttemptsAreRight

LEMMA RetreatStep ==
  ASSUME WorkInvariant, Retreat, UNCHANGED <<file, config, candidate>>
  PROVE  WorkInvariant'
BY RetreatKeeps DEF WorkInvariant, CandidateIsOneBuild

\* An attempt of repro-v3 goes on, and what it has done is right.
LEMMA ReproGoesOn ==
  ASSUME WorkInvariant, NEW k \in 1..MaxTries, handling["repro"][k] # Nil,
         NEW a \in Attempt, Becomes("repro", k, a), item' = item,
         UNCHANGED <<config, candidate>>,
         file' \in [comparison : Genuine \cup {Nil}, mismatch : Genuine \cup {Nil}],
         file'.comparison = file.comparison \/ file'.comparison \in Genuine,
         Compares(a, file'.comparison)
  PROVE  WorkInvariant'
<1>1. "repro" \in Handler /\ "governor" \in Handler
  BY DEF Handler
<1>2. /\ handling' \in [Handler -> [1..MaxTries -> Attempt \cup {Nil}]]
      /\ handling'["repro"][k] = a
      /\ \A t \in Handler, j \in 1..MaxTries :
           t # "repro" \/ j # k => handling'[t][j] = handling[t][j]
  BY <1>1, OneAttempt
<1>3. WorkTypes'
  BY <1>2 DEF WorkInvariant, WorkTypes
<1>4. WorkIsPinned'
  BY <1>1, <1>2 DEF WorkInvariant, WorkIsPinned
<1>5. \A j \in 1..MaxTries :
        handling'["repro"][j] # Nil => Compares(handling'["repro"][j], file'.comparison)
  <2> TAKE j \in 1..MaxTries
  <2>1. CASE j = k
    BY <1>2, <2>1
  <2>2. CASE j # k
    BY <1>1, <1>2, <2>2 DEF WorkInvariant, AttemptsAreRight, Compares
  <2> QED
    BY <2>1, <2>2
<1>6. AttemptsAreRight'
  BY <1>1, <1>2, <1>5 DEF WorkInvariant, AttemptsAreRight
<1> QED
  BY <1>3, <1>4, <1>6 DEF WorkInvariant, CandidateIsOneBuild

LEMMA GovernorGoesOn ==
  ASSUME WorkInvariant, NEW k \in 1..MaxTries, handling["governor"][k] # Nil,
         NEW a \in Attempt, Becomes("governor", k, a), item' = item,
         UNCHANGED <<file, config, candidate>>, Judges(a)
  PROVE  WorkInvariant'
<1>1. "repro" \in Handler /\ "governor" \in Handler
  BY DEF Handler
<1>2. /\ handling' \in [Handler -> [1..MaxTries -> Attempt \cup {Nil}]]
      /\ handling'["governor"][k] = a
      /\ \A t \in Handler, j \in 1..MaxTries :
           t # "governor" \/ j # k => handling'[t][j] = handling[t][j]
  BY <1>1, OneAttempt
<1>3. WorkTypes'
  BY <1>2 DEF WorkInvariant, WorkTypes
<1>4. WorkIsPinned'
  BY <1>1, <1>2 DEF WorkInvariant, WorkIsPinned
<1>5. \A j \in 1..MaxTries : handling'["governor"][j] # Nil => Judges(handling'["governor"][j])
  <2> TAKE j \in 1..MaxTries
  <2>1. CASE j = k
    BY <1>2, <2>1
  <2>2. CASE j # k
    BY <1>1, <1>2, <2>2 DEF WorkInvariant, AttemptsAreRight
  <2> QED
    BY <2>1, <2>2
<1>6. AttemptsAreRight'
  BY <1>1, <1>2, <1>5 DEF WorkInvariant, AttemptsAreRight
<1> QED
  BY <1>3, <1>4, <1>6 DEF WorkInvariant, CandidateIsOneBuild

LEMMA AttemptMoves ==
  ASSUME NEW a \in Attempt, NEW to \in Place
  PROVE  LET x == [a EXCEPT !.at = to]
         IN  /\ x \in Attempt /\ x.at = to /\ x.left = a.left /\ x.right = a.right
             /\ x.comparison = a.comparison /\ x.ref = a.ref /\ x.mismatch = a.mismatch
BY DEF Attempt

LEMMA AttemptAt ==
  ASSUME WorkInvariant, NEW s \in Handler, NEW k \in 1..MaxTries, handling[s][k] # Nil
  PROVE  /\ handling[s][k] \in Attempt
         /\ s = "repro" => Compares(handling[s][k], file.comparison)
         /\ s = "governor" => Judges(handling[s][k]) /\ file.comparison \in Genuine
         /\ item[s].at # "none" /\ config # Nil
<1>1. handling[s][k] \in Attempt
  BY DEF WorkInvariant, WorkTypes
<1>2. item[s].at # "none"
  BY DEF WorkInvariant, WorkIsPinned
<1>3. item["repro"].at # "none"
  BY <1>2 DEF WorkInvariant, WorkIsPinned, Handler
<1>4. config # Nil
  BY <1>3 DEF WorkInvariant, WorkIsPinned
<1>5. s = "repro" => Compares(handling[s][k], file.comparison)
  BY DEF WorkInvariant, AttemptsAreRight
<1>6. s = "governor" => Judges(handling[s][k]) /\ file.comparison \in Genuine
  BY <1>2 DEF WorkInvariant, AttemptsAreRight
<1> QED
  BY <1>1, <1>2, <1>4, <1>5, <1>6

\* A condition that holds, or a retreat.
LEMMA ReproPasses ==
  ASSUME WorkInvariant, NEW k \in 1..MaxTries, handling["repro"][k] # Nil,
         NEW condition, NEW a \in Attempt, Passes("repro", k, condition, a), Unwritten,
         condition => Compares(a, file.comparison)
  PROVE  WorkInvariant'
<1>1. "repro" \in Handler
  BY DEF Handler
<1>2. UNCHANGED <<file, config, candidate>>
  BY DEF Unwritten
<1>3. CASE condition
  <2>1. Becomes("repro", k, a) /\ item' = item
    BY <1>3 DEF Passes
  <2>2. file \in [comparison : Genuine \cup {Nil}, mismatch : Genuine \cup {Nil}]
    BY DEF WorkInvariant, WorkTypes
  <2> QED
    BY <1>2, <1>3, <2>1, <2>2, ReproGoesOn
<1>4. CASE ~condition
  BY <1>1, <1>2, <1>4, FailsIs, RetreatStep DEF Passes
<1> QED
  BY <1>3, <1>4

LEMMA GovernorPasses ==
  ASSUME WorkInvariant, NEW k \in 1..MaxTries, handling["governor"][k] # Nil,
         NEW condition, NEW a \in Attempt, Passes("governor", k, condition, a), Unwritten,
         condition => Judges(a)
  PROVE  WorkInvariant'
<1>1. "governor" \in Handler
  BY DEF Handler
<1>2. UNCHANGED <<file, config, candidate>>
  BY DEF Unwritten
<1>3. CASE condition
  <2>1. Becomes("governor", k, a) /\ item' = item
    BY <1>3 DEF Passes
  <2> QED
    BY <1>2, <1>3, <2>1, GovernorGoesOn
<1>4. CASE ~condition
  BY <1>1, <1>2, <1>4, FailsIs, RetreatStep DEF Passes
<1> QED
  BY <1>3, <1>4

-----------------------------------------------------------------------------
(* The steps of repro-v3.                                                   *)

LEMMA CheckInputsStep ==
  ASSUME WorkInvariant, NEW k \in 1..MaxTries, CheckInputs(k)
  PROVE  WorkInvariant'
<1> DEFINE mine == handling["repro"][k]
<1>1. mine # Nil /\ mine \in Attempt /\ Unwritten
  BY AttemptAt DEF CheckInputs, At, Handler
<1>2. ASSUME NEW condition, NEW to \in {"check_right", "verify_left"},
             Passes("repro", k, condition, [mine EXCEPT !.at = to])
      PROVE  WorkInvariant'
  <2> DEFINE a == [mine EXCEPT !.at = to]
  <2>1. a \in Attempt /\ a.at = to
    <3>1. to \in Place
      BY DEF Place
    <3> QED
      BY <1>1, <3>1, AttemptMoves
  <2> HIDE DEF a
  <2>2. Compares(a, file.comparison)
    BY <2>1 DEF Compares
  <2> QED
    BY <1>1, <1>2, <2>1, <2>2, ReproPasses DEF a
<1> QED
  BY <1>2 DEF CheckInputs

LEMMA VerifiesStep ==
  ASSUME WorkInvariant, StartInvariant, NEW k \in 1..MaxTries,
         NEW side \in Side, NEW from, NEW to, Verifies(k, side, from, to),
         \/ side = "left" /\ from = "verify_left" /\ to = "verify_right"
         \/ side = "right" /\ from = "verify_right" /\ to = "load_left"
  PROVE  WorkInvariant'
<1> DEFINE mine == handling["repro"][k]
<1> DEFINE a == [mine EXCEPT !.at = to, ![side] = manifest[side]]
<1>1. /\ mine # Nil /\ mine \in Attempt /\ mine.at = from /\ config # Nil
      /\ Compares(mine, file.comparison) /\ Unwritten
  BY AttemptAt DEF Verifies, At, Handler
<1>2. manifest[side] \in Bundle
  BY <1>1 DEF StartInvariant
<1>3. /\ a \in Attempt /\ a.at = to
      /\ side = "left" => a.left = manifest[side]
      /\ side = "right" => a.right = manifest[side] /\ a.left = mine.left
  BY <1>1, <1>2 DEF Attempt, Place
<1>4. Passes("repro", k, Authoritative(manifest[side]), a)
  BY DEF Verifies
<1> HIDE DEF a
<1>5. Authoritative(manifest[side]) => Compares(a, file.comparison)
  BY <1>1, <1>2, <1>3 DEF Compares
<1> QED
  BY <1>1, <1>3, <1>4, <1>5, ReproPasses

LEMMA LoadStep ==
  ASSUME WorkInvariant, NEW k \in 1..MaxTries, NEW side \in Side,
         NEW from, NEW to, Load(k, side, from, to),
         \/ from = "load_left" /\ to = "load_right"
         \/ from = "load_right" /\ to = "compare"
  PROVE  WorkInvariant'
<1> DEFINE mine == handling["repro"][k]
<1> DEFINE a == [mine EXCEPT !.at = to]
<1>1. /\ mine # Nil /\ mine \in Attempt /\ mine.at = from
      /\ Compares(mine, file.comparison) /\ Unwritten
  BY AttemptAt DEF Load, At, Handler
<1>2. a \in Attempt /\ a.at = to /\ a.left = mine.left /\ a.right = mine.right
  <2>1. to \in Place
    BY DEF Place
  <2> QED
    BY <1>1, <2>1, AttemptMoves
<1>3. Passes("repro", k, manifest[side] = mine[side], a)
  BY DEF Load
<1> HIDE DEF a
<1>4. Compares(a, file.comparison)
  BY <1>1, <1>2 DEF Compares
<1> QED
  BY <1>1, <1>2, <1>3, <1>4, ReproPasses

\* What is written is a report of two verified bundles.
LEMMA ReportIsGenuine ==
  ASSUME NEW l \in Bundle, NEW r \in Bundle, NEW run \in Runs, NEW k \in 1..MaxTries,
         Authoritative(l), Authoritative(r), BoundToRuns(l, r, run)
  PROVE  Comparison(l, r, run, k) \in Genuine
<1> DEFINE x == Comparison(l, r, run, k)
<1>1. x \in Reports
  BY DEF Reports
<1>2. x.evidence.left = l /\ x.evidence.right = r /\ x.executions = run
  BY DEF Comparison
<1> QED
  BY <1>1, <1>2 DEF Genuine

LEMMA WriteComparisonStep ==
  ASSUME WorkInvariant, StartInvariant, NEW k \in 1..MaxTries, WriteComparison(k)
  PROVE  WorkInvariant'
<1> DEFINE mine == handling["repro"][k]
<1> DEFINE run == item["repro"].payload.run
<1> DEFINE report == Comparison(mine.left, mine.right, run, k)
<1>1. /\ mine # Nil /\ mine \in Attempt /\ mine.at = "compare"
      /\ Compares(mine, file.comparison) /\ config # Nil /\ item["repro"].at # "none"
  BY AttemptAt DEF WriteComparison, At, Handler
<1>2. UNCHANGED <<config, candidate>>
  BY DEF WriteComparison
<1>3. CASE BoundToRuns(mine.left, mine.right, run)
  <2> DEFINE a == [mine EXCEPT !.at = "refer", !.comparison = report]
  <2>1. run \in Runs
    <3>1. item["repro"].payload = config /\ config \in Config
      BY <1>1 DEF WorkInvariant, WorkIsPinned, StartInvariant
    <3> QED
      BY <3>1 DEF Config, Runs
  <2>2. report \in Genuine
    BY <1>1, <1>3, <2>1, ReportIsGenuine DEF Compares
  <2>3. /\ Becomes("repro", k, a) /\ item' = item
        /\ file' = [file EXCEPT !.comparison = report]
    BY <1>3 DEF WriteComparison
  <2> HIDE DEF report
  <2>4. a \in Attempt /\ a.at = "refer" /\ a.comparison = report
    BY <1>1, <2>2 DEF Attempt, Place
  <2>5. /\ file' \in [comparison : Genuine \cup {Nil}, mismatch : Genuine \cup {Nil}]
        /\ file'.comparison = report
    BY <2>2, <2>3 DEF WorkInvariant, WorkTypes
  <2> HIDE DEF a
  <2>6. Compares(a, file'.comparison)
    BY <2>2, <2>4, <2>5 DEF Compares
  <2> QED
    BY <1>1, <1>2, <2>2, <2>3, <2>4, <2>5, <2>6, ReproGoesOn
<1>4. CASE ~BoundToRuns(mine.left, mine.right, run)
  <2>1. Fails("repro", k) /\ file' = file
    BY <1>4 DEF WriteComparison
  <2> QED
    BY <1>1, <1>2, <2>1, FailsIs, RetreatStep DEF Handler
<1> QED
  BY <1>3, <1>4

LEMMA ReferStep ==
  ASSUME WorkInvariant, NEW k \in 1..MaxTries, Refer(k)
  PROVE  WorkInvariant'
<1> DEFINE mine == handling["repro"][k]
<1> DEFINE to == IF mine.comparison.reproducible THEN "done" ELSE "mismatch"
<1> DEFINE a == [mine EXCEPT !.ref = file.comparison, !.at = to]
<1>1. /\ mine # Nil /\ mine \in Attempt /\ mine.at = "refer"
      /\ Compares(mine, file.comparison) /\ Unwritten
  BY AttemptAt DEF Refer, At, Handler
<1>2. Becomes("repro", k, a) /\ item' = item
  BY DEF Refer
<1>3. to \in {"done", "mismatch"} /\ file.comparison \in Genuine
      /\ file \in [comparison : Genuine \cup {Nil}, mismatch : Genuine \cup {Nil}]
  BY <1>1 DEF Compares, WorkInvariant, WorkTypes
<1> HIDE DEF to
<1>4. a \in Attempt /\ a.at = to /\ a.comparison = mine.comparison
  BY <1>1, <1>3 DEF Attempt, Place
<1> HIDE DEF a
<1>5. Compares(a, file.comparison)
  BY <1>1, <1>3, <1>4 DEF Compares
<1>6. UNCHANGED <<file, config, candidate>>
  BY <1>1 DEF Unwritten
<1> QED
  BY <1>1, <1>2, <1>3, <1>4, <1>5, <1>6, ReproGoesOn

LEMMA WriteMismatchStep ==
  ASSUME WorkInvariant, NEW k \in 1..MaxTries, WriteMismatch(k)
  PROVE  WorkInvariant'
<1> DEFINE mine == handling["repro"][k]
<1> DEFINE a == [mine EXCEPT !.at = "refer_mismatch"]
<1>1. /\ mine # Nil /\ mine \in Attempt /\ mine.at = "mismatch"
      /\ Compares(mine, file.comparison)
  BY AttemptAt DEF WriteMismatch, At, Handler
<1>2. Becomes("repro", k, a) /\ item' = item /\ UNCHANGED <<config, candidate>>
  BY DEF WriteMismatch
<1>3. file' = [file EXCEPT !.mismatch = mine.ref]
  BY DEF WriteMismatch
<1>4. /\ file' \in [comparison : Genuine \cup {Nil}, mismatch : Genuine \cup {Nil}]
      /\ file'.comparison = file.comparison
  BY <1>1, <1>3 DEF WorkInvariant, WorkTypes, Attempt
<1>5. a \in Attempt /\ a.at = "refer_mismatch" /\ a.comparison = mine.comparison
  BY <1>1, AttemptMoves DEF Place
<1> HIDE DEF a
<1>6. Compares(a, file'.comparison)
  BY <1>1, <1>4, <1>5 DEF Compares
<1> QED
  BY <1>1, <1>2, <1>4, <1>5, <1>6, ReproGoesOn

LEMMA ReferMismatchStep ==
  ASSUME WorkInvariant, NEW k \in 1..MaxTries, ReferMismatch(k)
  PROVE  WorkInvariant'
<1> DEFINE mine == handling["repro"][k]
<1> DEFINE a == [mine EXCEPT !.at = "done", !.mismatch = file.mismatch]
<1>1. /\ mine # Nil /\ mine \in Attempt /\ mine.at = "refer_mismatch"
      /\ Compares(mine, file.comparison) /\ Unwritten
  BY AttemptAt DEF ReferMismatch, At, Handler
<1>2. Becomes("repro", k, a) /\ item' = item
  BY DEF ReferMismatch
<1>3. file \in [comparison : Genuine \cup {Nil}, mismatch : Genuine \cup {Nil}]
  BY DEF WorkInvariant, WorkTypes
<1>4. a \in Attempt /\ a.at = "done" /\ a.comparison = mine.comparison
  BY <1>1, <1>3 DEF Attempt, Place
<1> HIDE DEF a
<1>5. Compares(a, file.comparison)
  BY <1>1, <1>4 DEF Compares
<1>6. UNCHANGED <<file, config, candidate>>
  BY <1>1 DEF Unwritten
<1> QED
  BY <1>1, <1>2, <1>3, <1>4, <1>5, <1>6, ReproGoesOn

\* A report says in one word what its checks say.
LEMMA GenuineIsBoolean ==
  ASSUME NEW x \in Genuine
  PROVE  x.reproducible \in BOOLEAN
<1>1. PICK l \in Bundle, r \in Bundle, run \in Runs, k \in 1..MaxTries :
        x = Comparison(l, r, run, k)
  BY DEF Genuine, Reports
<1> DEFINE matched == \A check \in DOMAIN CoreChecks(l, r) : CoreChecks(l, r)[check]
<1>2. x.reproducible = matched
  BY <1>1 DEF Comparison
<1>3. matched \in BOOLEAN
  OBVIOUS
<1> QED
  BY <1>2, <1>3

\* The outcome is announced, and only once.
LEMMA AnnounceStep ==
  ASSUME WorkInvariant, StartInvariant, NEW k \in 1..MaxTries, Announce(k)
  PROVE  WorkInvariant'
<1> DEFINE mine == handling["repro"][k]
<1> DEFINE old == item["repro"].payload
<1> DEFINE payload == [comparison |-> mine.ref, mismatch |-> mine.mismatch,
                       matched |-> mine.comparison.reproducible,
                       bundle |-> old.bundle, run |-> old.run]
<1>0. "repro" \in Handler /\ "governor" \in Handler
  BY DEF Handler
<1>1. /\ mine # Nil /\ mine \in Attempt /\ mine.at = "done"
      /\ Compares(mine, file.comparison) /\ Unwritten
      /\ item["repro"].at # "none" /\ config # Nil
  BY AttemptAt DEF Announce, At, Handler
<1>2. UNCHANGED <<file, config, candidate>>
  BY <1>1 DEF Unwritten
<1>3. CASE ~Current("repro", k)
  <2>1. Becomes("repro", k, Nil) /\ item' = item
    BY <1>3 DEF Announce
  <2>2. /\ handling' \in [Handler -> [1..MaxTries -> Attempt \cup {Nil}]]
        /\ handling'["repro"][k] = Nil
        /\ \A t \in Handler, j \in 1..MaxTries :
             t # "repro" \/ j # k => handling'[t][j] = handling[t][j]
    BY <1>0, <2>1, OneAttempt
  <2>3. /\ item \in [Handler -> Item]
        /\ \A t \in Handler : item[t].at # "none" => item[t].attempts \in 1..MaxTries
    BY DEF WorkInvariant, WorkTypes, WorkIsPinned
  <2>4. Retreat
    BY <2>1, <2>2, <2>3 DEF Retreat
  <2> QED
    BY <1>2, <2>4, RetreatStep
<1>4. CASE Current("repro", k)
  <2> DEFINE to == IF payload.matched THEN "done" ELSE "review"
  <2> DEFINE x == [item["repro"] EXCEPT !.at = to]
  <2> DEFINE y == [at |-> "open", attempts |-> 1, payload |-> payload]
  <2>1. /\ item' = [item EXCEPT !["repro"].at = to, !["governor"] = y]
        /\ handling' = [handling EXCEPT !["repro"][k] = Nil,
                                        !["governor"][1] = Fresh("governor")]
    BY <1>4 DEF Announce
  <2>2. old = config /\ config \in Config
    BY <1>1 DEF WorkInvariant, WorkIsPinned, StartInvariant
  <2>3. mine.comparison \in Genuine /\ file.comparison \in Genuine
    BY <1>1 DEF Compares
  <2>4. /\ payload \in Finding
        /\ payload.bundle = config.bundle /\ payload.run = config.run
    BY <1>1, <2>2, <2>3, GenuineIsBoolean DEF Finding, Attempt, Config, Runs
  <2> HIDE DEF payload
  <2>5. 1 \in 1..MaxTries /\ 1 \in 0..MaxTries
    BY RebuildAssumption
  <2>6. y \in Item /\ y.at = "open" /\ y.attempts = 1 /\ y.payload = payload
    BY <2>4, <2>5 DEF Item, ItemStatus
  <2>7. to \in {"done", "review"}
    OBVIOUS
  <2> HIDE DEF y, to
  <2>8. /\ x \in Item /\ x.at = to
        /\ x.attempts = item["repro"].attempts /\ x.payload = old
    <3>1. to \in ItemStatus
      BY <2>7 DEF ItemStatus
    <3> QED
      BY <1>0, <3>1, ItemMoves
  <2>9. item \in [Handler -> Item] /\ "repro" # "governor"
    BY DEF WorkInvariant, WorkTypes
  <2>10. item' = [[item EXCEPT !["repro"] = x] EXCEPT !["governor"] = y]
    BY <1>0, <2>1, <2>9
  <2> HIDE DEF x
  <2>11. item' \in [Handler -> Item] /\ item'["repro"] = x /\ item'["governor"] = y
    BY <1>0, <2>6, <2>8, <2>9, <2>10
  <2>12. item["repro"].at = "open" /\ item["governor"].at = "none"
    BY <1>4 DEF Current, WorkInvariant, WorkIsPinned
  <2>13. \A j \in 1..MaxTries : handling["governor"][j] = Nil
    BY <1>0, <2>12 DEF WorkInvariant, WorkIsPinned
  <2>14. handling \in [Handler -> [1..MaxTries -> Attempt \cup {Nil}]]
    BY DEF WorkInvariant, WorkTypes
  <2>15. Fresh("governor") \in Attempt /\ Judges(Fresh("governor"))
    BY <1>0, FreshIsAttempt
  <2>16. /\ handling' \in [Handler -> [1..MaxTries -> Attempt \cup {Nil}]]
         /\ handling'["repro"][k] = Nil
         /\ handling'["governor"][1] = Fresh("governor")
         /\ \A j \in 1..MaxTries \ {k} : handling'["repro"][j] = handling["repro"][j]
         /\ \A j \in 1..MaxTries \ {1} : handling'["governor"][j] = Nil
    BY <1>0, <2>1, <2>5, <2>13, <2>14, <2>15
  <2>17. WorkTypes'
    BY <1>2, <2>11, <2>16 DEF WorkInvariant, WorkTypes
  <2>18. WorkIsPinned'
    <3>1. item'["repro"].at \notin {"none", "open"} /\ item'["repro"].payload = config
      BY <2>2, <2>7, <2>8, <2>11
    <3>2. /\ item'["governor"].payload \in Finding
          /\ item'["governor"].payload.bundle = config.bundle
          /\ item'["governor"].payload.run = config.run
          /\ item'["governor"].at = "open" /\ item'["governor"].attempts \in 1..MaxTries
      BY <2>4, <2>5, <2>6, <2>11
    <3>3. item'["repro"].attempts \in 1..MaxTries
      BY <1>0, <1>1, <2>8, <2>11 DEF WorkInvariant, WorkIsPinned
    <3>4. \A s \in Handler : item'[s].at # "none" /\ item'[s].attempts \in 1..MaxTries
      BY <3>1, <3>2, <3>3 DEF Handler
    <3> QED
      BY <1>1, <1>2, <3>1, <3>2, <3>4 DEF WorkIsPinned
  <2>19. AttemptsAreRight'
    <3>1. \A j \in 1..MaxTries :
            handling'["repro"][j] # Nil => Compares(handling'["repro"][j], file'.comparison)
      BY <1>2, <2>16 DEF WorkInvariant, AttemptsAreRight
    <3>2. \A j \in 1..MaxTries :
            handling'["governor"][j] # Nil => Judges(handling'["governor"][j])
      BY <2>15, <2>16
    <3> QED
      BY <1>2, <2>3, <3>1, <3>2 DEF AttemptsAreRight
  <2> QED
    BY <1>2, <2>17, <2>18, <2>19 DEF WorkInvariant, CandidateIsOneBuild
<1> QED
  BY <1>3, <1>4

-----------------------------------------------------------------------------
(* The steps of governor-v3.                                                *)

\* What the gate lets pass was made of one build made twice.
LEMMA GateMeansOneBuild ==
  ASSUME NEW x \in Genuine, NEW payload, payload.matched = TRUE,
         GateChecks(x, payload.matched, payload)
  PROVE  MadeTwice(payload.bundle, payload.run)
<1>1. PICK l \in Bundle, r \in Bundle, run \in Runs, k \in 1..MaxTries :
        x = Comparison(l, r, run, k)
  BY DEF Genuine, Reports
<1> DEFINE core == CoreChecks(l, r)
<1> DEFINE matched == \A check \in DOMAIN core : core[check]
<1> DEFINE behaves == matched /\ Behavior(Content[l].trace) = Behavior(Content[r].trace)
<1>2. /\ x.evidence = [left |-> l, right |-> r] /\ x.executions = run
      /\ x.core = core /\ x.behavior = behaves
  BY <1>1 DEF Comparison
<1>3. /\ payload.bundle = [left |-> l, right |-> r] /\ payload.run = run
      /\ (\A check \in DOMAIN x.core : x.core[check]) = TRUE /\ x.behavior = TRUE
  BY <1>2 DEF GateChecks
<1>4. matched
  BY <1>2, <1>3
<1>5. Behavior(Content[l].trace) = Behavior(Content[r].trace)
  <2>1. behaves = TRUE
    BY <1>2, <1>3
  <2> QED
    BY <2>1
<1>6. /\ Content[l].identity = Content[r].identity /\ Content[l].project = Content[r].project
      /\ Content[l].artifacts = Content[r].artifacts /\ Content[l].spdx = Content[r].spdx
      /\ Content[l].source = Content[r].source /\ Content[l].trusted = Content[r].trusted
      /\ Content[l].builder = Content[r].builder
      /\ Content[l].attestations # Content[r].attestations
  BY <1>4 DEF CoreChecks, StableBuilder
<1>7. /\ Content[l].verified /\ Content[r].verified
      /\ Content[l].run = run.left /\ Content[r].run = run.right /\ run.left # run.right
  <2>1. Authoritative(l) /\ Authoritative(r) /\ BoundToRuns(l, r, run)
    BY <1>2 DEF Genuine
  <2> QED
    BY <2>1 DEF Authoritative, BoundToRuns
<1>8. payload.bundle["left"] = l /\ payload.bundle["right"] = r
  BY <1>3
<1>9. \A part \in {"identity", "project", "artifacts", "spdx", "source", "trusted",
                   "builder"} : Content[l][part] = Content[r][part]
  BY <1>6
<1> QED
  BY <1>3, <1>5, <1>6, <1>7, <1>8, <1>9 DEF MadeTwice, Behavior

\* A step of governor-v3 before its decision.
LEMMA GovernorReads ==
  ASSUME WorkInvariant, NEW k \in 1..MaxTries,
         CheckComparison(k) \/ ReadComparison(k) \/ CheckMismatch(k) \/ ReadMismatch(k)
  PROVE  WorkInvariant'
<1> DEFINE mine == handling["governor"][k]
<1> DEFINE payload == item["governor"].payload
<1>1. /\ mine # Nil /\ mine \in Attempt /\ Judges(mine) /\ Unwritten
      /\ file.comparison \in Genuine
  BY AttemptAt DEF CheckComparison, ReadComparison, CheckMismatch, ReadMismatch, At, Handler
<1>2. UNCHANGED <<file, config, candidate>>
  BY <1>1 DEF Unwritten
<1>3. CASE CheckComparison(k)
  <2> DEFINE a == [mine EXCEPT !.at = "read_comparison"]
  <2>1. a \in Attempt /\ a.at = "read_comparison"
    BY <1>1, AttemptMoves DEF Place
  <2>2. Passes("governor", k, file.comparison = payload.comparison, a)
    BY <1>3 DEF CheckComparison
  <2> HIDE DEF a
  <2>3. Judges(a)
    BY <2>1 DEF Judges
  <2> QED
    BY <1>1, <2>1, <2>2, <2>3, GovernorPasses
<1>4. CASE ReadComparison(k)
  <2> DEFINE to == IF payload.matched THEN "gate" ELSE "check_mismatch"
  <2> DEFINE a == [mine EXCEPT !.comparison = file.comparison, !.at = to]
  <2>1. Becomes("governor", k, a) /\ item' = item
    BY <1>4 DEF ReadComparison
  <2>2. to \in Place
    BY DEF Place
  <2> HIDE DEF to
  <2>3. a \in Attempt /\ a.comparison = file.comparison
    BY <1>1, <2>2 DEF Attempt
  <2> HIDE DEF a
  <2>4. Judges(a)
    BY <1>1, <2>3 DEF Judges
  <2> QED
    BY <1>1, <1>2, <2>1, <2>3, <2>4, GovernorGoesOn
<1>5. CASE CheckMismatch(k)
  <2> DEFINE a == [mine EXCEPT !.at = "read_mismatch"]
  <2>1. a \in Attempt /\ a.at = "read_mismatch" /\ a.comparison = mine.comparison
    BY <1>1, AttemptMoves DEF Place
  <2>2. Passes("governor", k, file.mismatch = payload.mismatch, a)
    BY <1>5 DEF CheckMismatch
  <2>3. mine.at = "check_mismatch"
    BY <1>5 DEF CheckMismatch, At
  <2> HIDE DEF a
  <2>4. Judges(a)
    BY <1>1, <2>1, <2>3 DEF Judges
  <2> QED
    BY <1>1, <2>1, <2>2, <2>4, GovernorPasses
<1>6. CASE ReadMismatch(k)
  <2> DEFINE a == [mine EXCEPT !.mismatch = file.mismatch, !.at = "gate"]
  <2>1. Becomes("governor", k, a) /\ item' = item
    BY <1>6 DEF ReadMismatch
  <2>2. mine.at = "read_mismatch"
    BY <1>6 DEF ReadMismatch, At
  <2>3. file.mismatch \in Genuine \cup {Nil}
    BY DEF WorkInvariant, WorkTypes
  <2>4. a \in Attempt /\ a.comparison = mine.comparison
    BY <1>1, <2>3 DEF Attempt, Place
  <2> HIDE DEF a
  <2>5. Judges(a)
    BY <1>1, <2>2, <2>4 DEF Judges
  <2> QED
    BY <1>1, <1>2, <2>1, <2>4, <2>5, GovernorGoesOn
<1> QED
  BY <1>3, <1>4, <1>5, <1>6

\* The decision.
LEMMA JudgeStep ==
  ASSUME WorkInvariant, NEW k \in 1..MaxTries, Judge(k)
  PROVE  WorkInvariant'
<1> DEFINE mine == handling["governor"][k]
<1> DEFINE payload == item["governor"].payload
<1> DEFINE coherent == /\ GateChecks(mine.comparison, payload.matched, payload)
                       /\ payload.matched \/ mine.mismatch = payload.comparison
<1> DEFINE outcome == IF ~coherent THEN "blocked"
                      ELSE IF payload.matched THEN "done" ELSE "review"
<1>1. /\ mine # Nil /\ mine \in Attempt /\ mine.at = "gate" /\ Judges(mine)
      /\ item["governor"].at # "none" /\ config # Nil
  BY AttemptAt DEF Judge, At, Handler
<1>2. /\ Ends("governor", k, outcome) /\ UNCHANGED <<file, config>>
      /\ \/ candidate' = candidate
         \/ coherent /\ payload.matched
  BY DEF Judge
<1>3. outcome \in ItemStatus \ {"none", "open"}
  BY DEF ItemStatus
<1>4. Retreat
  <2> HIDE DEF outcome
  <2> QED
    BY <1>1, <1>2, <1>3, EndsIs DEF Handler
<1>5. WorkTypes' /\ WorkIsPinned' /\ AttemptsAreRight'
  BY <1>1, <1>2, <1>4, RetreatKeeps
<1>6. CASE candidate' = candidate
  BY <1>2, <1>5, <1>6 DEF WorkInvariant, CandidateIsOneBuild
<1>7. CASE coherent /\ payload.matched
  <2>1. mine.comparison \in Genuine
    BY <1>1 DEF Judges
  <2>2. /\ payload \in Finding
        /\ payload.bundle = config.bundle /\ payload.run = config.run
    BY <1>1 DEF WorkInvariant, WorkIsPinned
  <2>3. payload.matched = TRUE
    BY <1>7, <2>2 DEF Finding
  <2>4. MadeTwice(payload.bundle, payload.run)
    <3> HIDE DEF payload
    <3> QED
      BY <1>7, <2>1, <2>3, GateMeansOneBuild
  <2>5. MadeTwice(config.bundle, config.run)
    BY <2>2, <2>4
  <2>6. MadeTwice(config.bundle, config.run)'
    BY <1>2, <2>5 DEF MadeTwice
  <2> QED
    BY <1>5, <2>6 DEF WorkInvariant, CandidateIsOneBuild
<1> QED
  BY <1>2, <1>6, <1>7

LEMMA ExpireStep ==
  ASSUME WorkInvariant, NEW s \in Handler, NEW k \in 1..MaxTries, Expire(s, k)
  PROVE  WorkInvariant'
BY AgainIs, RetreatStep DEF Expire

-----------------------------------------------------------------------------
(* The invariant.                                                           *)

\* The run is created once, with the first attempt.
LEMMA PinKeepsWork ==
  ASSUME RebuildInvariant, NEW c \in 1..MaxStarts, Pin(c)
  PROVE  WorkInvariant'
<1> DEFINE payload == [bundle |-> starter[c].found, run |-> starter[c].request.run]
<1> DEFINE y == [at |-> "open", attempts |-> 1, payload |-> payload]
<1>0. "repro" \in Handler /\ "governor" \in Handler
  BY DEF Handler
<1>1. payload \in Config
  BY PinStep DEF RebuildInvariant
<1>2. UNCHANGED <<file, candidate>>
  BY DEF Pin
<1>3. CASE config # Nil
  <2>1. UNCHANGED <<config, item, handling>>
    BY <1>3 DEF Pin
  <2> QED
    BY <1>2, <2>1 DEF RebuildInvariant, WorkInvariant, WorkTypes, WorkIsPinned,
                      AttemptsAreRight, CandidateIsOneBuild, MadeTwice
<1>4. CASE config = Nil
  <2>1. /\ config' = payload /\ item' = [item EXCEPT !["repro"] = y]
        /\ handling' = [handling EXCEPT !["repro"][1] = Fresh("repro")]
    BY <1>4 DEF Pin
  <2> HIDE DEF payload
  <2>2. config' # Nil
    BY <1>1, <2>1, RebuildAssumption
  <2>3. /\ item["repro"].at = "none" /\ item["governor"].at = "none" /\ candidate = Nil
        /\ \A s \in Handler, k \in 1..MaxTries : handling[s][k] = Nil
    <3>1. item["repro"].at = "none" /\ candidate = Nil
      BY <1>4 DEF RebuildInvariant, WorkInvariant, WorkIsPinned
    <3>2. item["governor"].at = "none"
      BY <3>1 DEF RebuildInvariant, WorkInvariant, WorkIsPinned
    <3>3. \A s \in Handler : item[s].at = "none"
      BY <3>1, <3>2 DEF Handler
    <3> QED
      BY <3>1, <3>2, <3>3 DEF RebuildInvariant, WorkInvariant, WorkIsPinned
  <2>4. 1 \in 1..MaxTries /\ 1 \in 0..MaxTries
    BY RebuildAssumption
  <2>5. y \in Item /\ y.at = "open" /\ y.attempts = 1 /\ y.payload = payload
    BY <1>1, <2>4 DEF Item, ItemStatus
  <2> HIDE DEF y
  <2>6. /\ item' \in [Handler -> Item] /\ item'["repro"] = y
        /\ item'["governor"] = item["governor"]
    BY <1>0, <2>1, <2>5, OneItem DEF RebuildInvariant
  <2>7. Fresh("repro") \in Attempt /\ \A report : Compares(Fresh("repro"), report)
    BY <1>0, FreshIsAttempt
  <2>8. /\ handling' \in [Handler -> [1..MaxTries -> Attempt \cup {Nil}]]
        /\ handling'["repro"][1] = Fresh("repro")
        /\ \A j \in 1..MaxTries \ {1} : handling'["repro"][j] = Nil
        /\ \A j \in 1..MaxTries : handling'["governor"][j] = Nil
    <3>1. handling \in [Handler -> [1..MaxTries -> Attempt \cup {Nil}]]
      BY DEF RebuildInvariant, WorkInvariant, WorkTypes
    <3> QED
      BY <1>0, <2>1, <2>3, <2>4, <2>7, <3>1
  <2>9. WorkTypes'
    BY <1>2, <2>6, <2>8 DEF RebuildInvariant, WorkInvariant, WorkTypes
  <2>10. WorkIsPinned'
    <3>1. \A s \in Handler : item'[s].at # "none" => item'[s].attempts \in 1..MaxTries
      BY <2>3, <2>4, <2>5, <2>6 DEF Handler
    <3>2. \A s \in Handler, k \in 1..MaxTries :
            handling'[s][k] # Nil => item'[s].at # "none"
      BY <2>5, <2>6, <2>8 DEF Handler
    <3> QED
      BY <1>2, <2>1, <2>2, <2>3, <2>5, <2>6, <3>1, <3>2 DEF WorkIsPinned
  <2>11. AttemptsAreRight'
    BY <1>2, <2>3, <2>6, <2>7, <2>8 DEF AttemptsAreRight
  <2> QED
    BY <1>2, <2>3, <2>9, <2>10, <2>11 DEF WorkInvariant, CandidateIsOneBuild
<1> QED
  BY <1>3, <1>4

LEMMA WorkStutters ==
  ASSUME WorkInvariant, UNCHANGED <<config, item, handling, file, candidate>>
  PROVE  WorkInvariant'
BY DEF WorkInvariant, WorkTypes, WorkIsPinned, AttemptsAreRight, CandidateIsOneBuild,
       MadeTwice

LEMMA StartStutters ==
  ASSUME StartInvariant, UNCHANGED <<starter, manifest, config>>
  PROVE  StartInvariant'
BY DEF StartInvariant

LEMMA StartKeeps ==
  ASSUME RebuildInvariant, NEW c \in 1..MaxStarts, Starts(c)
  PROVE  RebuildInvariant'
<1>1. CASE Pin(c)
  BY <1>1, PinStep, PinKeepsWork DEF RebuildInvariant
<1>2. CASE ~Pin(c)
  <2>1. UNCHANGED <<config, item, handling, file, candidate>>
    BY <1>2 DEF Starts, Begin, Find, StageRight
  <2>2. StartInvariant'
    <3>1. ASSUME NEW q \in Requested, Begin(c, q) PROVE StartInvariant'
      BY <3>1, BeginStep DEF RebuildInvariant
    <3>2. CASE Find(c, "left", "find_left", "stage_right")
      BY <3>2, FindStep DEF RebuildInvariant, Side, Stage
    <3>3. CASE Find(c, "right", "find_right", "pin")
      BY <3>3, FindStep DEF RebuildInvariant, Side, Stage
    <3>4. CASE StageRight(c)
      BY <3>4, StageRightStep DEF RebuildInvariant
    <3> QED
      BY <1>2, <3>1, <3>2, <3>3, <3>4 DEF Starts
  <2> QED
    BY <2>1, <2>2, WorkStutters DEF RebuildInvariant
<1> QED
  BY <1>1, <1>2

LEMMA ReproKeeps ==
  ASSUME RebuildInvariant, NEW k \in 1..MaxTries, Repro(k)
  PROVE  RebuildInvariant'
<1>1. UNCHANGED <<starter, manifest, config>>
  BY DEF Repro, CheckInputs, Verifies, Load, WriteComparison, Refer, WriteMismatch,
         ReferMismatch, Announce, Unwritten
<1>2. WorkInvariant'
  <2>1. CASE CheckInputs(k)
    BY <2>1, CheckInputsStep DEF RebuildInvariant
  <2>2. CASE \/ Verifies(k, "left", "verify_left", "verify_right")
             \/ Verifies(k, "right", "verify_right", "load_left")
    BY <2>2, VerifiesStep DEF RebuildInvariant, Side
  <2>3. CASE \/ Load(k, "left", "load_left", "load_right")
             \/ Load(k, "right", "load_right", "compare")
    BY <2>3, LoadStep DEF RebuildInvariant, Side
  <2>4. CASE WriteComparison(k)
    BY <2>4, WriteComparisonStep DEF RebuildInvariant
  <2>5. CASE Refer(k)
    BY <2>5, ReferStep DEF RebuildInvariant
  <2>6. CASE WriteMismatch(k) \/ ReferMismatch(k)
    BY <2>6, WriteMismatchStep, ReferMismatchStep DEF RebuildInvariant
  <2>7. CASE Announce(k)
    BY <2>7, AnnounceStep DEF RebuildInvariant
  <2> QED
    BY <2>1, <2>2, <2>3, <2>4, <2>5, <2>6, <2>7 DEF Repro
<1> QED
  BY <1>1, <1>2, StartStutters DEF RebuildInvariant

LEMMA GovernorKeeps ==
  ASSUME RebuildInvariant, NEW k \in 1..MaxTries,
         Governor(k) \/ \E s \in Handler : Expire(s, k)
  PROVE  RebuildInvariant'
<1>1. UNCHANGED <<starter, manifest, config>>
  BY DEF Governor, CheckComparison, ReadComparison, CheckMismatch, ReadMismatch, Judge,
         Expire, Unwritten
<1>2. WorkInvariant'
  BY GovernorReads, JudgeStep, ExpireStep DEF RebuildInvariant, Governor
<1> QED
  BY <1>1, <1>2, StartStutters DEF RebuildInvariant

LEMMA RebuildInvariantInit == RebuildInit => RebuildInvariant
<1> SUFFICES ASSUME RebuildInit PROVE RebuildInvariant
  OBVIOUS
<1>1. StartInvariant
  BY StartInvariantInit
<1>2. \A s \in Handler : item[s] = [at |-> "none", attempts |-> 0, payload |-> Nil]
  BY DEF RebuildInit
<1>3. 0 \in 0..MaxTries
  BY RebuildAssumption
<1>4. WorkTypes
  BY <1>3 DEF RebuildInit, WorkTypes, Item, ItemStatus
<1>5. \A s \in Handler : item[s].at = "none"
  BY <1>2
<1>6. "repro" \in Handler /\ "governor" \in Handler
  BY DEF Handler
<1>7. \A s \in Handler, k \in 1..MaxTries : handling[s][k] = Nil
  BY DEF RebuildInit
<1> QED
  BY <1>1, <1>4, <1>5, <1>6, <1>7 DEF RebuildInit, RebuildInvariant, WorkInvariant,
     WorkIsPinned, AttemptsAreRight, CandidateIsOneBuild

LEMMA RebuildInvariantStep ==
  RebuildInvariant /\ [RebuildNext]_rebuildVars => RebuildInvariant'
<1> SUFFICES ASSUME RebuildInvariant, [RebuildNext]_rebuildVars PROVE RebuildInvariant'
  OBVIOUS
<1>1. CASE UNCHANGED rebuildVars
  BY <1>1, StartStutters, WorkStutters DEF RebuildInvariant, rebuildVars
<1>2. CASE RebuildNext
  BY <1>2, StartKeeps, ReproKeeps, GovernorKeeps DEF RebuildNext
<1> QED
  BY <1>1, <1>2

-----------------------------------------------------------------------------
(* One start that nothing disturbs, of one build that was made twice.       *)

Undisturbed ==
  (\A c \in 2..MaxStarts : starter[c].request = Nil) /\ expiries = 0

Sound == config # Nil => MadeTwice(config.bundle, config.run)

\* What the start has staged, found and asked for.
Staging ==
  LET start == starter[1]
  IN  /\ start.at # "idle" => manifest["left"] = start.request.bundle["left"]
      /\ start.at \notin {"idle", "find_left"} =>
           start.found["left"] = start.request.bundle["left"]
      /\ start.at \notin {"idle", "find_left", "stage_right"} =>
           manifest["right"] = start.request.bundle["right"]
      /\ start.at \in {"pin", "done"} =>
           start.found["right"] = start.request.bundle["right"]
      /\ config # Nil => start.at = "done" /\ config.bundle = start.found

\* There is one attempt of either agent, and it does not fail.
First ==
  /\ \A s \in Handler : item[s].at \in {"none", "open", "done"}
  /\ \A s \in Handler, k \in 2..MaxTries : handling[s][k] = Nil

\* A report of the two bundles of the config that finds them equal.
Expected(x, cfg) ==
  /\ x.reproducible = TRUE /\ x.behavior = TRUE
  /\ (\A check \in DOMAIN x.core : x.core[check]) = TRUE
  /\ x.evidence = cfg.bundle /\ x.executions = cfg.run

ExpectedRepro(mine, cfg, report) ==
  /\ mine.at \notin {"mismatch", "refer_mismatch"}
  /\ mine.at \in {"verify_right", "load_left", "load_right", "compare"} =>
       mine.left = cfg.bundle["left"]
  /\ mine.at \in {"load_left", "load_right", "compare"} =>
       mine.right = cfg.bundle["right"]
  /\ mine.at \in {"refer", "done"} =>
       Expected(mine.comparison, cfg) /\ report = mine.comparison
  /\ mine.at = "done" => mine.ref = mine.comparison

ExpectedGovernor(mine, payload) ==
  /\ mine.at \notin {"check_mismatch", "read_mismatch"}
  /\ mine.at = "gate" => mine.comparison = payload.comparison

WorkAsExpected ==
  /\ handling["repro"][1] # Nil =>
       ExpectedRepro(handling["repro"][1], config, file.comparison)
  /\ item["governor"].at # "none" =>
       /\ handling["repro"][1] = Nil
       /\ item["governor"].payload.matched = TRUE
       /\ Expected(item["governor"].payload.comparison, config)
       /\ file.comparison = item["governor"].payload.comparison
       /\ handling["governor"][1] # Nil =>
            ExpectedGovernor(handling["governor"][1], item["governor"].payload)

AsExpected == Staging /\ First /\ (config # Nil => WorkAsExpected)

SteadyInvariant == expiries \in Nat /\ (Undisturbed /\ Sound => AsExpected)

\* What is there to be compared, once the run is created.
LEMMA BundlesAreThere ==
  ASSUME RebuildInvariant, Staging, config # Nil
  PROVE  /\ config \in Config
         /\ manifest["left"] = config.bundle["left"] /\ manifest["left"] \in Bundle
         /\ manifest["right"] = config.bundle["right"] /\ manifest["right"] \in Bundle
<1>1. starter[1].at = "done" /\ config.bundle = starter[1].found
  BY DEF Staging
<1>2. \A side \in Side : manifest[side] \in Bundle
  BY DEF RebuildInvariant, StartInvariant
<1>3. config \in Config
  BY DEF RebuildInvariant, StartInvariant
<1> QED
  BY <1>1, <1>2, <1>3 DEF Staging, Side

\* Of one build made twice the report says so.
LEMMA ReportIsExpected ==
  ASSUME NEW cfg \in Config, MadeTwice(cfg.bundle, cfg.run), NEW k,
         NEW l, NEW r, l = cfg.bundle["left"], r = cfg.bundle["right"]
  PROVE  /\ Authoritative(l) /\ Authoritative(r) /\ BoundToRuns(l, r, cfg.run)
         /\ Expected(Comparison(l, r, cfg.run, k), cfg)
<1> DEFINE core == CoreChecks(l, r)
<1> DEFINE matched == \A check \in DOMAIN core : core[check]
<1> DEFINE behaves == matched /\ Behavior(Content[l].trace) = Behavior(Content[r].trace)
<1> DEFINE x == Comparison(l, r, cfg.run, k)
<1>1. Authoritative(l) /\ Authoritative(r) /\ BoundToRuns(l, r, cfg.run)
  BY DEF MadeTwice, Authoritative, BoundToRuns
<1>2. \A part \in {"identity", "project", "artifacts", "spdx", "source", "trusted",
                   "builder"} : Content[l][part] = Content[r][part]
  BY DEF MadeTwice
<1>3. /\ Content[l].identity = Content[r].identity /\ Content[l].project = Content[r].project
      /\ Content[l].artifacts = Content[r].artifacts /\ Content[l].spdx = Content[r].spdx
      /\ Content[l].source = Content[r].source /\ Content[l].trusted = Content[r].trusted
      /\ Content[l].builder = Content[r].builder
  BY <1>2
<1>4. /\ Content[l].attestations # Content[r].attestations
      /\ Behavior(Content[l].trace) = Behavior(Content[r].trace)
  BY DEF MadeTwice, Behavior
<1>5. matched
  <2>1. DOMAIN core = {"identity", "project", "artifacts", "normalizedSpdx",
          "sourceInventory", "trustedSourceInventory", "stableBuilder",
          "distinctAttestationSets"}
    BY DEF CoreChecks
  <2>2. /\ core.identity /\ core.project /\ core.artifacts /\ core.normalizedSpdx
        /\ core.sourceInventory /\ core.trustedSourceInventory /\ core.stableBuilder
    BY <1>3 DEF CoreChecks, StableBuilder
  <2>3. core.distinctAttestationSets
    BY <1>4 DEF CoreChecks
  <2> HIDE DEF core
  <2> QED
    BY <2>1, <2>2, <2>3
<1>6. /\ x.evidence = [left |-> l, right |-> r] /\ x.executions = cfg.run
      /\ x.core = core /\ x.reproducible = matched /\ x.behavior = behaves
  BY DEF Comparison
<1>7. matched = TRUE /\ behaves = TRUE
  BY <1>4, <1>5
<1>8. [left |-> l, right |-> r] = cfg.bundle
  <2>1. cfg.bundle \in [Side -> Bundle \cup {Nil}]
    BY DEF Config
  <2> QED
    BY <2>1 DEF Side
<1> HIDE DEF x, core
<1>9. Expected(x, cfg)
  <2>1. (\A check \in DOMAIN x.core : x.core[check]) = TRUE
    BY <1>5, <1>6
  <2> HIDE DEF matched, behaves
  <2> QED
    BY <1>6, <1>7, <1>8, <2>1 DEF Expected
<1> QED
  BY <1>1, <1>9 DEF x

\* Nobody takes back a request, a lease that ran out, or the config of the run.
LEMMA SteadyBefore ==
  ASSUME RebuildInvariant, expiries \in Nat, RebuildNext, Undisturbed', Sound'
  PROVE  Undisturbed /\ Sound /\ expiries' = expiries
<1>1. \A c \in 1..MaxStarts : starter'[c].request = Nil => starter[c].request = Nil
  <2>1. CASE \E c \in 1..MaxStarts : Starts(c)
    <3>1. PICK c \in 1..MaxStarts : Starts(c)
      BY <2>1
    <3>2. CASE \E q \in Requested : Begin(c, q)
      <4>1. PICK q \in Requested : Begin(c, q)
        BY <3>2
      <4>2. q # Nil
        BY RebuildAssumption
      <4> QED
        BY <4>1, <4>2 DEF Begin, RebuildInvariant, StartInvariant
    <3>3. CASE \/ Find(c, "left", "find_left", "stage_right")
               \/ Find(c, "right", "find_right", "pin")
      BY <3>3, FindStep DEF RebuildInvariant, Side, Stage
    <3>4. CASE StageRight(c) \/ Pin(c)
      BY <3>4, MovesIs DEF StageRight, Pin, Stage, RebuildInvariant
    <3> QED
      BY <3>1, <3>2, <3>3, <3>4 DEF Starts
  <2>2. CASE \E k \in 1..MaxTries :
               Repro(k) \/ Governor(k) \/ \E s \in Handler : Expire(s, k)
    <3>1. starter' = starter
      BY <2>2 DEF Repro, CheckInputs, Verifies, Load, WriteComparison, Refer, WriteMismatch,
         ReferMismatch, Announce, Governor, CheckComparison, ReadComparison, CheckMismatch,
         ReadMismatch, Judge, Expire, Unwritten
    <3> QED
      BY <3>1
  <2> QED
    BY <2>1, <2>2 DEF RebuildNext
<1>2. expiries' = expiries \/ expiries' = expiries + 1
  BY DEF RebuildNext, Starts, Begin, Find, StageRight, Pin, Repro, CheckInputs, Verifies, Load,
     WriteComparison, Refer, WriteMismatch, ReferMismatch, Announce, Governor,
     CheckComparison, ReadComparison, CheckMismatch, ReadMismatch, Judge, Expire, Unwritten
<1>3. config # Nil => config' = config
  BY DEF RebuildNext, Starts, Begin, Find, StageRight, Pin, Repro, CheckInputs, Verifies, Load,
     WriteComparison, Refer, WriteMismatch, ReferMismatch, Announce, Governor,
     CheckComparison, ReadComparison, CheckMismatch, ReadMismatch, Judge, Expire, Unwritten
<1>4. Undisturbed /\ expiries' = expiries
  <2>1. expiries' = 0
    BY DEF Undisturbed
  <2>2. expiries = 0
    BY <1>2, <2>1
  <2>3. \A c \in 2..MaxStarts : c \in 1..MaxStarts
    BY RebuildAssumption
  <2>4. \A c \in 2..MaxStarts : starter[c].request = Nil
    BY <1>1, <2>3 DEF Undisturbed
  <2> QED
    BY <2>1, <2>2, <2>4 DEF Undisturbed
<1>5. Sound
  BY <1>3 DEF Sound, MadeTwice
<1> QED
  BY <1>4, <1>5

\* The work rests while a start goes on.
LEMMA StagingGoesOn ==
  ASSUME AsExpected, config = Nil, config' = Nil, UNCHANGED <<item, handling>>, Staging'
  PROVE  AsExpected'
BY DEF AsExpected, First

LEMMA SteadyStarts ==
  ASSUME RebuildInvariant, AsExpected, NEW c \in 1..MaxStarts, Starts(c), Undisturbed'
  PROVE  AsExpected'
<1> USE DEF RebuildInvariant
<1>0. starter \in [1..MaxStarts -> Starter]
  BY DEF StartInvariant
<1>1. c \notin 2..MaxStarts
  <2>1. SUFFICES starter'[c].request # Nil
    BY DEF Undisturbed
  <2>2. CASE \E q \in Requested : Begin(c, q)
    BY <1>0, <2>2, RebuildAssumption DEF Begin
  <2>3. CASE \/ Find(c, "left", "find_left", "stage_right")
             \/ Find(c, "right", "find_right", "pin")
    <3>1. starter[c].at # "idle" /\ starter'[c].request = starter[c].request
      BY <2>3, FindStep DEF Find, AtStart, Side, Stage
    <3> QED
      BY <3>1 DEF StartInvariant
  <2>4. CASE StageRight(c) \/ Pin(c)
    <3>1. starter[c].at # "idle" /\ starter'[c].request = starter[c].request
      BY <2>4, MovesIs DEF StageRight, Pin, AtStart, Stage
    <3> QED
      BY <3>1 DEF StartInvariant
  <2> QED
    BY <2>2, <2>3, <2>4 DEF Starts
<1>2. c = 1
  BY <1>1, RebuildAssumption
<1>3. 1 \in 1..MaxStarts /\ starter[1].at # "done"
  BY <1>2 DEF Starts, Begin, Find, StageRight, Pin, AtStart
<1>4. config = Nil /\ Staging
  BY <1>3 DEF AsExpected, Staging
<1>5. manifest \in [Side -> Bundle \cup {Nil}] /\ starter[1].found \in [Side -> Bundle \cup {Nil}]
  BY <1>0, <1>3 DEF StartInvariant, Starter
<1>6. CASE \E q \in Requested : Begin(1, q)
  <2>1. PICK q \in Requested : Begin(1, q)
    BY <1>6
  <2>2. /\ starter'[1].at = "find_left" /\ starter'[1].request = q
        /\ manifest'["left"] = q.bundle["left"] /\ config' = Nil
    BY <1>0, <1>3, <1>4, <1>5, <2>1 DEF Begin, Side
  <2>3. Staging'
    BY <2>2 DEF Staging
  <2> QED
    BY <1>4, <2>1, <2>2, <2>3, StagingGoesOn DEF Begin
<1>7. CASE Find(1, "left", "find_left", "stage_right")
  <2>1. /\ starter[1].at = "find_left" /\ UNCHANGED <<manifest, config, item, handling>>
        /\ starter'[1].at = "stage_right" /\ starter'[1].request = starter[1].request
        /\ starter'[1].found["left"] = manifest["left"]
    <3>1. /\ starter'[1].request = starter[1].request /\ starter'[1].at = "stage_right"
          /\ starter'[1].found = [starter[1].found EXCEPT !["left"] = manifest["left"]]
      <4>1. "left" \in Side /\ "stage_right" \in Stage
        BY DEF Side, Stage
      <4> QED
        BY <1>3, <1>7, <4>1, FindStep
    <3> QED
      BY <1>5, <1>7, <3>1 DEF Find, AtStart, Side
  <2>2. Staging'
    BY <1>4, <2>1 DEF Staging
  <2> QED
    BY <1>4, <2>1, <2>2, StagingGoesOn
<1>8. CASE StageRight(1)
  <2>1. /\ starter[1].at = "stage_right" /\ UNCHANGED <<config, item, handling>>
        /\ starter'[1].at = "find_right" /\ starter'[1].request = starter[1].request
        /\ starter'[1].found = starter[1].found
        /\ manifest' = [manifest EXCEPT !["right"] = starter[1].request.bundle["right"]]
    BY <1>3, <1>8, MovesIs DEF StageRight, AtStart, Stage
  <2>2. /\ manifest'["left"] = manifest["left"]
        /\ manifest'["right"] = starter[1].request.bundle["right"]
    BY <1>5, <2>1 DEF Side
  <2>3. Staging'
    BY <1>4, <2>1, <2>2 DEF Staging
  <2> QED
    BY <1>4, <2>1, <2>3, StagingGoesOn
<1>9. CASE Find(1, "right", "find_right", "pin")
  <2>1. /\ starter[1].at = "find_right" /\ UNCHANGED <<manifest, config, item, handling>>
        /\ starter'[1].at = "pin" /\ starter'[1].request = starter[1].request
        /\ starter'[1].found["right"] = manifest["right"]
        /\ starter'[1].found["left"] = starter[1].found["left"]
    <3>1. /\ starter'[1].request = starter[1].request /\ starter'[1].at = "pin"
          /\ starter'[1].found = [starter[1].found EXCEPT !["right"] = manifest["right"]]
      <4>1. "right" \in Side /\ "pin" \in Stage
        BY DEF Side, Stage
      <4> QED
        BY <1>3, <1>9, <4>1, FindStep
    <3> QED
      BY <1>5, <1>9, <3>1 DEF Find, AtStart, Side
  <2>2. Staging'
    BY <1>4, <2>1 DEF Staging
  <2> QED
    BY <1>4, <2>1, <2>2, StagingGoesOn
<1>10. CASE Pin(1)
  <2> DEFINE payload == [bundle |-> starter[1].found, run |-> starter[1].request.run]
  <2> DEFINE y == [at |-> "open", attempts |-> 1, payload |-> payload]
  <2>1. /\ starter[1].at = "pin" /\ UNCHANGED <<manifest, file>>
        /\ starter'[1].at = "done" /\ starter'[1].request = starter[1].request
        /\ starter'[1].found = starter[1].found
    BY <1>3, <1>10, MovesIs DEF Pin, AtStart, Stage
  <2>2. /\ config' = payload /\ item' = [item EXCEPT !["repro"] = y]
        /\ handling' = [handling EXCEPT !["repro"][1] = Fresh("repro")]
    BY <1>4, <1>10 DEF Pin
  <2>3. config'.bundle = starter'[1].found
    BY <2>1, <2>2
  <2> HIDE DEF payload
  <2>4. Staging'
    BY <1>4, <2>1, <2>3 DEF Staging
  <2>5. item["governor"].at = "none"
    BY <1>4 DEF WorkInvariant, WorkIsPinned
  <2>6. /\ item'["repro"].at = "open" /\ item'["governor"] = item["governor"]
    BY <2>2 DEF WorkInvariant, WorkTypes, Handler
  <2>7. /\ handling'["repro"][1] = Fresh("repro")
        /\ \A s \in Handler, k \in 2..MaxTries : handling'[s][k] = handling[s][k]
    BY <2>2, RebuildAssumption DEF WorkInvariant, WorkTypes, Handler
  <2>8. First'
    BY <2>6, <2>7 DEF AsExpected, First, Handler
  <2>9. ExpectedRepro(Fresh("repro"), config', file'.comparison)
    BY DEF ExpectedRepro, Fresh
  <2>10. WorkAsExpected'
    BY <2>5, <2>6, <2>7, <2>9 DEF WorkAsExpected
  <2> QED
    BY <2>4, <2>8, <2>10 DEF AsExpected
<1> QED
  BY <1>2, <1>6, <1>7, <1>8, <1>9, <1>10 DEF Starts

\* What an attempt that is under way can count on.
LEMMA FirstAttempt ==
  ASSUME RebuildInvariant, AsExpected, Sound,
         NEW s \in Handler, NEW k \in 1..MaxTries, handling[s][k] # Nil
  PROVE  /\ k = 1 /\ handling[s][1] \in Attempt
         /\ config \in Config /\ config # Nil /\ MadeTwice(config.bundle, config.run)
         /\ manifest["left"] = config.bundle["left"]
         /\ manifest["right"] = config.bundle["right"]
         /\ item["repro"].payload = config
         /\ s = "repro" => ExpectedRepro(handling[s][1], config, file.comparison)
         /\ s = "governor" => /\ handling["repro"][1] = Nil
                              /\ item["governor"].at # "none"
                              /\ ExpectedGovernor(handling[s][1], item["governor"].payload)
<1>1. handling[s][k] \in Attempt /\ item[s].at # "none" /\ config # Nil
  BY AttemptAt DEF RebuildInvariant
<1>2. k = 1
  BY RebuildAssumption DEF AsExpected, First
<1>3. /\ config \in Config /\ manifest["left"] = config.bundle["left"]
      /\ manifest["right"] = config.bundle["right"]
  BY <1>1, BundlesAreThere DEF AsExpected
<1>4. MadeTwice(config.bundle, config.run)
  BY <1>1 DEF Sound
<1>5. item["repro"].payload = config
  BY <1>1 DEF RebuildInvariant, WorkInvariant, WorkIsPinned, Handler
<1>6. WorkAsExpected
  BY <1>1 DEF AsExpected
<1> QED
  BY <1>1, <1>2, <1>3, <1>4, <1>5, <1>6 DEF WorkAsExpected

LEMMA ReproAsExpected ==
  ASSUME RebuildInvariant, AsExpected, handling["repro"][1] # Nil,
         NEW a \in Attempt, Becomes("repro", 1, a), item' = item,
         UNCHANGED <<starter, config, manifest>>,
         ExpectedRepro(a, config, file'.comparison)
  PROVE  AsExpected'
<1>1. "repro" \in Handler /\ 1 \in 1..MaxTries /\ \A k \in 2..MaxTries : k \in 1..MaxTries
  BY RebuildAssumption DEF Handler
<1>2. /\ handling'["repro"][1] = a
      /\ \A t \in Handler, j \in 1..MaxTries :
           t # "repro" \/ j # 1 => handling'[t][j] = handling[t][j]
  BY <1>1, OneAttempt DEF RebuildInvariant
<1>3. config # Nil
  BY <1>1, AttemptAt DEF RebuildInvariant
<1>4. item["governor"].at = "none"
  BY <1>3 DEF AsExpected, WorkAsExpected
<1>5. Staging'
  BY DEF AsExpected, Staging
<1>6. First'
  BY <1>1, <1>2 DEF AsExpected, First
<1>7. WorkAsExpected'
  BY <1>2, <1>4 DEF WorkAsExpected
<1> QED
  BY <1>5, <1>6, <1>7 DEF AsExpected

LEMMA GovernorAsExpected ==
  ASSUME RebuildInvariant, AsExpected, handling["governor"][1] # Nil,
         NEW a \in Attempt, Becomes("governor", 1, a), item' = item,
         UNCHANGED <<starter, config, manifest, file>>,
         ExpectedGovernor(a, item["governor"].payload)
  PROVE  AsExpected'
<1>1. "governor" \in Handler /\ "repro" \in Handler /\ 1 \in 1..MaxTries
      /\ \A k \in 2..MaxTries : k \in 1..MaxTries
  BY RebuildAssumption DEF Handler
<1>2. /\ handling'["governor"][1] = a
      /\ \A t \in Handler, j \in 1..MaxTries :
           t # "governor" \/ j # 1 => handling'[t][j] = handling[t][j]
  BY <1>1, OneAttempt DEF RebuildInvariant
<1>3. config # Nil /\ item["governor"].at # "none"
  BY <1>1, AttemptAt DEF RebuildInvariant
<1>4. handling'["repro"][1] = handling["repro"][1]
  BY <1>1, <1>2
<1>5. Staging'
  BY DEF AsExpected, Staging
<1>6. First'
  BY <1>1, <1>2 DEF AsExpected, First
<1>7. WorkAsExpected'
  <2>1. WorkAsExpected
    BY <1>3 DEF AsExpected
  <2> QED
    BY <1>2, <1>3, <1>4, <2>1 DEF WorkAsExpected, Expected
<1> QED
  BY <1>5, <1>6, <1>7 DEF AsExpected

-----------------------------------------------------------------------------
(* No step of the first attempts fails.                                     *)

LEMMA SteadyReading ==
  ASSUME RebuildInvariant, AsExpected, Sound, NEW k \in 1..MaxTries,
         \/ CheckInputs(k)
         \/ Load(k, "left", "load_left", "load_right")
         \/ Load(k, "right", "load_right", "compare")
  PROVE  AsExpected'
<1> DEFINE mine == handling["repro"][1]
<1>1. "repro" \in Handler /\ handling["repro"][k] # Nil /\ Unwritten
  BY DEF Handler, CheckInputs, Load, At
<1>2. /\ k = 1 /\ mine \in Attempt /\ mine # Nil /\ ExpectedRepro(mine, config, file.comparison)
      /\ manifest["left"] = config.bundle["left"] /\ manifest["right"] = config.bundle["right"]
      /\ item["repro"].payload = config
  BY <1>1, FirstAttempt
<1>3. UNCHANGED <<starter, config, manifest, file>>
  BY <1>1 DEF Unwritten
<1>4. ASSUME NEW to \in Place, Passes("repro", 1, TRUE, [mine EXCEPT !.at = to]),
             \/ to \in {"check_right", "verify_left"}
             \/ mine.at = "load_left" /\ to = "load_right"
             \/ mine.at = "load_right" /\ to = "compare"
      PROVE  AsExpected'
  <2> DEFINE a == [mine EXCEPT !.at = to]
  <2>1. a \in Attempt /\ a.at = to /\ a.left = mine.left /\ a.right = mine.right
    BY <1>2, AttemptMoves
  <2>2. Becomes("repro", 1, a) /\ item' = item
    BY <1>4 DEF Passes
  <2> HIDE DEF a
  <2>3. ExpectedRepro(a, config, file.comparison)
    BY <1>2, <1>4, <2>1 DEF ExpectedRepro
  <2> QED
    BY <1>2, <1>3, <2>1, <2>2, <2>3, ReproAsExpected
<1>5. CASE CheckInputs(k)
  <2>1. "check_right" \in Place /\ "verify_left" \in Place
    BY DEF Place
  <2>2. \/ Passes("repro", 1, TRUE, [mine EXCEPT !.at = "check_right"])
        \/ Passes("repro", 1, TRUE, [mine EXCEPT !.at = "verify_left"])
    BY <1>2, <1>5 DEF CheckInputs, Passes
  <2> QED
    BY <1>4, <2>1, <2>2
<1>6. CASE Load(k, "left", "load_left", "load_right")
  <2>1. mine.at = "load_left" /\ "load_right" \in Place
    BY <1>2, <1>6 DEF Load, At, Place
  <2>2. mine["left"] = mine.left
    OBVIOUS
  <2>3. Passes("repro", 1, TRUE, [mine EXCEPT !.at = "load_right"])
    BY <1>2, <1>6, <2>1, <2>2 DEF Load, Passes, ExpectedRepro
  <2> QED
    BY <1>4, <2>1, <2>3
<1>7. CASE Load(k, "right", "load_right", "compare")
  <2>1. mine.at = "load_right" /\ "compare" \in Place
    BY <1>2, <1>7 DEF Load, At, Place
  <2>2. mine["right"] = mine.right
    OBVIOUS
  <2>3. Passes("repro", 1, TRUE, [mine EXCEPT !.at = "compare"])
    BY <1>2, <1>7, <2>1, <2>2 DEF Load, Passes, ExpectedRepro
  <2> QED
    BY <1>4, <2>1, <2>3
<1> QED
  BY <1>5, <1>6, <1>7

LEMMA SteadyVerifying ==
  ASSUME RebuildInvariant, AsExpected, Sound, NEW k \in 1..MaxTries, NEW side \in Side,
         NEW from, NEW to, Verifies(k, side, from, to),
         \/ side = "left" /\ from = "verify_left" /\ to = "verify_right"
         \/ side = "right" /\ from = "verify_right" /\ to = "load_left"
  PROVE  AsExpected'
<1> DEFINE mine == handling["repro"][1]
<1> DEFINE a == [mine EXCEPT !.at = to, ![side] = manifest[side]]
<1>1. "repro" \in Handler /\ handling["repro"][k] # Nil /\ Unwritten
  BY DEF Handler, Verifies, At
<1>2. /\ k = 1 /\ mine \in Attempt /\ mine # Nil /\ ExpectedRepro(mine, config, file.comparison)
      /\ manifest["left"] = config.bundle["left"] /\ manifest["right"] = config.bundle["right"]
      /\ config \in Config /\ config # Nil /\ MadeTwice(config.bundle, config.run)
  BY <1>1, FirstAttempt
<1>3. UNCHANGED <<starter, config, manifest, file>>
  BY <1>1 DEF Unwritten
<1>4. manifest[side] \in Bundle
  BY <1>2 DEF RebuildInvariant, StartInvariant
<1>5. mine.at = from
  BY <1>2 DEF Verifies, At
<1>6. /\ a \in Attempt /\ a.at = to
      /\ side = "left" => a.left = manifest[side]
      /\ side = "right" => a.right = manifest[side] /\ a.left = mine.left
  BY <1>2, <1>4 DEF Attempt, Place
<1>7. Authoritative(manifest[side])
  BY <1>2 DEF MadeTwice, Authoritative, Side
<1>8. Becomes("repro", 1, a) /\ item' = item
  BY <1>2, <1>7 DEF Verifies, Passes
<1> HIDE DEF a
<1>9. ExpectedRepro(a, config, file.comparison)
  BY <1>2, <1>5, <1>6 DEF ExpectedRepro
<1> QED
  BY <1>2, <1>3, <1>6, <1>8, <1>9, ReproAsExpected

LEMMA SteadyComparison ==
  ASSUME RebuildInvariant, AsExpected, Sound, NEW k \in 1..MaxTries, WriteComparison(k)
  PROVE  AsExpected'
<1> DEFINE mine == handling["repro"][1]
<1> DEFINE report == Comparison(mine.left, mine.right, config.run, 1)
<1> DEFINE a == [mine EXCEPT !.at = "refer", !.comparison = report]
<1>1. "repro" \in Handler /\ handling["repro"][k] # Nil
  BY DEF Handler, WriteComparison, At
<1>2. /\ k = 1 /\ mine \in Attempt /\ mine # Nil /\ ExpectedRepro(mine, config, file.comparison)
      /\ config \in Config /\ config # Nil /\ MadeTwice(config.bundle, config.run)
      /\ item["repro"].payload = config
  BY <1>1, FirstAttempt
<1>3. mine.at = "compare" /\ UNCHANGED <<starter, config, manifest>>
  BY <1>2 DEF WriteComparison, At
<1>4. mine.left = config.bundle["left"] /\ mine.right = config.bundle["right"]
  BY <1>2, <1>3 DEF ExpectedRepro
<1>5. BoundToRuns(mine.left, mine.right, config.run) /\ Expected(report, config)
  BY <1>2, <1>4, ReportIsExpected
<1>6. /\ file' = [file EXCEPT !.comparison = report]
      /\ Becomes("repro", 1, a) /\ item' = item
  BY <1>2, <1>5 DEF WriteComparison
<1>7. report \in Genuine
  <2>1. Compares(mine, file.comparison)
    BY <1>1, <1>2, AttemptAt DEF RebuildInvariant
  <2>2. mine.left \in Bundle /\ Authoritative(mine.left)
        /\ mine.right \in Bundle /\ Authoritative(mine.right)
    BY <1>3, <2>1 DEF Compares
  <2>3. config.run \in Runs /\ 1 \in 1..MaxTries
    BY <1>2, RebuildAssumption DEF Config, Runs
  <2> QED
    BY <1>5, <2>2, <2>3, ReportIsGenuine
<1> HIDE DEF report
<1>8. a \in Attempt /\ a.at = "refer" /\ a.comparison = report
  BY <1>2, <1>7 DEF Attempt, Place
<1>9. file'.comparison = report
  BY <1>6 DEF RebuildInvariant, WorkInvariant, WorkTypes
<1> HIDE DEF a
<1>10. ExpectedRepro(a, config, file'.comparison)
  BY <1>5, <1>8, <1>9 DEF ExpectedRepro
<1> QED
  BY <1>2, <1>3, <1>6, <1>8, <1>10, ReproAsExpected

LEMMA SteadyRefer ==
  ASSUME RebuildInvariant, AsExpected, Sound, NEW k \in 1..MaxTries,
         Refer(k) \/ WriteMismatch(k) \/ ReferMismatch(k)
  PROVE  AsExpected'
<1> DEFINE mine == handling["repro"][1]
<1> DEFINE a == [mine EXCEPT !.ref = file.comparison, !.at = "done"]
<1>1. "repro" \in Handler /\ handling["repro"][k] # Nil
  BY DEF Handler, Refer, WriteMismatch, ReferMismatch, At
<1>2. /\ k = 1 /\ mine \in Attempt /\ mine # Nil /\ ExpectedRepro(mine, config, file.comparison)
  BY <1>1, FirstAttempt
<1>3. Refer(k) /\ mine.at = "refer"
  BY <1>2 DEF Refer, WriteMismatch, ReferMismatch, At, ExpectedRepro
<1>4. Expected(mine.comparison, config) /\ file.comparison = mine.comparison
  BY <1>2, <1>3 DEF ExpectedRepro
<1>5. mine.comparison.reproducible = TRUE
  BY <1>4 DEF Expected
<1>6. Becomes("repro", 1, a) /\ item' = item /\ UNCHANGED <<starter, config, manifest, file>>
  BY <1>2, <1>3, <1>5 DEF Refer, Unwritten
<1>7. file.comparison \in Genuine \cup {Nil}
  BY DEF RebuildInvariant, WorkInvariant, WorkTypes
<1>8. /\ a \in Attempt /\ a.at = "done" /\ a.ref = file.comparison
      /\ a.comparison = mine.comparison
  BY <1>2, <1>7 DEF Attempt, Place
<1> HIDE DEF a
<1>9. ExpectedRepro(a, config, file.comparison)
  BY <1>4, <1>8 DEF ExpectedRepro
<1> QED
  BY <1>2, <1>6, <1>8, <1>9, ReproAsExpected

LEMMA SteadyAnnounce ==
  ASSUME RebuildInvariant, AsExpected, Sound, NEW k \in 1..MaxTries, Announce(k)
  PROVE  AsExpected'
<1> DEFINE mine == handling["repro"][1]
<1> DEFINE payload == [comparison |-> mine.ref, mismatch |-> mine.mismatch,
                       matched |-> mine.comparison.reproducible,
                       bundle |-> item["repro"].payload.bundle,
                       run |-> item["repro"].payload.run]
<1> DEFINE y == [at |-> "open", attempts |-> 1, payload |-> payload]
<1>0. "repro" \in Handler /\ "governor" \in Handler /\ 1 \in 1..MaxTries
      /\ \A j \in 2..MaxTries : j \in 1..MaxTries /\ j # 1
  BY RebuildAssumption DEF Handler
<1>1. handling["repro"][k] # Nil /\ Unwritten
  BY DEF Announce, At
<1>2. /\ k = 1 /\ mine \in Attempt /\ mine # Nil /\ ExpectedRepro(mine, config, file.comparison)
      /\ config # Nil
  BY <1>0, <1>1, FirstAttempt
<1>3. mine.at = "done"
  BY <1>2 DEF Announce, At
<1>4. /\ Expected(mine.comparison, config) /\ file.comparison = mine.comparison
      /\ mine.ref = mine.comparison
  BY <1>2, <1>3 DEF ExpectedRepro
<1>5. UNCHANGED <<starter, config, manifest, file>>
  BY <1>1 DEF Unwritten
<1>6. Staging' /\ Staging
  BY <1>5 DEF AsExpected, Staging
<1>7. /\ handling \in [Handler -> [1..MaxTries -> Attempt \cup {Nil}]]
      /\ item \in [Handler -> Item]
  BY DEF RebuildInvariant, WorkInvariant, WorkTypes
<1>8. item["governor"].at = "none"
  BY <1>2 DEF AsExpected, WorkAsExpected
<1>9. CASE ~Current("repro", 1)
  <2>1. handling' = [handling EXCEPT !["repro"][1] = Nil] /\ item' = item
    BY <1>2, <1>9 DEF Announce, Becomes
  <2>2. First'
    BY <1>0, <1>7, <2>1 DEF AsExpected, First
  <2>3. handling'["repro"][1] = Nil
    BY <1>0, <1>7, <2>1
  <2>4. WorkAsExpected'
    BY <1>8, <2>1, <2>3 DEF WorkAsExpected
  <2> QED
    BY <1>6, <2>2, <2>4 DEF AsExpected
<1>10. CASE Current("repro", 1)
  <2>1. mine.comparison.reproducible = TRUE
    BY <1>4 DEF Expected
  <2>2. payload.matched = TRUE /\ payload.comparison = mine.comparison
    BY <1>4, <2>1
  <2>3. /\ item' = [item EXCEPT !["repro"].at = "done", !["governor"] = y]
        /\ handling' = [handling EXCEPT !["repro"][1] = Nil,
                                        !["governor"][1] = Fresh("governor")]
    BY <1>2, <1>10, <2>2 DEF Announce
  <2> HIDE DEF payload
  <2>4. item'["repro"].at = "done" /\ item'["governor"] = y
    <3>1. "repro" # "governor"
      OBVIOUS
    <3>2. item["repro"] \in Item
      BY <1>0, <1>7
    <3> HIDE DEF y
    <3> QED
      BY <1>0, <1>7, <2>3, <3>1, <3>2 DEF Item
  <2>5. y.at = "open" /\ y.payload = payload
    OBVIOUS
  <2> HIDE DEF y
  <2>6. /\ handling'["repro"][1] = Nil /\ handling'["governor"][1] = Fresh("governor")
        /\ \A s \in Handler, j \in 2..MaxTries : handling'[s][j] = handling[s][j]
    BY <1>0, <1>7, <2>3 DEF Handler
  <2>7. First'
    <3>1. \A s \in Handler : item'[s].at \in {"none", "open", "done"}
      BY <2>4, <2>5 DEF Handler
    <3> QED
      BY <2>6, <3>1 DEF AsExpected, First
  <2>8. ExpectedGovernor(Fresh("governor"), payload)
    BY DEF ExpectedGovernor, Fresh
  <2>9. WorkAsExpected'
    BY <1>4, <1>5, <2>2, <2>4, <2>5, <2>6, <2>8 DEF WorkAsExpected, Expected
  <2> QED
    BY <1>6, <2>7, <2>9 DEF AsExpected
<1> QED
  BY <1>9, <1>10

\* The governor finds what was announced.
LEMMA SteadyGovernor ==
  ASSUME RebuildInvariant, AsExpected, Sound, NEW k \in 1..MaxTries,
         CheckComparison(k) \/ ReadComparison(k) \/ CheckMismatch(k) \/ ReadMismatch(k)
  PROVE  AsExpected'
<1> DEFINE mine == handling["governor"][1]
<1> DEFINE payload == item["governor"].payload
<1>0. "governor" \in Handler
  BY DEF Handler
<1>1. handling["governor"][k] # Nil
  BY DEF CheckComparison, ReadComparison, CheckMismatch, ReadMismatch, At
<1>2. /\ k = 1 /\ mine \in Attempt /\ mine # Nil /\ config # Nil
      /\ ExpectedGovernor(mine, payload) /\ item["governor"].at # "none"
  BY <1>0, <1>1, FirstAttempt
<1>3. payload.matched = TRUE /\ file.comparison = payload.comparison
  BY <1>2 DEF AsExpected, WorkAsExpected
<1>4. CheckComparison(k) \/ ReadComparison(k)
  BY <1>2 DEF CheckMismatch, ReadMismatch, At, ExpectedGovernor
<1>5. UNCHANGED <<starter, config, manifest, file>>
  BY <1>4 DEF CheckComparison, ReadComparison, Unwritten
<1>6. CASE CheckComparison(k)
  <2> DEFINE a == [mine EXCEPT !.at = "read_comparison"]
  <2>1. "read_comparison" \in Place
    BY DEF Place
  <2>2. a \in Attempt /\ a.at = "read_comparison"
    BY <1>2, <2>1, AttemptMoves
  <2>3. Becomes("governor", 1, a) /\ item' = item
    BY <1>2, <1>3, <1>6 DEF CheckComparison, Passes
  <2> HIDE DEF a, payload
  <2>4. ExpectedGovernor(a, payload)
    BY <2>2 DEF ExpectedGovernor
  <2> QED
    BY <1>2, <1>5, <2>2, <2>3, <2>4, GovernorAsExpected DEF payload
<1>7. CASE ReadComparison(k)
  <2> DEFINE a == [mine EXCEPT !.comparison = file.comparison, !.at = "gate"]
  <2>1. Becomes("governor", 1, a) /\ item' = item
    BY <1>2, <1>3, <1>7 DEF ReadComparison
  <2>2. file.comparison \in Genuine \cup {Nil}
    BY DEF RebuildInvariant, WorkInvariant, WorkTypes
  <2>3. a \in Attempt /\ a.at = "gate" /\ a.comparison = file.comparison
    BY <1>2, <2>2 DEF Attempt, Place
  <2> HIDE DEF a, payload
  <2>4. ExpectedGovernor(a, payload)
    BY <1>3, <2>3 DEF ExpectedGovernor
  <2> QED
    BY <1>2, <1>5, <2>1, <2>3, <2>4, GovernorAsExpected DEF payload
<1> QED
  BY <1>4, <1>6, <1>7

LEMMA SteadyJudge ==
  ASSUME RebuildInvariant, AsExpected, Sound, NEW k \in 1..MaxTries, Judge(k)
  PROVE  AsExpected'
<1> DEFINE mine == handling["governor"][1]
<1> DEFINE payload == item["governor"].payload
<1>0. "repro" \in Handler /\ "governor" \in Handler /\ 1 \in 1..MaxTries
      /\ \A j \in 2..MaxTries : j \in 1..MaxTries /\ j # 1
  BY RebuildAssumption DEF Handler
<1>1. handling["governor"][k] # Nil /\ UNCHANGED <<starter, config, manifest, file>>
  BY DEF Judge, At
<1>2. /\ k = 1 /\ mine \in Attempt /\ mine # Nil /\ config # Nil
      /\ ExpectedGovernor(mine, payload) /\ item["governor"].at # "none"
      /\ handling["repro"][1] = Nil
  BY <1>0, <1>1, FirstAttempt
<1>3. /\ payload.matched = TRUE /\ file.comparison = payload.comparison
      /\ Expected(payload.comparison, config)
  BY <1>2 DEF AsExpected, WorkAsExpected
<1>4. mine.comparison = payload.comparison
  BY <1>2 DEF Judge, At, ExpectedGovernor
<1>5. payload.bundle = config.bundle /\ payload.run = config.run
  BY <1>2 DEF RebuildInvariant, WorkInvariant, WorkIsPinned
<1>6. GateChecks(mine.comparison, payload.matched, payload)
  <2> HIDE DEF payload
  <2> QED
    BY <1>3, <1>4, <1>5 DEF GateChecks, Expected
<1>7. Ends("governor", 1, "done")
  BY <1>2, <1>3, <1>6 DEF Judge
<1>8. /\ handling \in [Handler -> [1..MaxTries -> Attempt \cup {Nil}]]
      /\ item \in [Handler -> Item]
  BY DEF RebuildInvariant, WorkInvariant, WorkTypes
<1>9. handling' = [handling EXCEPT !["governor"][1] = Nil]
  BY <1>7 DEF Ends, Becomes
<1>10. /\ handling'["governor"][1] = Nil /\ handling'["repro"][1] = Nil
       /\ \A s \in Handler, j \in 2..MaxTries : handling'[s][j] = handling[s][j]
  BY <1>0, <1>2, <1>8, <1>9 DEF Handler
<1>11. /\ item'["repro"] = item["repro"]
       /\ item'["governor"].at \in {item["governor"].at, "done"}
       /\ item'["governor"].payload = payload
  <2>1. item["governor"] \in Item
    BY <1>0, <1>8
  <2>2. item' = item \/ item' = [item EXCEPT !["governor"].at = "done"]
    BY <1>7 DEF Ends
  <2> QED
    BY <1>0, <1>8, <2>1, <2>2 DEF Item
<1>12. Staging'
  BY <1>1 DEF AsExpected, Staging
<1>13. First'
  BY <1>10, <1>11 DEF AsExpected, First, Handler
<1>14. WorkAsExpected'
  BY <1>1, <1>3, <1>10, <1>11 DEF WorkAsExpected, Expected
<1> QED
  BY <1>12, <1>13, <1>14 DEF AsExpected

LEMMA SteadyInvariantStep ==
  RebuildInvariant /\ SteadyInvariant /\ [RebuildNext]_rebuildVars => SteadyInvariant'
<1> SUFFICES ASSUME RebuildInvariant, SteadyInvariant, [RebuildNext]_rebuildVars
             PROVE  SteadyInvariant'
  OBVIOUS
<1>1. CASE UNCHANGED rebuildVars
  BY <1>1 DEF rebuildVars, SteadyInvariant, Undisturbed, Sound, MadeTwice, AsExpected, Staging,
     First, WorkAsExpected, Expected
<1>2. CASE RebuildNext
  <2>1. expiries' \in Nat
    <3>1. expiries' = expiries \/ expiries' = expiries + 1
      BY <1>2 DEF RebuildNext, Starts, Begin, Find, StageRight, Pin, Repro,
         CheckInputs, Verifies, Load, WriteComparison, Refer, WriteMismatch, ReferMismatch,
         Announce, Governor, CheckComparison, ReadComparison, CheckMismatch, ReadMismatch, Judge,
         Expire, Unwritten
    <3> QED
      BY <3>1 DEF SteadyInvariant
  <2>2. ASSUME Undisturbed', Sound' PROVE AsExpected'
    <3>1. Undisturbed /\ Sound /\ expiries' = expiries
      BY <1>2, <2>2, SteadyBefore DEF SteadyInvariant
    <3>2. AsExpected
      BY <3>1 DEF SteadyInvariant
    <3>3. CASE \E c \in 1..MaxStarts : Starts(c)
      BY <2>2, <3>2, <3>3, SteadyStarts
    <3>4. CASE \E k \in 1..MaxTries : Repro(k)
      <4>1. PICK k \in 1..MaxTries : Repro(k)
        BY <3>4
      <4>2. CASE \/ CheckInputs(k)
                 \/ Load(k, "left", "load_left", "load_right")
                 \/ Load(k, "right", "load_right", "compare")
        BY <3>1, <3>2, <4>2, SteadyReading
      <4>3. CASE \/ Verifies(k, "left", "verify_left", "verify_right")
                 \/ Verifies(k, "right", "verify_right", "load_left")
        BY <3>1, <3>2, <4>3, SteadyVerifying DEF Side
      <4>4. CASE WriteComparison(k)
        BY <3>1, <3>2, <4>4, SteadyComparison
      <4>5. CASE Refer(k) \/ WriteMismatch(k) \/ ReferMismatch(k)
        BY <3>1, <3>2, <4>5, SteadyRefer
      <4>6. CASE Announce(k)
        BY <3>1, <3>2, <4>6, SteadyAnnounce
      <4> QED
        BY <4>1, <4>2, <4>3, <4>4, <4>5, <4>6 DEF Repro
    <3>5. CASE \E k \in 1..MaxTries : Governor(k)
      BY <3>1, <3>2, <3>5, SteadyGovernor, SteadyJudge DEF Governor
    <3>6. CASE \E s \in Handler, k \in 1..MaxTries : Expire(s, k)
      BY <2>1, <3>1, <3>6 DEF Expire, SteadyInvariant
    <3> QED
      BY <1>2, <3>3, <3>4, <3>5, <3>6 DEF RebuildNext
  <2> QED
    BY <2>1, <2>2 DEF SteadyInvariant
<1> QED
  BY <1>1, <1>2

LEMMA SteadyInvariantInit == RebuildInit => SteadyInvariant
<1> SUFFICES ASSUME RebuildInit PROVE SteadyInvariant
  OBVIOUS
<1>1. config = Nil /\ expiries = 0 /\ starter[1].at = "idle"
  BY RebuildAssumption DEF RebuildInit
<1>2. First
  BY RebuildAssumption DEF RebuildInit, First
<1> QED
  BY <1>1, <1>2 DEF SteadyInvariant, AsExpected, Staging

\* For every set of bundles, whatever the verifier finds in them, and for every
\* number of starts, attempts and expired leases: a candidate is one build made
\* twice, and one start that nothing disturbs makes such bundles a candidate.
THEOREM RebuildIsRight == RebuildSpec => []RebuildIsJudgedRight
<1>1. RebuildInit => RebuildInvariant /\ SteadyInvariant
  BY RebuildInvariantInit, SteadyInvariantInit
<1>2. RebuildInvariant /\ SteadyInvariant /\ [RebuildNext]_rebuildVars
        => (RebuildInvariant /\ SteadyInvariant)'
  BY RebuildInvariantStep, SteadyInvariantStep
<1>3. RebuildInvariant /\ SteadyInvariant => RebuildIsJudgedRight
  <2> SUFFICES ASSUME RebuildInvariant, SteadyInvariant PROVE RebuildIsJudgedRight
    OBVIOUS
  <2>1. candidate # Nil => MadeTwice(config.bundle, config.run)
    BY DEF RebuildInvariant, WorkInvariant, CandidateIsOneBuild
  <2>2. ASSUME \A c \in 2..MaxStarts : starter[c].request = Nil, expiries = 0,
               NEW s \in Handler, item[s].at \in {"blocked", "review", "dead"},
               MadeTwice(config.bundle, config.run)
        PROVE  FALSE
    <3>1. Undisturbed /\ Sound
      BY <2>2 DEF Undisturbed, Sound
    <3>2. item[s].at \in {"none", "open", "done"}
      BY <3>1 DEF SteadyInvariant, AsExpected, First
    <3> QED
      BY <2>2, <3>2
  <2> QED
    BY <2>1, <2>2 DEF RebuildIsJudgedRight
<1> QED
  BY <1>1, <1>2, <1>3, PTL DEF RebuildSpec

-----------------------------------------------------------------------------
(* The rebuild lane implements the decision about a candidate.              *)

\* A run is created.
Creates ==
  /\ config = Nil /\ config' # Nil /\ candidate' = candidate
  /\ item'["repro"].at = "open" /\ item'["governor"] = item["governor"]

\* The comparison, or its review, is handed to the governor.
HandsOver ==
  /\ UNCHANGED <<config, candidate>>
  /\ item["repro"].at = "open" /\ item'["governor"].at = "open"

\* An agent ends the run.
Stops(s) ==
  /\ UNCHANGED <<config, candidate>>
  /\ item[s].at = "open" /\ item'[s].at \in Stopped
  /\ \A t \in Handler \ {s} : item'[t] = item[t]

\* The governor names the candidate.
Concludes ==
  /\ config' = config /\ MadeTwice(config.bundle, config.run)
  /\ item["governor"].at = "open" /\ item'["governor"].at = "done"

Stays ==
  /\ UNCHANGED <<config, candidate>>
  /\ \A s \in Handler : item'[s].at = item[s].at

LEMMA EndingMoves ==
  ASSUME WorkInvariant, NEW s \in Handler, NEW k \in 1..MaxTries, NEW end \in Stopped,
         Ends(s, k, end), UNCHANGED <<config, candidate>>
  PROVE  Stays \/ Stops(s)
<1>1. CASE ~Current(s, k)
  BY <1>1 DEF Ends, Stays
<1>2. CASE Current(s, k)
  <2>1. item' = [item EXCEPT ![s].at = end] /\ item[s].at = "open"
    BY <1>2 DEF Ends, Current
  <2>2. item \in [Handler -> Item]
    BY DEF WorkInvariant, WorkTypes
  <2>3. item[s] \in Item
    BY <2>2
  <2>4. /\ item'[s] = [item[s] EXCEPT !.at = end]
        /\ \A t \in Handler \ {s} : item'[t] = item[t]
    BY <2>1, <2>2
  <2>5. item'[s].at = end
    BY <2>3, <2>4 DEF Item
  <2> QED
    BY <2>1, <2>4, <2>5 DEF Stops
<1> QED
  BY <1>1, <1>2

LEMMA AgainMoves ==
  ASSUME WorkInvariant, NEW s \in Handler, NEW k \in 1..MaxTries, NEW left,
         Current(s, k), Again(s, k, left), UNCHANGED <<config, candidate>>
  PROVE  Stays \/ Stops(s)
<1>1. item \in [Handler -> Item] /\ item[s].at = "open"
  BY DEF WorkInvariant, WorkTypes, Current
<1>2. item[s] \in Item
  BY <1>1
<1>3. CASE item[s].attempts < MaxTries
  <2>1. item' = [item EXCEPT ![s].attempts = @ + 1]
    BY <1>3 DEF Again
  <2>2. item'[s] = [item[s] EXCEPT !.attempts = @ + 1]
        /\ \A t \in Handler \ {s} : item'[t] = item[t]
    BY <1>1, <2>1
  <2>3. item'[s].at = item[s].at
    BY <1>2, <2>2 DEF Item
  <2> QED
    BY <2>2, <2>3 DEF Stays
<1>4. CASE ~(item[s].attempts < MaxTries)
  <2>1. item' = [item EXCEPT ![s].at = "dead"]
    BY <1>4 DEF Again
  <2>2. item'[s] = [item[s] EXCEPT !.at = "dead"]
        /\ \A t \in Handler \ {s} : item'[t] = item[t]
    BY <1>1, <2>1
  <2>3. item'[s].at = "dead"
    BY <1>2, <2>2 DEF Item
  <2> QED
    BY <1>1, <2>2, <2>3 DEF Stops, Stopped
<1> QED
  BY <1>3, <1>4

LEMMA PassingMoves ==
  ASSUME WorkInvariant, NEW s \in Handler, NEW k \in 1..MaxTries, NEW condition, NEW a,
         Passes(s, k, condition, a) \/ Fails(s, k), UNCHANGED <<config, candidate>>
  PROVE  Stays \/ Stops(s)
<1>1. CASE item' = item
  BY <1>1 DEF Stays
<1>2. CASE Fails(s, k)
  <2>1. CASE s = "repro"
    BY <1>2, <2>1, EndingMoves DEF Fails, Stopped
  <2>2. CASE s # "repro" /\ Current(s, k)
    BY <1>2, <2>2, AgainMoves DEF Fails
  <2>3. CASE s # "repro" /\ ~Current(s, k)
    BY <1>1, <1>2, <2>3 DEF Fails
  <2> QED
    BY <2>1, <2>2, <2>3
<1> QED
  BY <1>1, <1>2 DEF Passes

LEMMA StartMoves ==
  ASSUME RebuildInvariant, NEW c \in 1..MaxStarts, Starts(c)
  PROVE  Stays \/ Creates
<1>1. CASE Pin(c) /\ config = Nil
  <2> DEFINE payload == [bundle |-> starter[c].found, run |-> starter[c].request.run]
  <2>1. /\ config' = payload /\ candidate' = candidate
        /\ item' = [item EXCEPT !["repro"] =
                      [at |-> "open", attempts |-> 1, payload |-> payload]]
    BY <1>1 DEF Pin
  <2>2. payload \in Config
    BY <1>1, PinStep DEF RebuildInvariant
  <2> HIDE DEF payload
  <2>3. config' # Nil
    BY <2>1, <2>2, RebuildAssumption
  <2>4. item \in [Handler -> Item]
    BY DEF RebuildInvariant, WorkInvariant, WorkTypes
  <2>5. item'["repro"].at = "open" /\ item'["governor"] = item["governor"]
    BY <2>1, <2>4 DEF Handler
  <2> QED
    BY <1>1, <2>1, <2>3, <2>5 DEF Creates
<1>2. CASE ~(Pin(c) /\ config = Nil)
  BY <1>2 DEF Starts, Begin, Find, StageRight, Pin, Stays
<1> QED
  BY <1>1, <1>2

LEMMA ReproMoves ==
  ASSUME RebuildInvariant, NEW k \in 1..MaxTries, Repro(k)
  PROVE  Stays \/ Stops("repro") \/ HandsOver
<1>0. "repro" \in Handler /\ "governor" \in Handler /\ WorkInvariant
  BY DEF Handler, RebuildInvariant
<1>1. UNCHANGED <<config, candidate>>
  BY DEF Repro, CheckInputs, Verifies, Load, WriteComparison, Refer, WriteMismatch,
         ReferMismatch, Announce, Unwritten
<1>2. CASE CheckInputs(k)
  BY <1>0, <1>1, <1>2, PassingMoves DEF CheckInputs
<1>3. CASE \/ Verifies(k, "left", "verify_left", "verify_right")
           \/ Verifies(k, "right", "verify_right", "load_left")
  BY <1>0, <1>1, <1>3, PassingMoves DEF Verifies
<1>4. CASE \/ Load(k, "left", "load_left", "load_right")
           \/ Load(k, "right", "load_right", "compare")
  BY <1>0, <1>1, <1>4, PassingMoves DEF Load
<1>5. CASE WriteComparison(k) /\ Fails("repro", k)
  BY <1>0, <1>1, <1>5, PassingMoves
<1>6. CASE item' = item
  BY <1>1, <1>6 DEF Stays
<1>7. CASE Announce(k) /\ Current("repro", k)
  <2>1. item["repro"].at = "open"
    BY <1>7 DEF Current
  <2>2. PICK mine : item'["governor"] = [at |-> "open", attempts |-> 1, payload |-> mine]
    <3>1. item \in [Handler -> Item]
      BY <1>0 DEF WorkInvariant, WorkTypes
    <3> QED
      BY <1>0, <1>7, <3>1 DEF Announce
  <2> QED
    BY <1>1, <2>1, <2>2 DEF HandsOver
<1> QED
  BY <1>2, <1>3, <1>4, <1>5, <1>6, <1>7
  DEF Repro, WriteComparison, Refer, WriteMismatch, ReferMismatch, Announce

LEMMA GovernorMoves ==
  ASSUME RebuildInvariant, NEW k \in 1..MaxTries, Governor(k)
  PROVE  Stays \/ Stops("governor") \/ Concludes
<1>0. "repro" \in Handler /\ "governor" \in Handler /\ WorkInvariant
  BY DEF Handler, RebuildInvariant
<1>1. CASE \/ CheckComparison(k) \/ ReadComparison(k)
           \/ CheckMismatch(k) \/ ReadMismatch(k)
  <2>1. UNCHANGED <<config, candidate>>
    BY <1>1 DEF CheckComparison, ReadComparison, CheckMismatch, ReadMismatch, Unwritten
  <2>2. CASE item' = item
    BY <2>1, <2>2 DEF Stays
  <2> QED
    BY <1>0, <1>1, <2>1, <2>2, PassingMoves
    DEF CheckComparison, ReadComparison, CheckMismatch, ReadMismatch
<1>2. CASE Judge(k)
  <2> DEFINE mine == handling["governor"][k]
             payload == item["governor"].payload
             coherent == /\ GateChecks(mine.comparison, payload.matched, payload)
                         /\ payload.matched \/ mine.mismatch = payload.comparison
             end == IF ~coherent THEN "blocked"
                    ELSE IF payload.matched THEN "done" ELSE "review"
  <2>1. /\ mine # Nil /\ mine \in Attempt /\ mine.at = "gate" /\ Judges(mine)
        /\ item["governor"].at # "none"
    BY <1>0, <1>2, AttemptAt DEF Judge, At
  <2>2. /\ Ends("governor", k, end) /\ config' = config
        /\ candidate' = IF coherent /\ payload.matched /\ Current("governor", k)
                        THEN payload.comparison ELSE candidate
    BY <1>2 DEF Judge
  <2>3. /\ payload \in Finding
        /\ payload.bundle = config.bundle /\ payload.run = config.run
    BY <1>0, <2>1 DEF WorkInvariant, WorkIsPinned
  <2>4. CASE coherent /\ payload.matched /\ Current("governor", k)
    <3>1. payload.matched = TRUE /\ mine.comparison \in Genuine
      BY <2>1, <2>3, <2>4 DEF Finding, Judges
    <3>2. MadeTwice(payload.bundle, payload.run)
      <4> HIDE DEF payload
      <4> QED
        BY <2>4, <3>1, GateMeansOneBuild
    <3>3. MadeTwice(config.bundle, config.run)
      BY <2>3, <3>2
    <3>4. end = "done"
      BY <2>4
    <3> HIDE DEF end, coherent, payload, mine
    <3>5. item' = [item EXCEPT !["governor"].at = "done"] /\ item["governor"].at = "open"
      BY <2>2, <2>4, <3>4 DEF Ends, Current
    <3>6. item'["governor"].at = "done"
      <4>1. item \in [Handler -> Item]
        BY <1>0 DEF WorkInvariant, WorkTypes
      <4>2. item["governor"] \in Item
        BY <1>0, <4>1
      <4>3. item'["governor"] = [item["governor"] EXCEPT !.at = "done"]
        BY <1>0, <3>5, <4>1
      <4> QED
        BY <4>2, <4>3 DEF Item
    <3> QED
      BY <2>2, <3>3, <3>5, <3>6 DEF Concludes
  <2>5. CASE ~(coherent /\ payload.matched /\ Current("governor", k))
    <3>1. UNCHANGED <<config, candidate>>
      BY <2>2, <2>5
    <3>2. CASE Current("governor", k)
      <4>1. end \in Stopped
        BY <2>5, <3>2 DEF Stopped
      <4> HIDE DEF end, coherent, payload, mine
      <4> QED
        BY <1>0, <2>2, <3>1, <4>1, EndingMoves
    <3>3. CASE ~Current("governor", k)
      BY <2>2, <3>1, <3>3 DEF Ends, Stays
    <3> QED
      BY <3>2, <3>3
  <2> QED
    BY <2>4, <2>5
<1> QED
  BY <1>1, <1>2 DEF Governor

LEMMA StepMoves ==
  ASSUME RebuildInvariant, RebuildNext
  PROVE  Stays \/ Creates \/ HandsOver \/ Concludes \/ \E s \in Handler : Stops(s)
<1>1. ASSUME NEW s \in Handler, NEW k \in 1..MaxTries, Expire(s, k)
      PROVE  Stays \/ Stops(s)
  BY <1>1, AgainMoves DEF Expire, RebuildInvariant
<1> QED
  BY <1>1, StartMoves, ReproMoves, GovernorMoves DEF RebuildNext, Handler

LEMMA RebuildRefined ==
  ASSUME RebuildInvariant, RebuildInvariant', RebuildNext
  PROVE  RebuildDecision!Next \/ UNCHANGED <<config, RebuildOutcome, candidate>>
<1>1. /\ item["governor"].at # "none" => item["repro"].at \notin {"none", "open"}
      /\ item["repro"].at # "none" => config # Nil
      /\ item'["governor"].at # "none" => item'["repro"].at \notin {"none", "open"}
  BY DEF RebuildInvariant, WorkInvariant, WorkIsPinned
<1>2. CASE Stays
  <2>1. RebuildOutcome' = RebuildOutcome
    BY <1>2 DEF Stays, Handler, RebuildOutcome
  <2> QED
    BY <1>2, <2>1 DEF Stays
<1>3. CASE Creates
  <2>1. item["repro"].at = "none" /\ item["governor"].at = "none"
        /\ item'["governor"].at = "none"
    BY <1>1, <1>3 DEF Creates
  <2>2. RebuildOutcome = "open" /\ RebuildOutcome' = "open"
    BY <1>3, <2>1 DEF Creates, RebuildOutcome, Stopped
  <2> QED
    BY <1>3, <2>2 DEF Creates, RebuildDecision!Next, RebuildDecision!Create
<1>4. CASE HandsOver
  <2>1. item["governor"].at = "none"
    BY <1>1, <1>4 DEF HandsOver
  <2>2. RebuildOutcome = "open" /\ RebuildOutcome' = "open"
    BY <1>4, <2>1 DEF HandsOver, RebuildOutcome, Stopped
  <2> QED
    BY <1>4, <2>2 DEF HandsOver
<1>5. ASSUME NEW s \in Handler, Stops(s) PROVE RebuildDecision!Refuse
  <2>1. RebuildOutcome = "open" /\ RebuildOutcome' = item'[s].at
    <3>1. CASE s = "repro"
      <4>1. item["governor"].at = "none" /\ item'["governor"].at = "none"
        BY <1>1, <1>5, <3>1 DEF Stops, Handler
      <4> QED
        BY <1>5, <3>1, <4>1 DEF Stops, RebuildOutcome, Stopped
    <3>2. CASE s = "governor"
      BY <1>5, <3>2 DEF Stops, RebuildOutcome, Stopped
    <3> QED
      BY <3>1, <3>2 DEF Handler
  <2>2. config # Nil
    BY <1>1, <1>5 DEF Stops, Handler
  <2> QED
    BY <1>5, <2>1, <2>2 DEF Stops, RebuildDecision!Refuse
<1>6. CASE Concludes
  <2>1. RebuildOutcome = "open" /\ RebuildOutcome' = "candidate"
    BY <1>6 DEF Concludes, RebuildOutcome, Stopped
  <2>2. config # Nil
    BY <1>1, <1>6 DEF Concludes
  <2>3. MadeTwiceFor(candidate', config)
    BY <1>6 DEF Concludes, MadeTwiceFor
  <2> QED
    BY <1>6, <2>1, <2>2, <2>3
    DEF Concludes, RebuildDecision!Next, RebuildDecision!Name
<1> QED
  BY <1>2, <1>3, <1>4, <1>5, <1>6, StepMoves DEF RebuildDecision!Next

LEMMA RebuildDecisionBegins == RebuildInit => RebuildDecision!Init
<1> SUFFICES ASSUME RebuildInit PROVE RebuildDecision!Init
  OBVIOUS
<1>1. config = Nil /\ candidate = Nil
  BY DEF RebuildInit
<1>2. item["governor"].at = "none" /\ item["repro"].at = "none"
  BY DEF RebuildInit, Handler
<1>3. RebuildOutcome = "open"
  BY <1>2 DEF RebuildOutcome, Stopped
<1> QED
  BY <1>1, <1>3 DEF RebuildDecision!Init

\* For every set of bundles and every number of starts, attempts and leases that
\* run out: a run of the comparison is decided at most once, by the agent that holds
\* the lease, what it has named or handed to people stays, and it names a candidate
\* only of one build made twice.
THEOREM RebuildImplementsTheDecision == RebuildSpec => RebuildImplementsDecision
<1>1. RebuildInit => RebuildDecision!Init /\ RebuildInvariant
  BY RebuildDecisionBegins, RebuildInvariantInit
<1>2. RebuildInvariant /\ [RebuildNext]_rebuildVars => RebuildInvariant'
  BY RebuildInvariantStep
<1>3. RebuildInvariant /\ RebuildInvariant' /\ [RebuildNext]_rebuildVars
        => [RebuildDecision!Next]_<<config, RebuildOutcome, candidate>>
  <2>1. ASSUME UNCHANGED rebuildVars
        PROVE  UNCHANGED <<config, RebuildOutcome, candidate>>
    BY <2>1 DEF rebuildVars, RebuildOutcome
  <2> QED
    BY <2>1, RebuildRefined
<1> QED
  BY <1>1, <1>2, <1>3, PTL
  DEF RebuildSpec, RebuildImplementsDecision, RebuildDecision!Spec
=============================================================================
