-------------------------- MODULE ManagedCheckout --------------------------
(***************************************************************************)
(* The branches of one managed checkout and the two programs that move     *)
(* them: reconcile_repository (sync_apply.py), which mirrors upstream and  *)
(* creates the secure branch once, and apply_secure_patch                  *)
(* (secure_patch.py), which advances the secure branch to the commit an    *)
(* approval describes.  Any number of either may run at the same time, on  *)
(* behalf of different runs or as the retry of an attempt that is still    *)
(* alive; they share nothing but the refs.  One git command is one step:   *)
(* git itself locks the ref it writes.  Any command may fail, and a        *)
(* process may be killed between any two.                                  *)
(*                                                                         *)
(* A commit that apply_secure_patch builds is determined by the approval:  *)
(* its parent is the approved base, its content the approved changes, its  *)
(* message names the approval's digest, and its date is approved_at.  So   *)
(* the approval itself stands for it.                                      *)
(***************************************************************************)
EXTENDS Naturals

CONSTANTS
  Commit,      \* commits made by others: upstream's, and those made by hand
  Ancestors,   \* what each of them contains, itself included
  Approval,    \* patch approvals by digest, and the commits built from them
  Sync,        \* runs of the fork-sync agent
  Patcher,     \* work items of the patch agent
  MaxMoves,    \* bound on the movements of upstream
  MaxByHand,   \* bound on the changes of the secure branch by hand
  NULL         \* a ref that does not exist

Sha == Commit \cup Approval
Ref == Sha \cup {NULL}

ASSUME CommitAssumption ==
  /\ Ancestors \in [Commit -> SUBSET Commit]
  /\ \A c \in Commit : c \in Ancestors[c]
  /\ \A c \in Commit : \A d \in Ancestors[c] : Ancestors[d] \subseteq Ancestors[c]

ASSUME NameAssumption ==
  /\ Commit \cap Approval = {}
  /\ NULL \notin Sha

ASSUME BoundsAssumption == MaxMoves \in Nat /\ MaxByHand \in Nat

VARIABLES
  source,      \* upstream's default branch
  tracking,    \* refs/remotes/upstream/<default>
  mirror,      \* refs/heads/upstream/<default>
  secure,      \* refs/heads/secure/<default>
  sync,        \* the reconciliations: where they are and what they have read
  approval,    \* the approvals that were given
  patch,       \* the patch work: where it is, its approval and its report
  removed,     \* history: what was taken off the secure branch by hand
  moves, byHand

vars ==
  <<source, tracking, mirror, secure, sync, approval, patch, removed, moves,
    byHand>>

\* What the two programs leave to others.
others == <<source, removed, moves, byHand>>

-----------------------------------------------------------------------------
SyncPlace ==
  {"idle", "fetch", "read", "mirror", "secure", "create", "reread", "compare",
   "ready", "review"}

\* upstream and secure are upstream_sha and secure_sha; "seen" is a history of
\* what upstream was while this run was fetching.
SyncState ==
  [at : SyncPlace, upstream : Commit \cup {NULL}, secure : Ref,
   seen : SUBSET Commit]

SyncAt(place, seen) ==
  [at |-> place, upstream |-> NULL, secure |-> NULL, seen |-> seen]

PatchPlace == {"idle", "gate", "inspect", "cas", "actual", "verify", "done"}

\* The action of patch_result, or the status that takes its place.
Action ==
  {"none", "committed", "reused-approved-commit", "already-present", "planned",
   "blocked"}

PatchState == [at : PatchPlace, approval : Approval \cup {NULL}, result : Action]

\* What an approval binds: the secure base and the analysed upstream commit
\* that must be part of it, and whether its changes add any path to the base.
\* "history" is what the base contains.
ApprovalState ==
  [base : Sha, required : Commit, adds : BOOLEAN, history : SUBSET Sha]

Init ==
  /\ source \in Commit
  /\ tracking = NULL /\ mirror = NULL /\ secure = NULL
  /\ sync = [s \in Sync |-> SyncAt("idle", {})]
  /\ approval = [a \in Approval |-> NULL]
  /\ patch = [p \in Patcher |->
       [at |-> "idle", approval |-> NULL, result |-> "none"]]
  /\ removed = {} /\ moves = 0 /\ byHand = 0

\* The commits that can be reached from a ref.
Reachable(r) ==
  IF r \in Commit THEN Ancestors[r]
  ELSE IF r \in Approval /\ approval[r] # NULL THEN approval[r].history \cup {r}
  ELSE {}

-----------------------------------------------------------------------------
(* reconcile_repository.                                                    *)

\* A run takes up the work: gates, the plan, the validation of the checkout,
\* of its remotes and URLs, and fetch-origin, none of which moves these refs.
StartSync(s) ==
  /\ sync[s].at = "idle"
  /\ sync' = [sync EXCEPT ![s] = SyncAt("fetch", {source})]
  /\ UNCHANGED <<others, tracking, mirror, secure, approval, patch>>

\* Mutant: what an earlier run fetched is taken as it is.
FetchOnce(s) ==
  /\ sync[s].at = "fetch"
  /\ tracking' = IF tracking = NULL THEN source ELSE tracking
  /\ sync' = [sync EXCEPT ![s].at = "read"]
  /\ UNCHANGED <<others, mirror, secure, approval, patch>>

\* fetch-upstream, with the forced refspec.
Fetch(s) ==
  /\ sync[s].at = "fetch"
  /\ tracking' = source
  /\ sync' = [sync EXCEPT ![s].at = "read"]
  /\ UNCHANGED <<others, mirror, secure, approval, patch>>

\* upstream_sha: the commit that recon will analyse.
ReadUpstream(s) ==
  /\ sync[s].at = "read"
  /\ sync' = [sync EXCEPT ![s].at = "mirror", ![s].upstream = tracking]
  /\ UNCHANGED <<others, tracking, mirror, secure, approval, patch>>

\* update-upstream-mirror: git branch -f, from the ref and not from the sha
\* that was read.
MoveMirror(s) ==
  /\ sync[s].at = "mirror"
  /\ mirror' = tracking
  /\ sync' = [sync EXCEPT ![s].at = "secure"]
  /\ UNCHANGED <<others, tracking, secure, approval, patch>>

\* previous_secure_sha decides whether the branch is to be created.
ReadSecure(s) ==
  /\ sync[s].at = "secure"
  /\ sync' = [sync EXCEPT ![s].at = IF secure = NULL THEN "create" ELSE "reread"]
  /\ UNCHANGED <<others, tracking, mirror, secure, approval, patch>>

\* Mutant: git branch -f, as for the mirror.
CreateSecureForced(s) ==
  /\ sync[s].at = "create"
  /\ secure' = tracking
  /\ sync' = [sync EXCEPT ![s].at = "reread"]
  /\ UNCHANGED <<others, tracking, mirror, approval, patch>>

\* create-secure-branch: git branch refuses if the branch exists by now.
CreateSecure(s) ==
  /\ sync[s].at = "create"
  /\ secure = NULL
  /\ secure' = tracking
  /\ sync' = [sync EXCEPT ![s].at = "reread"]
  /\ UNCHANGED <<others, tracking, mirror, approval, patch>>

\* secure_sha: the base that approvals will be bound to.
RereadSecure(s) ==
  /\ sync[s].at = "reread"
  /\ secure # NULL
  /\ sync' = [sync EXCEPT ![s].at = "compare", ![s].secure = secure]
  /\ UNCHANGED <<others, tracking, mirror, secure, approval, patch>>

\* branch_divergence reads both branches once more: commits on either side.
Diverged ==
  /\ Reachable(mirror) \ Reachable(secure) # {}
  /\ Reachable(secure) \ Reachable(mirror) # {}

\* Without divergence the run goes on to analysis (SyncReady); with it, it
\* ends in human review, without an event.
Compare(s) ==
  /\ sync[s].at = "compare"
  /\ sync' = IF Diverged
             THEN [sync EXCEPT ![s] = SyncAt("review", {})]
             ELSE [sync EXCEPT ![s].at = "ready"]
  /\ UNCHANGED <<others, tracking, mirror, secure, approval, patch>>

\* A command fails or is refused, the mirror is checked out, or the process is
\* killed: what was done so far stays, for a retry or for a later run.
SyncFails(s) ==
  /\ sync[s].at \notin {"idle", "ready", "review"}
  /\ sync' = [sync EXCEPT ![s] = SyncAt("idle", {})]
  /\ UNCHANGED <<others, tracking, mirror, secure, approval, patch>>

-----------------------------------------------------------------------------
(* The approval of a change set for what a run has analysed.                *)

Approve(s, a) ==
  /\ sync[s].at = "ready"
  /\ approval[a] = NULL
  /\ \E adds \in BOOLEAN :
       approval' = [approval EXCEPT ![a] =
         [base |-> sync[s].secure, required |-> sync[s].upstream,
          adds |-> adds, history |-> Reachable(sync[s].secure)]]
  /\ UNCHANGED <<others, tracking, mirror, secure, sync, patch>>

-----------------------------------------------------------------------------
(* PatchHandler and apply_secure_patch.                                     *)

Base(p) == approval[patch[p].approval].base

Goto(p, place) == patch' = [patch EXCEPT ![p].at = place]

Report(p, result) ==
  patch' = [patch EXCEPT ![p].at = "done", ![p].result = result]

StartPatch(p, a) ==
  /\ patch[p].at = "idle"
  /\ approval[a] # NULL
  /\ patch' = [patch EXCEPT ![p].at = "gate", ![p].approval = a]
  /\ UNCHANGED <<others, tracking, mirror, secure, sync, approval>>

\* validate_patch_approval, guarded_checkout_path and build_rendered_patch let
\* the work pass; where they do not, for example because the approval or a pin
\* has expired, the item ends in Block.
Gate(p) ==
  /\ patch[p].at = "gate"
  /\ Goto(p, "inspect")
  /\ UNCHANGED <<others, tracking, mirror, secure, sync, approval>>

\* Mutant: any base will do.
ContainedAnyhow(a) == approval[a].required \in Commit

\* merge-base --is-ancestor
Contained(a) == approval[a].required \in approval[a].history

\* apply_secure_patch up to the construction of the commit.  Where the branch
\* is the approved commit, it is the work of an earlier attempt.
Inspect(p) ==
  LET a == patch[p].approval
  IN  /\ patch[p].at = "inspect"
      /\ Contained(a)
      /\ \/ secure = a /\ Report(p, "reused-approved-commit")
         \/ secure = Base(p) /\ Report(p, "planned")          \* execute False
         \/ secure = Base(p) /\ ~approval[a].adds /\ Report(p, "already-present")
         \/ secure = Base(p) /\ approval[a].adds /\ Goto(p, "cas")
      /\ UNCHANGED <<others, tracking, mirror, secure, sync, approval>>

\* update-ref with the expected old value.
Cas(p) ==
  /\ patch[p].at = "cas"
  /\ secure = Base(p)
  /\ secure' = patch[p].approval
  /\ Goto(p, "verify")
  /\ UNCHANGED <<others, tracking, mirror, sync, approval>>

\* update-ref fails: another value, or the ref is locked.
CasFails(p) ==
  /\ patch[p].at = "cas"
  /\ Goto(p, "actual")
  /\ UNCHANGED <<others, tracking, mirror, secure, sync, approval>>

\* The branch is already what it should become: another attempt was faster.
Actual(p) ==
  /\ patch[p].at = "actual"
  /\ secure = patch[p].approval
  /\ Goto(p, "verify")
  /\ UNCHANGED <<others, tracking, mirror, secure, sync, approval>>

\* approved_commit_matches on the commit object, then the result.
Verify(p) ==
  /\ patch[p].at = "verify"
  /\ Report(p, "committed")
  /\ UNCHANGED <<others, tracking, mirror, secure, sync, approval>>

\* A check says no, or any command fails: PatchApprovalError, SecurePatchError.
Block(p) ==
  /\ patch[p].at \notin {"idle", "done"}
  /\ Report(p, "blocked")
  /\ UNCHANGED <<others, tracking, mirror, secure, sync, approval>>

\* The process is killed, and the work item goes to another attempt.
Retry(p) ==
  /\ patch[p].at \notin {"idle", "gate", "done"}
  /\ Goto(p, "gate")
  /\ UNCHANGED <<others, tracking, mirror, secure, sync, approval>>

-----------------------------------------------------------------------------
(* Others.                                                                  *)

\* Upstream advances, or is rewritten.
UpstreamMoves(c) ==
  /\ moves < MaxMoves
  /\ moves' = moves + 1
  /\ c # source
  /\ source' = c
  /\ sync' = [s \in Sync |->
       IF sync[s].at \in {"fetch", "read"}
       THEN [sync[s] EXCEPT !.seen = @ \cup {c}] ELSE sync[s]]
  /\ UNCHANGED <<tracking, mirror, secure, approval, patch, removed, byHand>>

\* Somebody moves or deletes the secure branch by hand: to a commit of others,
\* or back to one that was removed from it before.
ByHand(r) ==
  /\ byHand < MaxByHand
  /\ byHand' = byHand + 1
  /\ tracking # NULL /\ r # secure     \* there is a checkout, and a change
  /\ r \in Commit \cup removed \cup {NULL}
  /\ secure' = r
  /\ removed' = removed \cup (Reachable(secure) \ Reachable(r))
  /\ UNCHANGED <<source, tracking, mirror, sync, approval, patch, moves>>

Next ==
  \/ \E s \in Sync :
       \/ StartSync(s) \/ Fetch(s) \/ ReadUpstream(s) \/ MoveMirror(s)
       \/ ReadSecure(s) \/ CreateSecure(s) \/ RereadSecure(s) \/ Compare(s)
       \/ SyncFails(s)
       \/ \E a \in Approval : Approve(s, a)
  \/ \E p \in Patcher :
       \/ \E a \in Approval : StartPatch(p, a)
       \/ Gate(p) \/ Inspect(p) \/ Cas(p) \/ CasFails(p) \/ Actual(p)
       \/ Verify(p) \/ Block(p) \/ Retry(p)
  \/ \E c \in Commit : UpstreamMoves(c)
  \/ \E r \in Ref : ByHand(r)

Spec == Init /\ [][Next]_vars

-----------------------------------------------------------------------------
\* Types of the state; in particular every ref that is used as a commit exists.
TypeOK ==
  /\ source \in Commit
  /\ tracking \in Commit \cup {NULL} /\ mirror \in Commit \cup {NULL}
  /\ secure \in Ref
  /\ sync \in [Sync -> SyncState]
  /\ approval \in [Approval -> ApprovalState \cup {NULL}]
  /\ patch \in [Patcher -> PatchState]
  /\ removed \subseteq Sha
  /\ moves \in 0..MaxMoves /\ byHand \in 0..MaxByHand

\* "Secure overlay branches are never force-reset or recreated" and "retries
\* converge on the same commit": the commit that a patch result names stays on
\* the secure branch, whatever reconciliations, other patches and retries do,
\* until somebody takes it off by hand.
Success == {"committed", "reused-approved-commit", "already-present"}

PatchSha(p) ==
  IF patch[p].result = "already-present" THEN Base(p) ELSE patch[p].approval

ReportsAreKept ==
  \A p \in Patcher :
    patch[p].result \in Success => PatchSha(p) \in Reachable(secure) \cup removed

\* "The secure base contains the analyzed upstream commit": a secure branch
\* with an approved patch contains the commit that was analysed for it,
\* although base and analysis are read at different moments, while other
\* reconciliations fetch and create the same refs.
RequiredIsContained ==
  \A a \in Approval \cap Reachable(secure) :
    approval[a].required \in Reachable(secure)

\* What is analysed is what upstream was during this very reconciliation, not
\* what an earlier one had fetched (README.md: "the exact synchronized upstream
\* commit").
AnalysedIsCurrent ==
  \A s \in Sync :
    sync[s].at \notin {"idle", "fetch", "read", "review"} =>
      sync[s].upstream \in sync[s].seen
=============================================================================
