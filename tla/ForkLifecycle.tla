--------------------------- MODULE ForkLifecycle ---------------------------
(***************************************************************************)
(* Forks on GitHub and what the lifecycle state file says of them.         *)
(*                                                                         *)
(* create_fork_plan (fork_plan.py) chooses repositories and the names of   *)
(* their forks; apply_fork_plan (fork_apply.py) finds or creates each fork *)
(* and records what it saw; apply_sync_plan (sync_apply.py) records the    *)
(* reconciliation of the checkouts in the same file.  Both are commands of *)
(* the command line (cli.py): they load the file (StateStore.load), work   *)
(* for a long time, and write it back (StateStore.save), without a lock    *)
(* and in place.  A checkout run (managed_checkout_agents.py) pins the file *)
(* by its digest and lets a plan pass if the file says that every fork is  *)
(* verified.                                                               *)
(***************************************************************************)
EXTENDS Naturals, Sequences, FiniteSets

CONSTANTS
  Repo,        \* upstream repositories
  Ranked,      \* the catalog: all of Repo by score, owner and name
  Passing,     \* those whose score reaches min_score
  Target,      \* names of repositories of the target owner
  Plain,       \* the name for a fork: prefix and name of the repository,
  Qualified,   \* or prefix, owner and name
  Policy,      \* selection policies: allowlist, suppressions and limit
  Command,     \* other invocations of the command line
  Operator,    \* somebody who repeats one command,
  Wish,        \* apply-fork-plan --execute for the plan of this policy
  Lane,        \* checkout runs
  MaxCommands, \* bound on the commands of the others
  MaxFaults,   \* bound on failures of GitHub and crashes
  MaxByHand,   \* bound on changes on GitHub by others
  Other,       \* a repository that is not a fork of any of Repo
  Empty, Broken, \* contents of the state file that are not JSON
  NULL         \* no repository of this name; no record

ASSUME CatalogAssumption ==
  /\ Ranked \in Seq(Repo) /\ Passing \subseteq Repo
  /\ Plain \in [Repo -> Target] /\ Qualified \in [Repo -> Target]
  /\ \A p \in Policy :
       /\ p.allow \subseteq Repo /\ p.suppress \subseteq Repo /\ p.limit \in Nat

ASSUME NameAssumption ==
  /\ NULL \notin Repo \cup {Other} /\ Other \notin Repo
  /\ Operator \notin Command /\ Wish \in Policy

ASSUME BoundsAssumption ==
  MaxCommands \in Nat /\ MaxFaults \in Nat /\ MaxByHand \in Nat

VARIABLES
  remote,      \* by name: the parent of the repository there, if it is a fork
  file,        \* the state file
  command,     \* the commands that run, and their copies of the state
  lane,        \* the checkout runs
  touched,     \* history: names that others have changed on GitHub
  commands, faults, byHand

vars == <<remote, file, command, lane, touched, commands, faults, byHand>>

bounds == <<commands, faults, byHand>>

-----------------------------------------------------------------------------
(* create_fork_plan.                                                        *)

\* select_repositories_with_reasons: suppression before everything; the allowlist
\* overrides the score,
Eligible(p) ==
  {n \in DOMAIN Ranked : Ranked[n] \in (p.allow \cup Passing) \ p.suppress}

\* and comes first; then the order of the catalog decides,
Sooner(p, m, n) ==
  \/ Ranked[m] \in p.allow /\ Ranked[n] \notin p.allow
  \/ (Ranked[m] \in p.allow <=> Ranked[n] \in p.allow) /\ m < n

Position(p, n) == 1 + Cardinality({m \in Eligible(p) : Sooner(p, m, n)})

\* up to the limit.
Selected(p) ==
  [i \in {Position(p, n) : n \in Eligible(p)} \cap 1..p.limit |->
     Ranked[CHOOSE n \in Eligible(p) : Position(p, n) = i]]

\* choose_target_names: the owner becomes part of a name that is not unique
\* among the selected.
TargetName(selected, i) ==
  IF \E j \in DOMAIN selected : j # i /\ Plain[selected[j]] = Plain[selected[i]]
  THEN Qualified[selected[i]] ELSE Plain[selected[i]]

PlanOf(p) ==
  LET selected == Selected(p)
  IN  [i \in DOMAIN selected |->
         [source |-> selected[i], target |-> TargetName(selected, i)]]

Plans == {PlanOf(p) : p \in Policy}

\* What the operator wants.
Wanted == PlanOf(Wish)

Process == Command \cup {Operator}

-----------------------------------------------------------------------------
\* current_state, as far as the gate tells it apart (VERIFIED_FORK_STATES): Forked
\* and ForkVerified; or Blocked, ForkPlanned, SyncPlanned, Synced and the others.
Current == {"Verified", "Unverified"}

Record == [target : Target, current : Current]

State == [Repo -> Record \cup {NULL}]

Place == {"idle", "preflight", "lookup", "fork", "verify", "save", "write"}

CommandState ==
  [at : Place, plan : Plans \cup {<<>>}, i : Nat, data : State]

Nothing == [r \in Repo |-> NULL]

IdleCommand == [at |-> "idle", plan |-> <<>>, i |-> 1, data |-> Nothing]

LaneState ==
  [at : {"idle", "gate", "stale", "passed", "blocked"}, plan : Plans \cup {<<>>}]

Init ==
  /\ remote = [t \in Target |-> NULL]
  /\ file = Nothing                     \* StateStore.empty: there is no file
  /\ command = [c \in Process |-> IdleCommand]
  /\ lane = [l \in Lane |-> [at |-> "idle", plan |-> <<>>]]
  /\ touched = {} /\ commands = 0 /\ faults = 0 /\ byHand = 0

Readable == file \notin {Empty, Broken}

-----------------------------------------------------------------------------
(* The commands.                                                            *)

Entry(c) == command[c].plan[command[c].i]

\* StateStore.record for every entry of a plan, with no fork verified.
Unverified(data, plan) ==
  [r \in Repo |->
     IF \E i \in DOMAIN plan : plan[i].source = r
     THEN LET i == CHOOSE i \in DOMAIN plan : plan[i].source = r
          IN  [target |-> plan[i].target, current |-> "Unverified"]
     ELSE data[r]]

\* StateStore.load; on a file that is not JSON the command ends here.
Load(c, plan, place, data) ==
  /\ command[c].at = "idle"
  /\ Readable
  /\ IF c = Operator THEN UNCHANGED commands
     ELSE commands < MaxCommands /\ commands' = commands + 1
  /\ command' = [command EXCEPT
       ![c] = [at |-> place, plan |-> plan, i |-> 1, data |-> data]]
  /\ UNCHANGED <<remote, file, lane, touched, faults, byHand>>

\* apply-fork-plan --execute; a plan without forks is saved at once.
StartFork(c, plan) ==
  Load(c, plan, IF plan = <<>> THEN "save" ELSE "preflight", file)

\* apply-fork-plan as a dry run, or apply-sync-plan: GitHub is not asked, and
\* ForkPlanned, SyncPlanned, Synced or a conflict takes the place of what it said.
\* What happens in the checkouts is the matter of ManagedCheckout.
StartOther(c, plan) == Load(c, plan, "save", Unverified(file, plan))

\* Account boundary and identity.
Preflight(c) ==
  /\ command[c].at = "preflight"
  /\ command' = [command EXCEPT ![c].at = "lookup"]
  /\ UNCHANGED <<remote, file, lane, touched, bounds>>

\* They fail: every entry is recorded so.
PreflightFails(c) ==
  /\ command[c].at = "preflight"
  /\ faults < MaxFaults /\ faults' = faults + 1
  /\ command' = [command EXCEPT ![c].at = "save",
       ![c].data = Unverified(@, command[c].plan)]
  /\ UNCHANGED <<remote, file, lane, touched, commands, byHand>>

\* The outcome for this entry; on to the next one, or to the end.
RecordEntry(c, current) ==
  command' = [command EXCEPT
    ![c].data[Entry(c).source] = [target |-> Entry(c).target, current |-> current],
    ![c].i = @ + 1,
    ![c].at = IF command[c].i < Len(command[c].plan) THEN "lookup" ELSE "save"]

\* verify_fork_lookup
IsFork(t, s) == remote[t] = s

\* Mutant: a fork that exists already is a conflict.
LookupNew(c) ==
  /\ command[c].at = "lookup"
  /\ IF remote[Entry(c).target] = NULL
     THEN command' = [command EXCEPT ![c].at = "fork"]
     ELSE RecordEntry(c, "Unverified")
  /\ UNCHANGED <<remote, file, lane, touched, bounds>>

\* The fork exists, another repository does, or none (404).
Lookup(c) ==
  /\ command[c].at = "lookup"
  /\ LET e == Entry(c)
     IN  IF remote[e.target] = NULL
         THEN command' = [command EXCEPT ![c].at = "fork"]
         ELSE RecordEntry(c,
                IF IsFork(e.target, e.source) THEN "Verified" ELSE "Unverified")
  /\ UNCHANGED <<remote, file, lane, touched, bounds>>

\* gh repo fork.  An account has at most one fork of a repository: where there is
\* one already, under whatever name, gh is content with it.
Fork(c) ==
  LET e == Entry(c)
      exists == \E t \in Target : remote[t] = e.source
  IN  /\ command[c].at = "fork"
      /\ IF exists \/ remote[e.target] # NULL
         THEN remote' = remote
         ELSE remote' = [remote EXCEPT ![e.target] = e.source]
      /\ IF exists \/ remote[e.target] = NULL
         THEN command' = [command EXCEPT ![c].at = "verify"]
         ELSE RecordEntry(c, "Unverified")
      /\ UNCHANGED <<file, lane, touched, bounds>>

\* The lookup after gh repo fork.
Verify(c) ==
  /\ command[c].at = "verify"
  /\ RecordEntry(c,
       IF IsFork(Entry(c).target, Entry(c).source) THEN "Verified" ELSE "Unverified")
  /\ UNCHANGED <<remote, file, lane, touched, bounds>>

\* A command to GitHub fails, a fork perhaps after it was made.
GitHubFails(c) ==
  LET e == Entry(c)
  IN  /\ command[c].at \in {"lookup", "fork", "verify"}
      /\ faults < MaxFaults /\ faults' = faults + 1
      /\ RecordEntry(c, "Unverified")
      /\ \/ remote' = remote
         \/ /\ command[c].at = "fork" /\ remote[e.target] = NULL
            /\ \A t \in Target : remote[t] # e.source
            /\ remote' = [remote EXCEPT ![e.target] = e.source]
      /\ UNCHANGED <<file, lane, touched, commands, byHand>>

\* A run whose pinned file is written again will find another digest.
Stale ==
  [l \in Lane |->
     IF lane[l].at = "gate" THEN [lane[l] EXCEPT !.at = "stale"] ELSE lane[l]]

\* StateStore.save opens the file for writing, which empties it,
Truncate(c) ==
  /\ command[c].at = "save"
  /\ file' = Empty
  /\ lane' = Stale
  /\ command' = [command EXCEPT ![c].at = "write"]
  /\ UNCHANGED <<remote, touched, bounds>>

\* and writes from its start; what another command wrote meanwhile may be longer.
Write(c) ==
  /\ command[c].at = "write"
  /\ \/ file' = command[c].data
     \/ file # Empty /\ file' = Broken
  /\ lane' = Stale
  /\ command' = [command EXCEPT ![c] = IdleCommand]
  /\ UNCHANGED <<remote, touched, bounds>>

\* The command is killed.
Crash(c) ==
  /\ command[c].at # "idle"
  /\ faults < MaxFaults /\ faults' = faults + 1
  /\ command' = [command EXCEPT ![c] = IdleCommand]
  /\ UNCHANGED <<remote, file, lane, touched, commands, byHand>>

-----------------------------------------------------------------------------
(* The checkout run, up to its gate.                                        *)

\* run_managed_checkout_agent_system: plan and state by path and digest.
Pin(l, plan) ==
  /\ lane[l].at = "idle"
  /\ lane' = [lane EXCEPT ![l] = [at |-> "gate", plan |-> plan]]
  /\ UNCHANGED <<remote, file, command, touched, bounds>>

\* Mutant: the name is not compared.
MayPassAnywhere(plan) ==
  plan # <<>> /\ \A i \in DOMAIN plan :
    /\ file[plan[i].source] # NULL
    /\ file[plan[i].source].current = "Verified"

\* managed_sync_checks, for a run with --execute-sync.
MayPass(plan) ==
  plan # <<>> /\ \A i \in DOMAIN plan :
    /\ file[plan[i].source] # NULL
    /\ file[plan[i].source].current = "Verified"
    /\ file[plan[i].source].target = plan[i].target

\* The file is as it was pinned, or the run were stale.
Gate(l) ==
  /\ lane[l].at = "gate"
  /\ lane' = [lane EXCEPT
       ![l].at = IF Readable /\ MayPass(lane[l].plan) THEN "passed" ELSE "blocked"]
  /\ UNCHANGED <<remote, file, command, touched, bounds>>

-----------------------------------------------------------------------------
\* Others create, delete, rename or replace a repository.
ByHand(t, v) ==
  /\ byHand < MaxByHand /\ byHand' = byHand + 1
  /\ remote[t] # v
  /\ remote' = [remote EXCEPT ![t] = v]
  /\ touched' = touched \cup {t}
  /\ UNCHANGED <<file, command, lane, commands, faults>>

Step(c) ==
  \/ Preflight(c) \/ PreflightFails(c) \/ Lookup(c) \/ Fork(c) \/ Verify(c)
  \/ GitHubFails(c) \/ Truncate(c) \/ Write(c)

Next ==
  \/ StartFork(Operator, Wanted)
  \/ \E c \in Command, plan \in Plans :
       StartFork(c, plan) \/ StartOther(c, plan)
  \/ \E c \in Process : Step(c) \/ Crash(c)
  \/ \E l \in Lane : Gate(l) \/ \E plan \in Plans : Pin(l, plan)
  \/ \E t \in Target, v \in Repo \cup {Other, NULL} : ByHand(t, v)

\* The operator repeats the command, and a command goes on until it is killed.
Spec ==
  /\ Init /\ [][Next]_vars
  /\ WF_vars(StartFork(Operator, Wanted))
  /\ \A c \in Process : WF_vars(Step(c))

-----------------------------------------------------------------------------
\* Types; what a command or the file holds is a lifecycle state.
TypeOK ==
  /\ remote \in [Target -> Repo \cup {Other, NULL}]
  /\ file \in State \cup {Empty, Broken}
  /\ command \in [Process -> CommandState]
  /\ \A c \in Process : command[c].at \in {"preflight", "lookup", "fork", "verify"} =>
       command[c].i \in DOMAIN command[c].plan
  /\ lane \in [Lane -> LaneState]
  /\ touched \subseteq Target
  /\ commands \in 0..MaxCommands /\ faults \in 0..MaxFaults
  /\ byHand \in 0..MaxByHand

\* "Existing targets are accepted only when GitHub confirms the requested
\* upstream parent" (README.md) and checkouts are only reconciled "after lineage
\* gates pass" (docs/AGENT_RUNTIME.md): what a checkout run may reconcile are
\* forks of the right repositories, under the names of its own plan, although
\* the gate asks a file that any command rewrites from an old copy, and plans
\* that were selected differently name forks differently.
GateMeansFork ==
  \A l \in Lane : lane[l].at = "passed" =>
    \A i \in DOMAIN lane[l].plan :
      LET e == lane[l].plan[i]
      IN  remote[e.target] = e.source \/ e.target \in touched

\* "Repeat-safe reconciliation" (docs/WBS_EXECUTION_PLAN.md): whoever repeats the
\* command for a plan finds every fork verified in the end, whatever failed
\* before and although other commands overwrite the file; unless the name is
\* taken or the fork has another name, or the file is no longer JSON.
Served(e) ==
  /\ Readable
  /\ file[e.source] = [target |-> e.target, current |-> "Verified"]

Hopeless(e) ==
  \/ remote[e.target] \notin {e.source, NULL}
  \/ \E t \in Target \ {e.target} : remote[t] = e.source

Damaged == ~Readable /\ \A c \in Process : command[c].at # "write"

RepetitionConverges ==
  \/ <>[]Damaged
  \/ []<>(\A i \in DOMAIN Wanted : Served(Wanted[i]) \/ Hopeless(Wanted[i]))
=============================================================================
