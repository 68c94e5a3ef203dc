-------------------------- MODULE BuildSupervisor --------------------------
(***************************************************************************)
(* The entrypoint of the sandboxed builder (builders/python-v3) and the    *)
(* process tree that it runs.                                              *)
(*                                                                         *)
(* The supervisor is process 1 of a private pid namespace.  It starts the  *)
(* collector (strace) with the build under it, waits for the collector,    *)
(* kills what is left (enforce_process_quiescence), and only then copies   *)
(* the artifacts of the build, rewrites them and reports.  What is left    *)
(* forks, exits, is orphaned and writes while the supervisor looks through *)
(* /proc one entry after the other.                                        *)
(***************************************************************************)
EXTENDS Naturals, FiniteSets

CONSTANTS
  Pid,        \* process ids of the namespace, without the supervisor's own
  Supervisor, \* process 1
  Wheel, Sdist, Plain, \* names of artifacts, by what they are: .whl, .tar.gz, other
  Content,    \* contents of artifacts
  Regular,    \* of them those within the limits and not a link or a special file
  Canonical,  \* canonicalize_sdist, where it does not raise
  MaxRounds,  \* max_rounds of enforce_process_quiescence
  NULL        \* no process, file, content, report

File == Wheel \cup Sdist \cup Plain

ProcessState == [parent : Pid \cup {Supervisor}, running : BOOLEAN]

ASSUME ProcessAssumption ==
  /\ Supervisor \notin Pid /\ NULL \notin Pid \cup {Supervisor} \cup ProcessState
  /\ MaxRounds \in Nat \ {0}

ASSUME ContentAssumption ==
  /\ NULL \notin Content \cup File /\ NULL \notin {"succeeded", "failed"}
  /\ Regular \subseteq Content
  /\ Canonical \in [Regular -> Regular \cup {NULL}]
  /\ Wheel \cap Sdist = {} /\ Plain \cap (Wheel \cup Sdist) = {}

VARIABLES
  process,    \* by pid: parent, and whether it runs or waits to be reaped
  doomed,     \* processes with a SIGKILL that is not delivered yet
  output,     \* /workspace/output/dist, which belongs to the build
  at,         \* where the supervisor is
  collector,  \* the process of subprocess.run
  passed,     \* completed.returncode = 0
  round,      \* of enforce_process_quiescence
  unlisted, listed, \* the listing of /proc, not yet and already read
  remaining,  \* remaining_process_ids
  todo,       \* snapshot_artifacts: files still to be copied,
  copying,    \* and the one that is being copied
  raw,        \* /out/raw-artifacts
  dist,       \* /out/dist
  transform,  \* status of the transform report
  inventory,  \* the artifact inventory
  report      \* status of builder.json

kernel == <<process, doomed, output>>
barrier == <<collector, passed, round, unlisted, listed, remaining>>
evidence == <<todo, copying, raw, dist, transform, inventory, report>>
vars == <<kernel, at, barrier, evidence>>

-----------------------------------------------------------------------------
Files == [File -> Content \cup {NULL}]

NoFiles == [f \in File |-> NULL]

Barrier == {"reap", "list", "look", "kill"}

Sealing == {"boundary", "walk", "snapshot", "recheck", "canonicalize", "inventory"}

Final == {"done", "aborted", "killed"}

Place == {"start", "build"} \cup Barrier \cup Sealing \cup {"report"} \cup Final

NoProcess == [p \in Pid |-> NULL]

Init ==
  /\ process = NoProcess /\ doomed = {}
  /\ output = NoFiles
  /\ at = "start" /\ collector = NULL /\ passed = FALSE /\ round = 0
  /\ unlisted = {} /\ listed = {} /\ remaining = {}
  /\ todo = {} /\ copying = NULL /\ raw = NoFiles /\ dist = NoFiles
  /\ transform = "not-run" /\ inventory = NoFiles /\ report = NULL

Exists(p) == process[p] # NULL

Running(p) == Exists(p) /\ process[p].running

Zombie(p) == Exists(p) /\ ~process[p].running

Child(p) == Exists(p) /\ process[p].parent = Supervisor

-----------------------------------------------------------------------------
(* The kernel and the build.                                                *)

\* fork, or clone with CLONE_PARENT; not with a SIGKILL pending.
Fork(p, c) ==
  /\ Running(p) /\ p \notin doomed /\ ~Exists(c)
  /\ \E parent \in {p, process[p].parent} :
       process' = [process EXCEPT ![c] = [parent |-> parent, running |-> TRUE]]
  /\ UNCHANGED <<doomed, output, at, barrier, evidence>>

\* a is p or an ancestor of p: every set that contains p and the parents of its
\* members contains a.
Ancestor(a, p) ==
  \A S \in SUBSET {q \in Pid : Exists(q)} :
    (p \in S /\ \A q \in S : process[q].parent \in S \cup {Supervisor}) => a \in S

\* p exits or is killed.  Its children go to the supervisor, or to an ancestor that
\* asked for orphans (PR_SET_CHILD_SUBREAPER).
Exit(p) ==
  /\ Running(p)
  /\ \E r \in {Supervisor} \cup {a \in Pid \ {p} : Running(a) /\ Ancestor(a, p)} :
       process' = [q \in Pid |->
         IF q = p THEN [process[p] EXCEPT !.running = FALSE]
         ELSE IF Exists(q) /\ process[q].parent = p
              THEN [process[q] EXCEPT !.parent = r]
              ELSE process[q]]
  /\ doomed' = doomed \ {p}
  /\ UNCHANGED <<output, at, barrier, evidence>>

\* p waits for a child.
Wait(p, c) ==
  /\ Running(p) /\ Zombie(c) /\ process[c].parent = p
  /\ process' = [process EXCEPT ![c] = NULL]
  /\ UNCHANGED <<doomed, output, at, barrier, evidence>>

\* A process of the build creates, changes or deletes an artifact, if need be in a
\* system call that a SIGKILL does not interrupt.
WriteOutput(p, f, v) ==
  /\ Running(p) /\ p # collector
  /\ output' = [output EXCEPT ![f] = v]
  /\ UNCHANGED <<process, doomed, at, barrier, evidence>>

-----------------------------------------------------------------------------
(* main, up to the barrier.                                                 *)

\* subprocess.run starts the collector.
Start ==
  /\ at = "start"
  /\ \E p \in Pid :
       /\ process' = [process EXCEPT ![p] = [parent |-> Supervisor, running |-> TRUE]]
       /\ collector' = p
  /\ at' = "build"
  /\ UNCHANGED <<doomed, output, passed, round, unlisted, listed, remaining, evidence>>

\* subprocess.run returns: it waits for the collector and for nobody else.
Return(ok) ==
  /\ at = "build" /\ Zombie(collector)
  /\ process' = [process EXCEPT ![collector] = NULL]
  /\ collector' = NULL /\ passed' = ok
  /\ at' = "reap"
  /\ UNCHANGED <<doomed, output, round, unlisted, listed, remaining, evidence>>

-----------------------------------------------------------------------------
(* enforce_process_quiescence.                                              *)

\* Mutant: children are also reaped while /proc is read.
ReapAnytime(c) ==
  /\ at \in {"reap", "list"} /\ Child(c) /\ Zombie(c)
  /\ process' = [process EXCEPT ![c] = NULL]
  /\ UNCHANGED <<doomed, output, at, barrier, evidence>>

\* reap_children, one waitpid after the other
Reap(c) ==
  /\ at = "reap" /\ Child(c) /\ Zombie(c)
  /\ process' = [process EXCEPT ![c] = NULL]
  /\ UNCHANGED <<doomed, output, at, barrier, evidence>>

\* until there is none; the directory is opened.
Reaped ==
  /\ at = "reap" /\ \A c \in Pid : Child(c) => Running(c)
  /\ unlisted' = Pid /\ listed' = {} /\ remaining' = {}
  /\ at' = "list"
  /\ UNCHANGED <<kernel, collector, passed, round, evidence>>

\* remaining_process_ids: the kernel fills the listing pid by pid,
List(p) ==
  /\ at = "list" /\ p \in unlisted
  /\ unlisted' = unlisted \ {p}
  /\ listed' = IF Exists(p) THEN listed \cup {p} ELSE listed
  /\ at' = IF unlisted' = {} THEN "look" ELSE at
  /\ UNCHANGED <<kernel, collector, passed, round, remaining, evidence>>

\* and each entry is looked at once more.
Look(p) ==
  /\ at = "look" /\ p \in listed
  /\ listed' = listed \ {p}
  /\ remaining' = IF Exists(p) THEN remaining \cup {p} ELSE remaining
  /\ UNCHANGED <<kernel, at, collector, passed, round, unlisted, evidence>>

\* Nothing remains: the barrier is passed.  Or all that remains is to be killed.
Looked ==
  /\ at = "look" /\ listed = {}
  /\ at' = IF remaining = {} THEN "boundary" ELSE "kill"
  /\ UNCHANGED <<kernel, barrier, evidence>>

\* os.kill; a process that is gone or dead already is not there to be killed.
Kill(p) ==
  /\ at = "kill" /\ p \in remaining
  /\ remaining' = remaining \ {p}
  /\ doomed' = IF Running(p) THEN doomed \cup {p} ELSE doomed
  /\ UNCHANGED <<process, output, at, collector, passed, round, unlisted, listed, evidence>>

\* Mutant: the rounds are not counted.
KilledForever ==
  /\ at = "kill" /\ remaining = {}
  /\ round' = round
  /\ IF round' = MaxRounds
     THEN at' = "aborted" /\ process' = NoProcess /\ doomed' = {}
     ELSE at' = "reap" /\ UNCHANGED <<process, doomed>>
  /\ UNCHANGED <<output, collector, passed, unlisted, listed, remaining, evidence>>

\* The next round.  The last one raises, out of main and without a report; when
\* process 1 ends, so does its namespace.
Killed ==
  /\ at = "kill" /\ remaining = {}
  /\ round' = round + 1
  /\ IF round' = MaxRounds
     THEN at' = "aborted" /\ process' = NoProcess /\ doomed' = {}
     ELSE at' = "reap" /\ UNCHANGED <<process, doomed>>
  /\ UNCHANGED <<output, collector, passed, unlisted, listed, remaining, evidence>>

-----------------------------------------------------------------------------
(* main, past the barrier.                                                  *)

\* verify_identity_boundary and the return code.
Boundary ==
  /\ at = "boundary" /\ passed
  /\ at' = "walk"
  /\ UNCHANGED <<kernel, barrier, evidence>>

\* snapshot_artifacts: os.walk reads the directory,
Walk ==
  /\ at = "walk"
  /\ todo' = {f \in File : output[f] # NULL}
  /\ at' = "snapshot"
  /\ UNCHANGED <<kernel, barrier, copying, raw, dist, transform, inventory, report>>

\* each file is copied (snapshot_regular_artifact),
Copy(f) ==
  /\ at = "snapshot" /\ f \in todo /\ output[f] \in Regular
  /\ raw' = [raw EXCEPT ![f] = output[f]]
  /\ copying' = f
  /\ at' = "recheck"
  /\ UNCHANGED <<kernel, barrier, todo, dist, transform, inventory, report>>

\* and read a second time.
Recheck ==
  /\ at = "recheck" /\ output[copying] = raw[copying]
  /\ todo' = todo \ {copying} /\ copying' = NULL
  /\ at' = "snapshot"
  /\ UNCHANGED <<kernel, barrier, raw, dist, transform, inventory, report>>

Snapshotted ==
  /\ at = "snapshot" /\ todo = {} /\ raw # NoFiles
  /\ at' = "canonicalize"
  /\ UNCHANGED <<kernel, barrier, evidence>>

\* What an artifact becomes: canonicalize_sdist, or a copy.
FinalContent(f) == IF f \in Sdist THEN Canonical[raw[f]] ELSE raw[f]

\* canonicalize_build_artifacts, file by file,
Canonicalize(f) ==
  /\ at = "canonicalize" /\ raw[f] # NULL /\ dist[f] = NULL
  /\ FinalContent(f) # NULL
  /\ dist' = [dist EXCEPT ![f] = FinalContent(f)]
  /\ UNCHANGED <<kernel, at, barrier, todo, copying, raw, transform, inventory, report>>

\* to its report.
Canonicalized ==
  /\ at = "canonicalize" /\ \A f \in File : raw[f] # NULL => dist[f] # NULL
  /\ \E f \in Wheel : raw[f] # NULL
  /\ \E f \in Sdist : raw[f] # NULL
  /\ transform' = "succeeded"
  /\ at' = "inventory"
  /\ UNCHANGED <<kernel, barrier, todo, copying, raw, dist, inventory, report>>

\* inventory_artifacts
Inventory ==
  /\ at = "inventory"
  /\ inventory' = dist
  /\ at' = "report"
  /\ UNCHANGED <<kernel, barrier, todo, copying, raw, dist, transform, report>>

\* Mutant: what has been rewritten so far is the inventory.
RaisePartial ==
  /\ at \in Sealing
  /\ transform' = IF transform = "succeeded" THEN transform ELSE "failed"
  /\ inventory' = dist
  /\ at' = "report"
  /\ UNCHANGED <<kernel, barrier, todo, copying, raw, dist, report>>

\* A check fails or a system call does (BuilderError, OSError): what has been
\* written stays, and the inventory is empty.
Raise ==
  /\ at \in Sealing
  /\ transform' = IF transform = "succeeded" THEN transform ELSE "failed"
  /\ inventory' = NoFiles
  /\ at' = "report"
  /\ UNCHANGED <<kernel, barrier, todo, copying, raw, dist, report>>

\* builder.json, the last file: validation_error is None if there is an inventory.
Report ==
  /\ at = "report"
  /\ report' = IF passed /\ inventory # NoFiles THEN "succeeded" ELSE "failed"
  /\ at' = "done"
  /\ UNCHANGED <<kernel, barrier, todo, copying, raw, dist, transform, inventory>>

\* The container is killed, or parse_strace_directory or another step outside the
\* try statement raises.
Abort ==
  /\ at \notin Final
  /\ at' = "killed"
  /\ process' = NoProcess /\ doomed' = {} /\ collector' = NULL
  /\ UNCHANGED <<output, passed, round, unlisted, listed, remaining, evidence>>

-----------------------------------------------------------------------------
Build ==
  \E p \in Pid :
    \/ Exit(p)
    \/ \E c \in Pid : Fork(p, c) \/ Wait(p, c)
    \/ \E f \in File, v \in Content \cup {NULL} : WriteOutput(p, f, v)

Quiesce ==
  \/ \E p \in Pid : Reap(p) \/ List(p) \/ Look(p) \/ Kill(p)
  \/ Reaped \/ Looked \/ Killed

Seal ==
  \/ Boundary \/ Walk \/ Recheck \/ Snapshotted \/ Canonicalized \/ Inventory
  \/ \E f \in File : Copy(f) \/ Canonicalize(f)
  \/ Raise \/ Report

Supervise == Start \/ (\E ok \in BOOLEAN : Return(ok)) \/ Quiesce \/ Seal

Next == Build \/ Supervise \/ Abort

\* The supervisor goes on.  Nothing is assumed of the build, nor that a killed
\* process dies soon.
Spec == Init /\ [][Next]_vars /\ WF_vars(Supervise)

-----------------------------------------------------------------------------
TypeOK ==
  /\ process \in [Pid -> ProcessState \cup {NULL}]
  /\ doomed \subseteq Pid /\ output \in Files
  /\ at \in Place /\ passed \in BOOLEAN /\ round \in 0..MaxRounds
  /\ collector \in Pid \cup {NULL} /\ (collector # NULL <=> at = "build")
  /\ unlisted \subseteq Pid /\ listed \subseteq Pid /\ remaining \subseteq Pid
  /\ todo \subseteq File /\ copying \in File \cup {NULL}
  /\ raw \in Files /\ dist \in Files /\ inventory \in Files
  /\ transform \in {"not-run", "succeeded", "failed"}
  /\ report \in {NULL, "succeeded", "failed"}

\* "After strace returns, the PID 1 supervisor kills and reaps every remaining
\* process in the private namespace before reading the build-owned artifact tree"
\* (docs/BUILD_EVIDENCE_CONTRACT.md).  The listing of /proc is not atomic: while it
\* is read, processes fork under ids that have been read already, and exit.  That an
\* empty listing proves that there was nobody rests on the supervisor, who adopts
\* every orphan and reaps none of them meanwhile.
QuiescenceIsReal ==
  at \in Sealing \cup {"report", "done"} => \A p \in Pid : ~Exists(p)

\* A report of success is about the artifacts that the build left, all of them and
\* as they are for ever after, each as the transform makes it; a failure in the
\* middle leaves rewritten files in /out/dist, but never a report that covers them.
SealIsFaithful ==
  report = "succeeded" =>
    /\ passed /\ transform = "succeeded"
    /\ raw = output
    /\ inventory = [f \in File |->
         IF f \in Sdist /\ output[f] # NULL THEN Canonical[output[f]] ELSE output[f]]
    /\ dist = inventory
    /\ \A f \in File : output[f] # NULL => inventory[f] # NULL
    /\ \E w \in Wheel, d \in Sdist : output[w] # NULL /\ output[d] # NULL

\* max_rounds: the supervisor does not wait for ever for processes that do not go
\* away.  What it has no bound for is reap_children, which a build that makes
\* orphans quickly enough keeps busy.
SupervisorGivesUp ==
  \/ at \in Barrier ~> at \in Final
  \/ []<><<\E c \in Pid : Reap(c)>>_vars
=============================================================================
