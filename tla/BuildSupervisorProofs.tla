----------------------- MODULE BuildSupervisorProofs -----------------------
(***************************************************************************)
(* Proofs about BuildSupervisor, for every set of process ids, artifacts   *)
(* and contents and every number of rounds.                                *)
(***************************************************************************)
EXTENDS BuildSupervisor, TLAPS

Nobody == \A p \in Pid : ~Exists(p)

\* The processes form a forest: parents run, and parenthood is well founded.
ParentRuns ==
  \A p \in Pid : Exists(p) =>
    \/ process[p].parent = Supervisor
    \/ process[p].parent \in Pid /\ Running(process[p].parent)

WellFounded ==
  \A S \in SUBSET {p \in Pid : Exists(p)} :
    S # {} => \E p \in S : process[p].parent \notin S

Forest == ParentRuns /\ WellFounded

\* A listing that has not seen anybody yet still has a child of the supervisor
\* before it, unless there is nobody at all.
Witnessed(S) == Nobody \/ \E c \in S : Child(c)

ListingIsSound ==
  /\ at = "list" => Witnessed(unlisted \cup listed)
  /\ at = "look" => Witnessed(listed \cup remaining)

Quiet == at \in {"start", "report"} \cup Sealing \cup Final => Nobody

\* The last round does not come back.
RoundsLeft == at \in {"start", "build"} \cup Barrier => round < MaxRounds

\* Only regular files are copied.
RawIsRegular == \A f \in File : raw[f] \in Regular \cup {NULL}

TreeInv == TypeOK /\ Forest /\ ListingIsSound /\ Quiet /\ RoundsLeft /\ RawIsRegular

-----------------------------------------------------------------------------
LEMMA InitTree == Init => TreeInv
<1> SUFFICES ASSUME Init PROVE TreeInv
  OBVIOUS
<1>1. Nobody /\ {p \in Pid : Exists(p)} = {}
  BY DEF Init, NoProcess, Nobody, Exists
<1>2. TypeOK
  <2>1. process \in [Pid -> ProcessState \cup {NULL}]
    BY DEF Init, NoProcess
  <2>2. NoFiles \in Files
    BY DEF NoFiles, Files
  <2>3. at \in Place
    BY DEF Init, Place
  <2>5. passed \in BOOLEAN
    BY DEF Init
  <2>6. round \in 0..MaxRounds
    BY ProcessAssumption DEF Init
  <2>4. collector \in Pid \cup {NULL} /\ (collector # NULL <=> at = "build")
    BY DEF Init
  <2> QED BY <2>1, <2>2, <2>3, <2>4, <2>5, <2>6 DEF Init, TypeOK
<1>3. Forest
  BY <1>1 DEF Forest, ParentRuns, WellFounded, Nobody
<1>4. RoundsLeft
  BY ProcessAssumption DEF Init, RoundsLeft
<1>5. RawIsRegular
  BY DEF Init, RawIsRegular, NoFiles
<1> QED BY <1>1, <1>2, <1>3, <1>4, <1>5 DEF Init, TreeInv, ListingIsSound, Quiet

\* Whatever is there, a child of the supervisor is there.
LEMMA SomeChild ==
  ASSUME Forest, ~Nobody
  PROVE  \E c \in Pid : Child(c)
<1> DEFINE all == {p \in Pid : Exists(p)}
<1>1. all \in SUBSET all /\ all # {}  BY DEF Nobody
<1>2. PICK c \in all : process[c].parent \notin all
  BY <1>1 DEF Forest, WellFounded
<1>3. process[c].parent = Supervisor
  BY <1>2 DEF Forest, ParentRuns, Running
<1> QED BY <1>3 DEF Child

\* The table after a process has been reaped.
LEMMA ReapedForest ==
  ASSUME TypeOK, Forest, NEW c \in Pid, Zombie(c),
         process' = [process EXCEPT ![c] = NULL]
  PROVE  Forest'
<1>1. \A p \in Pid : Exists(p)' <=> Exists(p) /\ p # c
  BY DEF TypeOK, Exists, ProcessState
<1>2. \A p \in Pid : p # c => process'[p] = process[p]
  BY DEF TypeOK
<1>3. ParentRuns'
  <2> SUFFICES ASSUME NEW p \in Pid, Exists(p)', process'[p].parent # Supervisor
               PROVE  (process[p].parent \in Pid /\ Running(process[p].parent))'
    BY <1>1, <1>2 DEF ParentRuns
  <2>1. process[p].parent \in Pid /\ Running(process[p].parent)
    BY <1>1, <1>2 DEF Forest, ParentRuns
  <2>2. process[p].parent # c
    BY <2>1 DEF Zombie, Running
  <2> QED BY <1>1, <1>2, <2>1, <2>2 DEF Running, Exists
<1>4. WellFounded'
  <2> SUFFICES ASSUME NEW S \in SUBSET {p \in Pid : Exists(p)'}, S # {}
               PROVE  \E p \in S : process'[p].parent \notin S
    BY DEF WellFounded
  <2>1. S \in SUBSET {p \in Pid : Exists(p)} /\ c \notin S
    BY <1>1
  <2>2. PICK p \in S : process[p].parent \notin S
    BY <2>1 DEF Forest, WellFounded
  <2> QED BY <1>2, <2>1, <2>2
<1> QED BY <1>3, <1>4 DEF Forest

\* And after a process has been made.
LEMMA ForkedForest ==
  ASSUME TypeOK, Forest, NEW c \in Pid, ~Exists(c),
         NEW parent \in Pid \cup {Supervisor},
         parent = Supervisor \/ Running(parent),
         process' = [process EXCEPT ![c] = [parent |-> parent, running |-> TRUE]]
  PROVE  Forest'
<1> USE ProcessAssumption
<1> DEFINE new == [parent |-> parent, running |-> TRUE]
<1>0. new # NULL
  <2>1. new \in ProcessState
    BY DEF ProcessState
  <2> QED BY <2>1
<1>1. \A p \in Pid : Exists(p)' <=> Exists(p) \/ p = c
  BY <1>0 DEF TypeOK, Exists
<1>2. \A p \in Pid : p # c => process'[p] = process[p]
  BY DEF TypeOK
<1>3. process'[c] = [parent |-> parent, running |-> TRUE]
  BY DEF TypeOK
<1>4. parent # c
  BY DEF Running
<1>5. ParentRuns'
  <2> SUFFICES ASSUME NEW p \in Pid, Exists(p)', process'[p].parent # Supervisor
               PROVE  (process[p].parent \in Pid /\ Running(process[p].parent))'
    BY DEF ParentRuns
  <2>1. CASE p = c
    BY <2>1, <1>1, <1>2, <1>3, <1>4 DEF Running, Exists
  <2>2. CASE p # c
    <3>1. process[p].parent \in Pid /\ Running(process[p].parent)
      BY <2>2, <1>1, <1>2 DEF Forest, ParentRuns
    <3> QED BY <3>1, <2>2, <1>1, <1>2 DEF Running, Exists
  <2> QED BY <2>1, <2>2
<1>6. WellFounded'
  <2> SUFFICES ASSUME NEW S \in SUBSET {p \in Pid : Exists(p)'}, S # {}
               PROVE  \E p \in S : process'[p].parent \notin S
    BY DEF WellFounded
  <2> DEFINE T == S \ {c}
  <2>1. CASE T = {}
    BY <2>1, <1>3, <1>4
  <2>2. CASE T # {}
    <3>1. T \in SUBSET {p \in Pid : Exists(p)}
      BY <1>1
    <3>2. PICK p \in T : process[p].parent \notin T
      BY <2>2, <3>1 DEF Forest, WellFounded
    <3>3. process[p].parent # c
      BY <3>1, <3>2, ProcessAssumption DEF Forest, ParentRuns, Running
    <3> QED BY <3>2, <3>3, <1>2
  <2> QED BY <2>1, <2>2
<1> QED BY <1>5, <1>6 DEF Forest

\* The ancestors of p are closed under parenthood,
LEMMA ParentOfAncestor ==
  ASSUME Forest, NEW p \in Pid, NEW x \in Pid, Exists(x), Ancestor(x, p),
         process[x].parent # Supervisor
  PROVE  Ancestor(process[x].parent, p)
<1> DEFINE y == process[x].parent
<1> SUFFICES ASSUME NEW S \in SUBSET {q \in Pid : Exists(q)}, p \in S,
                    \A q \in S : process[q].parent \in S \cup {Supervisor}
             PROVE  y \in S
  BY DEF Ancestor
<1>1. x \in S  BY DEF Ancestor
<1> QED BY <1>1

\* and who has an ancestor has a parent who has or is it.
LEMMA AncestorOfParent ==
  ASSUME Forest, NEW x \in Pid, Exists(x), NEW r \in Pid, Ancestor(r, x), r # x
  PROVE  /\ process[x].parent \in Pid /\ Exists(process[x].parent)
         /\ Ancestor(r, process[x].parent)
<1> DEFINE y == process[x].parent
<1>1. y # Supervisor
  BY {x} \in SUBSET {q \in Pid : Exists(q)} DEF Ancestor
<1>2. y \in Pid /\ Exists(y)
  BY <1>1 DEF Forest, ParentRuns, Running
<1>3. ASSUME NEW S \in SUBSET {q \in Pid : Exists(q)}, y \in S,
             \A q \in S : process[q].parent \in S \cup {Supervisor}
      PROVE  r \in S
  <2> DEFINE T == S \cup {x}
  <2>1. T \in SUBSET {q \in Pid : Exists(q)} /\ x \in T
    OBVIOUS
  <2>2. \A q \in T : process[q].parent \in T \cup {Supervisor}
    BY <1>3
  <2>3. r \in T
    BY <2>1, <2>2 DEF Ancestor
  <2> QED BY <2>3
<1> QED BY <1>2, <1>3 DEF Ancestor

\* The table after p has ended and its children have gone to r.
LEMMA EndedForest ==
  ASSUME TypeOK, Forest, NEW p \in Pid, Running(p), NEW r,
         r = Supervisor \/ (r \in Pid \ {p} /\ Running(r) /\ Ancestor(r, p)),
         process' = [q \in Pid |->
           IF q = p THEN [process[p] EXCEPT !.running = FALSE]
           ELSE IF Exists(q) /\ process[q].parent = p
                THEN [process[q] EXCEPT !.parent = r]
                ELSE process[q]]
  PROVE  /\ process' \in [Pid -> ProcessState \cup {NULL}]
         /\ Forest'
         /\ \A q \in Pid : Exists(q)' <=> Exists(q)
         /\ \A q \in Pid : Child(q) => Child(q)'
<1>1. \A q \in Pid : process[q] \in ProcessState \cup {NULL}
  BY DEF TypeOK
<1>2. \A q \in Pid : Exists(q) => process[q] \in ProcessState /\ process'[q] \in ProcessState
  BY <1>1 DEF Exists, ProcessState, Running
<1>3. \A q \in Pid : Exists(q)' <=> Exists(q)
  BY <1>1, <1>2, ProcessAssumption DEF Exists, Running
<1>4. process' \in [Pid -> ProcessState \cup {NULL}]
  <2>1. \A q \in Pid : ~Exists(q) => process'[q] = process[q]
    BY DEF Running
  <2>2. \A q \in Pid : process'[q] \in ProcessState \cup {NULL}
    BY <1>1, <1>2, <2>1
  <2> QED BY <2>2
<1>5. \A q \in Pid : Exists(q) =>
        process'[q].parent = IF q # p /\ process[q].parent = p THEN r ELSE process[q].parent
  BY <1>2 DEF Exists, ProcessState
<1>6. \A q \in Pid : Exists(q) /\ q # p => process'[q].running = process[q].running
  BY <1>2 DEF Exists, ProcessState
<1>7. \A q \in Pid : Child(q) => Child(q)'
  BY <1>3, <1>5, ProcessAssumption DEF Child
<1>8. \A q \in Pid \ {p} : Running(q) => Running(q)'
  BY <1>3, <1>6 DEF Running
<1>9. \A q \in Pid : Exists(q) => process[q].parent # q
  <2> SUFFICES ASSUME NEW q \in Pid, Exists(q) PROVE process[q].parent # q
    OBVIOUS
  <2>1. {q} \in SUBSET {x \in Pid : Exists(x)} /\ {q} # {}
    OBVIOUS
  <2> QED BY <2>1 DEF Forest, WellFounded
<1>10. ParentRuns'
  <2> SUFFICES ASSUME NEW q \in Pid, Exists(q)', process'[q].parent # Supervisor
               PROVE  (process[q].parent \in Pid /\ Running(process[q].parent))'
    BY DEF ParentRuns
  <2>1. CASE q # p /\ process[q].parent = p
    BY <2>1, <1>3, <1>5, <1>8
  <2>2. CASE ~(q # p /\ process[q].parent = p)
    BY <2>2, <1>3, <1>5, <1>8, <1>9 DEF Forest, ParentRuns
  <2> QED BY <2>1, <2>2
<1>11. WellFounded'
  <2> SUFFICES ASSUME NEW S \in SUBSET {q \in Pid : Exists(q)}, S # {}
               PROVE  \E q \in S : process'[q].parent \notin S
    BY <1>3 DEF WellFounded
  <2>1. CASE r \notin S
    <3>1. PICK w \in S : process[w].parent \notin S
      BY DEF Forest, WellFounded
    <3>2. process'[w].parent \in {r, process[w].parent}
      BY <1>5
    <3> QED BY <2>1, <3>1, <3>2
  <2>2. CASE r \in S
    <3> DEFINE D == {x \in Pid : Exists(x) /\ Ancestor(x, p) /\ Ancestor(r, x)}
               T == S \cup D
    <3>1. r \in Pid /\ r # p /\ Ancestor(r, p)
      BY <2>2, ProcessAssumption
    <3>2. p \in D
      BY <3>1 DEF Ancestor, Running
    <3>3. PICK w \in T : process[w].parent \notin T
      BY <2>2 DEF Forest, WellFounded
    <3>4. w \notin D \/ w = r
      BY <3>1, <3>3, ProcessAssumption, ParentOfAncestor, AncestorOfParent
    <3>5. w \in S
      BY <3>3, <3>4, <2>2
    <3> QED BY <3>2, <3>3, <3>5, <1>5
  <2> QED BY <2>1, <2>2
<1> QED BY <1>3, <1>4, <1>7, <1>10, <1>11 DEF Forest

-----------------------------------------------------------------------------
(* The table of processes under every step.                                 *)

Table == process \in [Pid -> ProcessState \cup {NULL}]

LEMMA EmptyForest ==
  ASSUME process' = NoProcess
  PROVE  Table' /\ Forest' /\ Nobody'
<1>1. Table' /\ {p \in Pid : Exists(p)'} = {}
  BY DEF NoProcess, Table, Exists
<1> QED BY <1>1 DEF Forest, ParentRuns, WellFounded, Nobody

LEMMA ReapedTable ==
  ASSUME Table, NEW c \in Pid, process' = [process EXCEPT ![c] = NULL]
  PROVE  /\ Table'
         /\ \A p \in Pid : p # c => process'[p] = process[p]
BY DEF Table

LEMMA TableStep ==
  ASSUME TreeInv, [Next]_vars
  PROVE  Table' /\ Forest'
<1>0. Table /\ Forest /\ TypeOK
  BY DEF TreeInv, TypeOK, Table
<1>1. ASSUME process' = process PROVE Table' /\ Forest'
  BY <1>0, <1>1 DEF Table, Forest, ParentRuns, WellFounded, Running, Exists
<1>2. ASSUME NEW p \in Pid, NEW c \in Pid, Fork(p, c) PROVE Table' /\ Forest'
  <2>1. PICK parent \in {p, process[p].parent} :
          process' = [process EXCEPT ![c] = [parent |-> parent, running |-> TRUE]]
    BY <1>2 DEF Fork
  <2>2. parent \in Pid \cup {Supervisor} /\ (parent = Supervisor \/ Running(parent))
    BY <1>0, <1>2 DEF Fork, Running, Forest, ParentRuns
  <2>3. Forest'
    BY <1>0, <1>2, <2>1, <2>2, ForkedForest DEF Fork
  <2>4. [parent |-> parent, running |-> TRUE] \in ProcessState
    BY <2>2 DEF ProcessState
  <2> QED BY <1>0, <2>1, <2>3, <2>4 DEF Table
<1>3. ASSUME NEW p \in Pid, Exit(p) PROVE Table' /\ Forest'
  BY <1>0, <1>3, EndedForest DEF Exit, Table
<1>4. ASSUME NEW c \in Pid, Zombie(c), process' = [process EXCEPT ![c] = NULL]
      PROVE  Table' /\ Forest'
  BY <1>0, <1>4, ReapedForest, ReapedTable
<1>5. ASSUME NEW p \in Pid, NEW c \in Pid, Wait(p, c) PROVE Table' /\ Forest'
  BY <1>4, <1>5 DEF Wait
<1>6. ASSUME NEW c \in Pid, Reap(c) PROVE Table' /\ Forest'
  BY <1>4, <1>6 DEF Reap
<1>7. ASSUME NEW ok \in BOOLEAN, Return(ok) PROVE Table' /\ Forest'
  <2>1. collector \in Pid
    BY <1>0, <1>7 DEF Return, TypeOK
  <2> QED BY <1>4, <1>7, <2>1 DEF Return
<1>8. ASSUME Start PROVE Table' /\ Forest'
  <2>1. PICK c \in Pid :
          process' = [process EXCEPT ![c] = [parent |-> Supervisor, running |-> TRUE]]
    BY <1>8 DEF Start
  <2>2. ~Exists(c)
    BY <1>8 DEF Start, TreeInv, Quiet, Nobody
  <2>3. Forest'
    BY <1>0, <2>1, <2>2, ForkedForest
  <2>4. [parent |-> Supervisor, running |-> TRUE] \in ProcessState
    BY DEF ProcessState
  <2> QED BY <1>0, <2>1, <2>3, <2>4 DEF Table
<1>9. ASSUME Killed PROVE Table' /\ Forest'
  BY <1>1, <1>9, EmptyForest DEF Killed
<1>10. ASSUME Abort PROVE Table' /\ Forest'
  BY <1>10, EmptyForest DEF Abort
<1>11. ASSUME NEW p \in Pid, NEW f \in File, NEW v \in Content \cup {NULL}, WriteOutput(p, f, v)
       PROVE  process' = process
  BY <1>11 DEF WriteOutput
<1>12. ASSUME NEW p \in Pid, List(p) \/ Look(p) \/ Kill(p) PROVE process' = process
  BY <1>12 DEF List, Look, Kill, kernel
<1>13. ASSUME Reaped \/ Looked PROVE process' = process
  BY <1>13 DEF Reaped, Looked, kernel
<1>14. ASSUME Seal PROVE process' = process
  BY <1>14 DEF Seal, Boundary, Walk, Recheck, Snapshotted, Canonicalized, Inventory,
       Copy, Canonicalize, Raise, Report, kernel
<1>15. ASSUME UNCHANGED vars PROVE process' = process
  BY <1>15 DEF vars, kernel
<1> QED
  BY <1>1, <1>2, <1>3, <1>5, <1>6, <1>7, <1>8, <1>9, <1>10, <1>11, <1>12, <1>13, <1>14, <1>15
  DEF Next, Build, Supervise, Quiesce

-----------------------------------------------------------------------------
(* The rest of the types.                                                   *)

BarrierTypes ==
  /\ doomed \subseteq Pid
  /\ collector \in Pid \cup {NULL}
  /\ round \in 0..MaxRounds
  /\ unlisted \subseteq Pid /\ listed \subseteq Pid /\ remaining \subseteq Pid

EvidenceTypes ==
  /\ output \in Files
  /\ todo \subseteq File /\ copying \in File \cup {NULL}
  /\ raw \in Files /\ dist \in Files /\ inventory \in Files

StatusTypes ==
  /\ transform \in {"not-run", "succeeded", "failed"}
  /\ report \in {NULL, "succeeded", "failed"}

PlaceTypes == at \in Place /\ (collector # NULL <=> at = "build")

LEMMA Types ==
  TypeOK <=> Table /\ BarrierTypes /\ EvidenceTypes /\ StatusTypes /\ PlaceTypes
             /\ passed \in BOOLEAN
BY Zenon DEF TypeOK, Table, BarrierTypes, EvidenceTypes, StatusTypes, PlaceTypes

LEMMA TypesPrime ==
  TypeOK' <=> Table' /\ BarrierTypes' /\ EvidenceTypes' /\ StatusTypes' /\ PlaceTypes'
              /\ passed' \in BOOLEAN
BY Zenon DEF TypeOK, Table, BarrierTypes, EvidenceTypes, StatusTypes, PlaceTypes

LEMMA TypeStep ==
  ASSUME TreeInv, [Next]_vars
  PROVE  TypeOK' /\ RoundsLeft' /\ RawIsRegular'
<1>0. Table /\ BarrierTypes /\ EvidenceTypes /\ StatusTypes /\ PlaceTypes
      /\ passed \in BOOLEAN /\ RoundsLeft /\ RawIsRegular
  BY Types DEF TreeInv
<1> DEFINE Rest == /\ BarrierTypes' /\ EvidenceTypes' /\ StatusTypes' /\ PlaceTypes'
                   /\ passed' \in BOOLEAN /\ RoundsLeft' /\ RawIsRegular'
<1>1. ASSUME NEW p \in Pid, NEW c \in Pid, Fork(p, c) \/ Wait(p, c) PROVE Rest
  BY <1>0, <1>1 DEF Fork, Wait, barrier, evidence,
     BarrierTypes, EvidenceTypes, StatusTypes, PlaceTypes, RoundsLeft, RawIsRegular
<1>2. ASSUME NEW p \in Pid, Exit(p) PROVE Rest
  BY <1>0, <1>2 DEF Exit, barrier, evidence,
     BarrierTypes, EvidenceTypes, StatusTypes, PlaceTypes, RoundsLeft, RawIsRegular
<1>3. ASSUME NEW p \in Pid, NEW f \in File, NEW v \in Content \cup {NULL}, WriteOutput(p, f, v)
      PROVE  Rest
  <2>1. output' \in Files
    BY <1>0, <1>3 DEF WriteOutput, EvidenceTypes, Files
  <2> QED BY <1>0, <1>3, <2>1 DEF WriteOutput, barrier, evidence,
            BarrierTypes, EvidenceTypes, StatusTypes, PlaceTypes, RoundsLeft, RawIsRegular
<1>4. ASSUME Start PROVE Rest
  BY <1>0, <1>4, ProcessAssumption DEF Start, barrier, evidence, Place, Barrier,
     BarrierTypes, EvidenceTypes, StatusTypes, PlaceTypes, RoundsLeft, RawIsRegular
<1>5. ASSUME NEW ok \in BOOLEAN, Return(ok) PROVE Rest
  BY <1>0, <1>5 DEF Return, barrier, evidence, Place, Barrier,
     BarrierTypes, EvidenceTypes, StatusTypes, PlaceTypes, RoundsLeft, RawIsRegular
<1>6. ASSUME NEW p \in Pid, Reap(p) \/ List(p) \/ Look(p) \/ Kill(p) PROVE Rest
  BY <1>0, <1>6 DEF Reap, List, Look, Kill, kernel, barrier, evidence, Place, Barrier,
     BarrierTypes, EvidenceTypes, StatusTypes, PlaceTypes, RoundsLeft, RawIsRegular
<1>7. ASSUME Reaped \/ Looked PROVE Rest
  BY <1>0, <1>7 DEF Reaped, Looked, kernel, barrier, evidence, Place, Barrier, Sealing,
     BarrierTypes, EvidenceTypes, StatusTypes, PlaceTypes, RoundsLeft, RawIsRegular
<1>8. ASSUME Killed PROVE Rest
  <2>1. round < MaxRounds /\ at = "kill" /\ collector = NULL
    BY <1>0, <1>8 DEF Killed, RoundsLeft, Barrier, PlaceTypes
  <2>2. round' \in 0..MaxRounds /\ (at' # "aborted" => round' < MaxRounds)
    BY <1>0, <1>8, <2>1, ProcessAssumption DEF Killed, BarrierTypes
  <2>3. at' \in {"aborted", "reap"} /\ doomed' \subseteq Pid /\ collector' = NULL
    BY <1>0, <1>8, <2>1 DEF Killed, BarrierTypes
  <2> QED BY <1>0, <1>8, <2>2, <2>3 DEF Killed, evidence, Place, Barrier, Final,
            BarrierTypes, EvidenceTypes, StatusTypes, PlaceTypes, RoundsLeft, RawIsRegular
<1>9. ASSUME Seal PROVE Rest
  <2>1. at \in Sealing \cup {"report"} /\ at' \in Sealing \cup {"report", "done"}
        /\ UNCHANGED <<kernel, barrier>>
    BY <1>9 DEF Seal, Boundary, Walk, Recheck, Snapshotted, Canonicalized, Inventory,
       Copy, Canonicalize, Raise, Report, Sealing
  <2>2. BarrierTypes' /\ PlaceTypes' /\ passed' \in BOOLEAN /\ RoundsLeft'
    <3>1. at # "build" /\ at' # "build"
      BY <2>1 DEF Sealing
    <3> QED BY <1>0, <2>1, <3>1 DEF Sealing, Place, Final, Barrier, kernel, barrier,
              BarrierTypes, PlaceTypes, RoundsLeft
  <2>3. StatusTypes'
    BY <1>0, <1>9 DEF StatusTypes, Seal, Boundary, Walk, Recheck, Snapshotted, Canonicalized,
       Inventory, Copy, Canonicalize, Raise, Report, evidence
  <2>4. output' = output
    BY <2>1 DEF kernel
  <2>5. ASSUME NEW f \in File, Copy(f) PROVE EvidenceTypes'
    BY <1>0, <2>4, <2>5, ContentAssumption DEF Copy, EvidenceTypes, Files
  <2>6. ASSUME NEW f \in File, Canonicalize(f) PROVE EvidenceTypes'
    <3>1. FinalContent(f) \in Content
      <4>1. raw[f] \in Content
        BY <1>0, <2>6 DEF Canonicalize, EvidenceTypes, Files
      <4>2. CASE f \in Sdist
        <5>1. raw[f] \in Regular
          BY <1>0, <2>6 DEF RawIsRegular, Canonicalize
        <5>2. Canonical[raw[f]] \in Regular \cup {NULL}
          BY <5>1, ContentAssumption
        <5> QED BY <2>6, <4>2, <5>2, ContentAssumption DEF Canonicalize, FinalContent
      <4>3. CASE f \notin Sdist
        BY <4>1, <4>3 DEF FinalContent
      <4> QED BY <4>2, <4>3
    <3> QED BY <1>0, <2>4, <2>6, <3>1 DEF Canonicalize, EvidenceTypes, Files
  <2>7. ASSUME Boundary \/ Walk \/ Recheck \/ Snapshotted \/ Canonicalized \/ Inventory
               \/ Raise \/ Report
        PROVE  EvidenceTypes'
    <3>1. NoFiles \in Files
      BY DEF NoFiles, Files
    <3> QED BY <1>0, <2>4, <2>7, <3>1 DEF EvidenceTypes, Boundary, Walk, Recheck, Snapshotted,
              Canonicalized, Inventory, Raise, Report, evidence
  <2>8. RawIsRegular'
    <3>1. ASSUME NEW f \in File, Copy(f) PROVE RawIsRegular'
      BY <1>0, <3>1 DEF Copy, RawIsRegular, EvidenceTypes, Files
    <3>2. CASE raw' = raw
      BY <1>0, <3>2 DEF RawIsRegular
    <3> QED BY <1>9, <3>1, <3>2 DEF Seal, Boundary, Walk, Recheck, Snapshotted, Canonicalized,
              Inventory, Canonicalize, Raise, Report, evidence
  <2> QED BY <1>9, <2>2, <2>3, <2>5, <2>6, <2>7, <2>8 DEF Seal
<1>10. ASSUME Abort PROVE Rest
  BY <1>0, <1>10 DEF Abort, evidence, Place, Final, Barrier,
     BarrierTypes, EvidenceTypes, StatusTypes, PlaceTypes, RoundsLeft, RawIsRegular
<1>11. ASSUME UNCHANGED vars PROVE Rest
  BY <1>0, <1>11 DEF vars, kernel, barrier, evidence,
     BarrierTypes, EvidenceTypes, StatusTypes, PlaceTypes, RoundsLeft, RawIsRegular
<1>12. Rest
  BY <1>1, <1>2, <1>3, <1>4, <1>5, <1>6, <1>7, <1>8, <1>9, <1>10, <1>11
  DEF Next, Build, Supervise, Quiesce
<1> QED BY <1>12, TableStep, TypesPrime

-----------------------------------------------------------------------------
(* The listing of /proc.                                                    *)

\* The build does not take the witness away, nor does it come back from the dead.
LEMMA BuildStep ==
  ASSUME TreeInv, Build
  PROVE  ListingIsSound' /\ Quiet'
<1>0. TypeOK /\ Forest /\ ListingIsSound /\ Quiet
  BY DEF TreeInv
<1>1. PICK p \in Pid :
        \/ Exit(p)
        \/ \E c \in Pid : Fork(p, c) \/ Wait(p, c)
        \/ \E f \in File, v \in Content \cup {NULL} : WriteOutput(p, f, v)
  BY DEF Build
<1>2. Running(p) /\ ~Nobody
  BY <1>1 DEF Exit, Fork, Wait, WriteOutput, Running, Nobody
<1>3. at' = at /\ UNCHANGED barrier
  BY <1>1 DEF Exit, Fork, Wait, WriteOutput
<1>4. \A c \in Pid : Child(c) => Child(c)'
  <2>1. CASE Exit(p)
    BY <1>0, <1>2, <2>1, EndedForest DEF Exit
  <2>2. ASSUME NEW c \in Pid, Fork(p, c) PROVE \A q \in Pid : Child(q) => Child(q)'
    BY <1>0, <2>2 DEF Fork, Child, Exists, TypeOK
  <2>3. ASSUME NEW c \in Pid, Wait(p, c) PROVE \A q \in Pid : Child(q) => Child(q)'
    BY <1>0, <2>3, ProcessAssumption DEF Wait, Child, Exists, TypeOK
  <2>4. ASSUME NEW f \in File, NEW v \in Content \cup {NULL}, WriteOutput(p, f, v)
        PROVE  \A q \in Pid : Child(q) => Child(q)'
    BY <2>4 DEF WriteOutput, Child, Exists
  <2> QED BY <1>1, <2>1, <2>2, <2>3, <2>4
<1>5. Quiet'
  BY <1>0, <1>2, <1>3 DEF Quiet
<1>6. unlisted \subseteq Pid /\ listed \subseteq Pid /\ remaining \subseteq Pid
  BY <1>0 DEF TypeOK
<1>7. ListingIsSound'
  <2>1. ASSUME at = "list" PROVE \E c \in unlisted \cup listed : Child(c)'
    BY <1>0, <1>2, <1>4, <1>6, <2>1 DEF ListingIsSound, Witnessed
  <2>2. ASSUME at = "look" PROVE \E c \in listed \cup remaining : Child(c)'
    BY <1>0, <1>2, <1>4, <1>6, <2>2 DEF ListingIsSound, Witnessed
  <2> QED BY <1>3, <2>1, <2>2 DEF ListingIsSound, Witnessed, barrier
<1> QED BY <1>5, <1>7

\* The supervisor reads the listing; what it passes over does not exist.
LEMMA ReadingStep ==
  ASSUME TreeInv, NEW p \in Pid, List(p) \/ Look(p)
  PROVE  ListingIsSound' /\ Quiet'
<1>0. ListingIsSound /\ process' = process
  BY DEF TreeInv, List, Look, kernel
<1>1. Quiet'
  BY DEF List, Look, Quiet, Sealing, Final
<1>2. CASE List(p)
  <2>1. Witnessed(unlisted \cup listed)
    BY <1>0, <1>2 DEF List, ListingIsSound
  <2>2. CASE Nobody
    BY <1>0, <1>1, <2>2 DEF ListingIsSound, Witnessed, Nobody, Exists
  <2>3. ASSUME NEW c \in unlisted \cup listed, Child(c) PROVE ListingIsSound'
    <3>1. c \in unlisted' \cup listed' /\ Child(c)'
      BY <1>0, <1>2, <2>3 DEF List, Child, Exists
    <3>2. at' = "look" => c \in listed'
      BY <1>2, <3>1 DEF List
    <3> QED BY <3>1, <3>2 DEF ListingIsSound, Witnessed
  <2> QED BY <1>1, <2>1, <2>2, <2>3 DEF Witnessed
<1>3. CASE Look(p)
  <2>1. Witnessed(listed \cup remaining)
    BY <1>0, <1>3 DEF Look, ListingIsSound
  <2>2. CASE Nobody
    BY <1>0, <1>1, <2>2 DEF ListingIsSound, Witnessed, Nobody, Exists
  <2>3. ASSUME NEW c \in listed \cup remaining, Child(c) PROVE ListingIsSound'
    <3>1. c \in listed' \cup remaining' /\ Child(c)'
      BY <1>0, <1>3, <2>3 DEF Look, Child, Exists
    <3>2. at' = "look"
      BY <1>3 DEF Look
    <3> QED BY <3>1, <3>2 DEF ListingIsSound, Witnessed
  <2> QED BY <1>1, <2>1, <2>2, <2>3 DEF Witnessed
<1> QED BY <1>1, <1>2, <1>3

LEMMA ListingStep ==
  ASSUME TreeInv, [Next]_vars
  PROVE  ListingIsSound' /\ Quiet'
<1>0. TypeOK /\ Forest /\ ListingIsSound /\ Quiet
  BY DEF TreeInv
<1>1. CASE Build
  BY <1>1, BuildStep
<1>2. ASSUME NEW p \in Pid, List(p) \/ Look(p) PROVE ListingIsSound' /\ Quiet'
  BY <1>2, ReadingStep
<1>3. CASE Reaped
  <2>1. at' = "list" /\ unlisted' = Pid /\ process' = process
    BY <1>3 DEF Reaped, kernel
  <2>2. Nobody' \/ \E c \in Pid : Child(c)'
    BY <1>0, <2>1, SomeChild DEF Nobody, Child, Exists
  <2> QED BY <2>1, <2>2 DEF ListingIsSound, Witnessed, Quiet, Sealing, Final
<1>4. CASE Looked
  <2>1. at' \in {"boundary", "kill"} /\ process' = process
    BY <1>4 DEF Looked, kernel
  <2>2. at' = "boundary" => Nobody
    BY <1>0, <1>4 DEF Looked, ListingIsSound, Witnessed
  <2> QED BY <2>1, <2>2 DEF ListingIsSound, Quiet, Sealing, Final, Nobody, Exists
<1>5. CASE Killed
  <2>1. at' \in {"aborted", "reap"}
    BY <1>5 DEF Killed
  <2>2. at' = "aborted" => Nobody'
    BY <1>5, EmptyForest DEF Killed
  <2> QED BY <2>1, <2>2 DEF ListingIsSound, Quiet, Sealing, Final
<1>6. CASE Abort
  <2>1. Nobody'
    BY <1>6, EmptyForest DEF Abort
  <2> QED BY <1>6, <2>1 DEF Abort, ListingIsSound, Quiet
<1>7. ASSUME NEW p \in Pid, Reap(p) \/ Kill(p) PROVE ListingIsSound' /\ Quiet'
  BY <1>7 DEF Reap, Kill, ListingIsSound, Quiet, Sealing, Final
<1>8. CASE Start
  BY <1>8 DEF Start, ListingIsSound, Quiet, Sealing, Final
<1>9. ASSUME NEW ok \in BOOLEAN, Return(ok) PROVE ListingIsSound' /\ Quiet'
  BY <1>9 DEF Return, ListingIsSound, Quiet, Sealing, Final
<1>10. CASE Seal
  <2>1. at \in Sealing \cup {"report"} /\ at' \in Sealing \cup {"report", "done"}
        /\ process' = process
    BY <1>10 DEF Seal, Boundary, Walk, Recheck, Snapshotted, Canonicalized, Inventory,
       Copy, Canonicalize, Raise, Report, Sealing, kernel
  <2>2. Nobody'
    BY <1>0, <2>1 DEF Quiet, Nobody, Exists
  <2> QED BY <2>1, <2>2 DEF ListingIsSound, Quiet, Sealing
<1>11. CASE UNCHANGED vars
  <2>1. process' = process /\ at' = at /\ UNCHANGED barrier
    BY <1>11 DEF vars, kernel
  <2> QED BY <1>0, <2>1 DEF ListingIsSound, Witnessed, Quiet, Nobody, Child, Exists, barrier
<1> QED
  BY <1>1, <1>2, <1>3, <1>4, <1>5, <1>6, <1>7, <1>8, <1>9, <1>10, <1>11
  DEF Next, Supervise, Quiesce

-----------------------------------------------------------------------------
LEMMA TreeInvariant == Spec => []TreeInv
<1>1. TreeInv /\ [Next]_vars => TreeInv'
  BY TableStep, TypeStep, ListingStep DEF TreeInv
<1> QED BY <1>1, InitTree, PTL DEF Spec

\* The types, whatever the build does.
THEOREM TypeCorrect == Spec => []TypeOK
<1>1. TreeInv => TypeOK
  BY DEF TreeInv
<1> QED BY <1>1, TreeInvariant, PTL

\* The barrier: when the artifacts are read, and from then on, no process of the
\* build exists, for every number of processes.
THEOREM BarrierIsReal == Spec => []QuiescenceIsReal
<1>1. TreeInv => QuiescenceIsReal
  BY DEF TreeInv, Quiet, QuiescenceIsReal, Nobody, Final
<1> QED BY <1>1, TreeInvariant, PTL

-----------------------------------------------------------------------------
(* The evidence: what is established at which place.                        *)

Early == {"start", "build"} \cup Barrier \cup {"boundary", "walk"}

Sealed ==
  /\ passed /\ transform = "succeeded"
  /\ raw = output
  /\ inventory = [f \in File |->
       IF f \in Sdist /\ output[f] # NULL THEN Canonical[output[f]] ELSE output[f]]
  /\ dist = inventory
  /\ \A f \in File : output[f] # NULL => inventory[f] # NULL
  /\ \E w \in Wheel, d \in Sdist : output[w] # NULL /\ output[d] # NULL

Untouched == (at \in Early => raw = NoFiles /\ dist = NoFiles) /\ (at = "walk" => passed)

Snapshots ==
  at \in {"snapshot", "recheck"} =>
    passed /\ dist = NoFiles /\ \A f \in File \ todo : raw[f] = output[f]

Rewrites ==
  at \in {"canonicalize", "inventory"} =>
    /\ passed /\ raw = output
    /\ \A f \in File : /\ dist[f] \in {NULL, FinalContent(f)}
                       /\ raw[f] = NULL => dist[f] = NULL

Complete ==
  at = "inventory" =>
    /\ transform = "succeeded"
    /\ \A f \in File : raw[f] # NULL => dist[f] # NULL
    /\ \E w \in Wheel, d \in Sdist : raw[w] # NULL /\ raw[d] # NULL

Reported ==
  /\ at = "report" /\ inventory # NoFiles => Sealed
  /\ report = "succeeded" => Sealed
  /\ report # NULL => at = "done"

SealInv == Untouched /\ Snapshots /\ Rewrites /\ Complete /\ Reported

LEMMA InitSeal == Init => SealInv
BY ContentAssumption DEF Init, SealInv, Untouched, Snapshots, Rewrites, Complete, Reported

\* Nothing has been reported before the end.
LEMMA NoReportYet ==
  ASSUME SealInv, report' = report, at # "done", at' # "report" \/ inventory' = NoFiles
  PROVE  Reported'
BY ContentAssumption DEF SealInv, Reported

\* A step that leaves the place and the evidence alone, and the artifacts of the
\* build too unless it is early.
LEMMA ElsewhereSeal ==
  ASSUME SealInv, at' = at, passed' = passed, UNCHANGED evidence,
         output' = output \/ at \in Early \cup {"aborted", "killed"}
  PROVE  SealInv'
<1>1. Untouched' /\ Complete'
  BY DEF SealInv, Untouched, Complete, evidence
<1>2. Snapshots' /\ Rewrites'
  BY DEF SealInv, Snapshots, Rewrites, FinalContent, evidence, Early, Barrier
<1>3. Reported'
  <2>1. CASE output' = output
    BY <2>1 DEF SealInv, Reported, Sealed, evidence
  <2>2. CASE at \in Early \cup {"aborted", "killed"}
    BY <2>2, NoReportYet DEF evidence, Early, Barrier
  <2> QED BY <2>1, <2>2
<1> QED BY <1>1, <1>2, <1>3 DEF SealInv

\* A step between two early places, or to the end without a report.
LEMMA EarlySeal ==
  ASSUME SealInv, at \in Early \cup Sealing \cup {"report"}, UNCHANGED evidence,
         \/ at \in Early /\ at' \in (Early \ {"walk"}) \cup {"aborted"}
         \/ at' = "killed"
  PROVE  SealInv'
<1>1. Reported'
  BY NoReportYet DEF evidence, Early, Barrier, Sealing
<1>2. Untouched' /\ Complete' /\ Snapshots' /\ Rewrites'
  BY DEF SealInv, Untouched, Complete, Snapshots, Rewrites, evidence, Early, Barrier
<1> QED BY <1>1, <1>2 DEF SealInv

\* The last check of the transform: everything has been rewritten.
LEMMA InventorySeal ==
  ASSUME TypeOK, SealInv, Inventory
  PROVE  Sealed'
<1>1. passed /\ raw = output /\ transform = "succeeded"
  BY DEF SealInv, Rewrites, Complete, Inventory
<1>2. \A f \in File : dist[f] =
        IF f \in Sdist /\ output[f] # NULL THEN Canonical[output[f]] ELSE output[f]
  BY <1>1 DEF SealInv, Rewrites, Complete, Inventory, FinalContent
<1>3. dist = [f \in File |->
        IF f \in Sdist /\ output[f] # NULL THEN Canonical[output[f]] ELSE output[f]]
  BY <1>2 DEF TypeOK, Files
<1>4. UNCHANGED <<output, passed, raw, dist, transform>> /\ inventory' = dist
  BY DEF Inventory, kernel, barrier
<1>5. \A f \in File : output[f] # NULL => dist[f] # NULL
  BY <1>1 DEF SealInv, Complete, Inventory
<1>6. \E w \in Wheel, d \in Sdist : output[w] # NULL /\ output[d] # NULL
  BY <1>1 DEF SealInv, Complete, Inventory
<1> QED BY <1>1, <1>3, <1>4, <1>5, <1>6 DEF Sealed

LEMMA SealStep ==
  ASSUME TreeInv, SealInv, [Next]_vars
  PROVE  SealInv'
<1>0. TypeOK /\ Quiet
  BY DEF TreeInv
<1>1. CASE Build
  <2>1. at' = at /\ passed' = passed /\ UNCHANGED evidence /\ ~Nobody
    BY <1>1 DEF Build, Exit, Fork, Wait, WriteOutput, Running, Nobody, barrier
  <2>2. at \in Early
    BY <1>0, <2>1 DEF TypeOK, Place, Quiet, Early, Sealing, Final
  <2> QED BY <2>1, <2>2, ElsewhereSeal
<1>2. CASE Start \/ Quiesce \/ \E ok \in BOOLEAN : Return(ok)
  <2>1. /\ at \in Early /\ at' \in (Early \ {"walk"}) \cup {"aborted"}
        /\ UNCHANGED evidence
    BY <1>2 DEF Start, Return, Quiesce, Reap, List, Look, Kill, Reaped, Looked, Killed,
       Early, Barrier
  <2> QED BY <2>1, EarlySeal
<1>3. CASE Abort
  BY <1>0, <1>3, EarlySeal DEF Abort, TypeOK, Place, Final, Early
<1>4. CASE Boundary
  <2>1. Reported'
    BY <1>4, NoReportYet DEF Boundary, evidence
  <2> QED BY <1>4, <2>1 DEF Boundary, SealInv, Untouched, Snapshots, Rewrites, Complete,
            evidence, barrier, Early
<1>5. CASE Walk
  <2>1. raw = NoFiles /\ dist = NoFiles /\ passed /\ report = NULL
    BY <1>5 DEF Walk, SealInv, Untouched, Reported, Early
  <2>2. \A f \in File \ todo' : raw[f] = output[f]
    BY <1>5, <2>1 DEF Walk, NoFiles
  <2>3. Reported'
    BY <1>5, NoReportYet DEF Walk
  <2> QED BY <1>5, <2>1, <2>2, <2>3 DEF Walk, SealInv, Untouched, Snapshots, Rewrites,
            Complete, barrier, kernel, Early, Barrier
<1>6. ASSUME NEW f \in File, Copy(f) PROVE SealInv'
  <2>1. passed /\ dist = NoFiles /\ report = NULL
        /\ \A g \in File \ todo : raw[g] = output[g]
    BY <1>6 DEF Copy, SealInv, Snapshots, Reported
  <2>2. \A g \in File \ todo : raw'[g] = output[g]
    BY <1>0, <1>6, <2>1 DEF Copy, TypeOK, Files
  <2>3. Reported'
    BY <1>6, NoReportYet DEF Copy
  <2> QED BY <1>6, <2>1, <2>2, <2>3 DEF Copy, SealInv, Untouched, Snapshots, Rewrites,
            Complete, barrier, kernel, Early, Barrier
<1>7. CASE Recheck
  <2>1. Reported'
    BY <1>7, NoReportYet DEF Recheck
  <2> QED BY <1>7, <2>1 DEF Recheck, SealInv, Untouched, Snapshots, Rewrites, Complete,
            barrier, kernel, Early, Barrier
<1>8. CASE Snapshotted
  <2>1. passed /\ dist = NoFiles /\ report = NULL
        /\ \A g \in File : raw[g] = output[g]
    BY <1>8 DEF Snapshotted, SealInv, Snapshots, Reported
  <2>2. raw = output
    BY <1>0, <2>1 DEF TypeOK, Files
  <2>3. Reported'
    BY <1>8, NoReportYet DEF Snapshotted, evidence
  <2> QED BY <1>8, <2>1, <2>2, <2>3 DEF Snapshotted, SealInv, Untouched, Snapshots, Rewrites,
            Complete, barrier, kernel, evidence, Early, Barrier, NoFiles
<1>9. ASSUME NEW f \in File, Canonicalize(f) PROVE SealInv'
  <2>1. passed /\ raw = output /\ report = NULL
        /\ \A g \in File : /\ dist[g] \in {NULL, FinalContent(g)}
                           /\ raw[g] = NULL => dist[g] = NULL
    BY <1>9 DEF Canonicalize, SealInv, Rewrites, Reported
  <2>2. \A g \in File : /\ dist'[g] \in {NULL, FinalContent(g)}
                        /\ raw[g] = NULL => dist'[g] = NULL
    BY <1>0, <1>9, <2>1 DEF Canonicalize, TypeOK, Files
  <2>3. \A g \in File : FinalContent(g)' = FinalContent(g)
    BY <1>9 DEF Canonicalize, FinalContent
  <2>4. Reported'
    BY <1>9, NoReportYet DEF Canonicalize
  <2> QED BY <1>9, <2>1, <2>2, <2>3, <2>4 DEF Canonicalize, SealInv, Untouched, Snapshots,
            Rewrites, Complete, barrier, kernel, Early, Barrier
<1>10. CASE Canonicalized
  <2>1. \A g \in File : FinalContent(g)' = FinalContent(g)
    BY <1>10 DEF Canonicalized, FinalContent
  <2>2. Reported'
    BY <1>10, NoReportYet DEF Canonicalized
  <2>3. Complete'
    <3>1. PICK w \in Wheel : raw[w] # NULL
      BY <1>10 DEF Canonicalized, File
    <3>2. PICK d \in Sdist : raw[d] # NULL
      BY <1>10 DEF Canonicalized, File
    <3> QED BY <1>10, <3>1, <3>2 DEF Canonicalized, Complete
  <2> QED BY <1>10, <2>1, <2>2, <2>3 DEF Canonicalized, SealInv, Untouched, Snapshots,
            Rewrites, barrier, kernel, Early, Barrier
<1>11. CASE Inventory
  <2>1. Sealed' /\ report = NULL
    BY <1>0, <1>11, InventorySeal DEF Inventory, SealInv, Reported
  <2> QED BY <1>11, <2>1 DEF Inventory, SealInv, Untouched, Snapshots, Rewrites,
            Complete, Reported, Early, Barrier
<1>12. CASE Raise
  <2>1. Reported'
    BY <1>12, NoReportYet DEF Raise, Sealing
  <2> QED BY <1>12, <2>1 DEF Raise, SealInv, Untouched, Snapshots, Rewrites, Complete,
            Early, Barrier
<1>13. CASE Report
  <2>1. report' = "succeeded" => Sealed
    BY <1>13, ContentAssumption DEF Report, SealInv, Reported
  <2>2. Sealed' <=> Sealed
    BY <1>13 DEF Report, Sealed, barrier, kernel
  <2> QED BY <1>13, <2>1, <2>2 DEF Report, SealInv, Untouched, Snapshots, Rewrites,
            Complete, Reported, Early, Barrier
<1>14. CASE UNCHANGED vars
  BY <1>14, ElsewhereSeal DEF vars, barrier, kernel
<1> QED
  BY <1>1, <1>2, <1>3, <1>4, <1>5, <1>6, <1>7, <1>8, <1>9, <1>10, <1>11, <1>12, <1>13, <1>14
  DEF Next, Supervise, Seal

\* A report of success is about all the artifacts that the build left, as they stay
\* and as the transform makes them, whatever fails before it is written.
THEOREM EvidenceIsFaithful == Spec => []SealIsFaithful
<1>1. TreeInv /\ SealInv /\ [Next]_vars => SealInv'
  BY SealStep
<1>2. SealInv => SealIsFaithful
  BY DEF SealInv, Reported, Sealed, SealIsFaithful
<1> QED BY <1>1, <1>2, InitSeal, TreeInvariant, PTL DEF Spec
=============================================================================
