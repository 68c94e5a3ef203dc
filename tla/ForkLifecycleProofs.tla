------------------------ MODULE ForkLifecycleProofs ------------------------
(***************************************************************************)
(* Theorems about ForkLifecycle: a plan is a sequence of forks; types; and *)
(* what passes the gate of a checkout run is a fork of the right           *)
(* repository.                                                             *)
(*                                                                         *)
(* The gate asks the state file, which any command overwrites with a copy  *)
(* it loaded before.  The invariant is therefore about every copy, the one *)
(* in the file and those the commands hold (GateInvariant): whatever it    *)
(* calls verified is on GitHub a fork of that repository, or others have   *)
(* changed that name.  A record is made verified only when GitHub has just *)
(* said so, and no command takes a fork away; an old copy is old, never    *)
(* wrong.                                                                  *)
(***************************************************************************)
EXTENDS ForkLifecycle, TLAPS, FiniteSetTheorems

-----------------------------------------------------------------------------
(* The plan: a sequence of forks of repositories.                           *)

\* The order in which repositories are chosen is strict and total.
LEMMA SoonerIsOrder ==
  ASSUME NEW p, NEW m \in Nat, NEW n \in Nat
  PROVE  /\ ~Sooner(p, n, n)
         /\ m # n => Sooner(p, m, n) \/ Sooner(p, n, m)
         /\ \A l \in Nat : Sooner(p, l, m) /\ Sooner(p, m, n) => Sooner(p, l, n)
BY DEF Sooner

LEMMA EligibleIsFinite ==
  ASSUME NEW p
  PROVE  /\ Eligible(p) \subseteq Nat /\ IsFiniteSet(Eligible(p))
         /\ Cardinality(Eligible(p)) \in Nat
         /\ \A n \in Eligible(p) : Ranked[n] \in Repo
<1>1. Len(Ranked) \in Nat /\ Eligible(p) \subseteq 1..Len(Ranked)
  BY CatalogAssumption DEF Eligible
<1>2. IsFiniteSet(1..Len(Ranked))
  BY <1>1, FS_Interval
<1>3. IsFiniteSet(Eligible(p))
  BY <1>1, <1>2, FS_Subset
<1>4. Cardinality(Eligible(p)) \in Nat
  BY <1>3, FS_CardinalityType
<1> QED
  BY <1>1, <1>3, <1>4, CatalogAssumption

\* Every position up to the number of the eligible is taken, by one of them.
LEMMA PositionsAreTaken ==
  ASSUME NEW p
  PROVE  {Position(p, n) : n \in Eligible(p)} = 1..Cardinality(Eligible(p))
<1> DEFINE E == Eligible(p)
<1> DEFINE N == Cardinality(E)
<1> DEFINE Before(n) == {m \in E : Sooner(p, m, n)}
<1> DEFINE f == [n \in E |-> Position(p, n)]
<1>1. E \subseteq Nat /\ IsFiniteSet(E) /\ N \in Nat
  BY EligibleIsFinite
<1>2. \A n \in E : /\ IsFiniteSet(Before(n)) /\ Cardinality(Before(n)) \in Nat
                   /\ Position(p, n) = 1 + Cardinality(Before(n))
  <2> TAKE n \in E
  <2>1. Before(n) \in SUBSET E
    OBVIOUS
  <2>2. IsFiniteSet(Before(n))
    BY <1>1, <2>1, FS_Subset
  <2> QED
    BY <2>2, FS_CardinalityType DEF Position
<1> HIDE DEF E, N
<1>3. \A n \in E : Position(p, n) \in 1..N
  <2> TAKE n \in E
  <2>1. n \notin Before(n) /\ Before(n) \in SUBSET (E \ {n})
    BY <1>1, SoonerIsOrder
  <2>2. IsFiniteSet(E \ {n}) /\ Cardinality(E \ {n}) = N - 1
    BY <1>1, FS_RemoveElement DEF N
  <2>3. Cardinality(Before(n)) <= N - 1
    <3> HIDE DEF Before
    <3> QED
      BY <2>1, <2>2, FS_Subset
  <2> QED
    BY <1>1, <1>2, <2>3
<1>4. \A m, n \in E : Sooner(p, m, n) => Position(p, m) < Position(p, n)
  <2> SUFFICES ASSUME NEW m \in E, NEW n \in E, Sooner(p, m, n)
               PROVE  Position(p, m) < Position(p, n)
    OBVIOUS
  <2>1. Before(m) \subseteq Before(n)
    BY <1>1, SoonerIsOrder
  <2>2. m \in Before(n) /\ m \notin Before(m)
    BY <1>1, SoonerIsOrder
  <2>3. Cardinality(Before(m)) <= Cardinality(Before(n))
        /\ Cardinality(Before(m)) # Cardinality(Before(n))
    <3> HIDE DEF Before
    <3>1. Before(m) # Before(n) /\ Before(m) \in SUBSET Before(n)
      BY <2>1, <2>2
    <3>2. IsFiniteSet(Before(n))
      BY <1>2
    <3> QED
      BY <3>1, <3>2, FS_Subset
  <2> HIDE DEF Before
  <2> QED
    BY <1>2, <2>3
<1>5. \A m, n \in E : Position(p, m) = Position(p, n) => m = n
  <2> SUFFICES ASSUME NEW m \in E, NEW n \in E, m # n
               PROVE  Position(p, m) # Position(p, n)
    OBVIOUS
  <2>1. Sooner(p, m, n) \/ Sooner(p, n, m)
    BY <1>1, SoonerIsOrder
  <2> QED
    BY <1>3, <1>4, <2>1
<1>6. f \in Injection(E, 1..N)
  BY <1>3, <1>5 DEF Injection, IsInjective
<1>7. IsFiniteSet(1..N) /\ Cardinality(1..N) = N
  BY <1>1, FS_Interval
<1>8. f \in Surjection(E, 1..N)
  <2> HIDE DEF f
  <2> QED
    BY <1>6, <1>7, FS_Injection DEF N
<1>9. \A i \in 1..N : \E n \in E : Position(p, n) = i
  BY <1>8 DEF Surjection
<1> QED
  BY <1>3, <1>9 DEF E, N

\* The forks of a plan are of repositories, under names of the target owner; and
\* a plan is a sequence.
LEMMA PlansAreSequences ==
  ASSUME NEW plan \in Plans \cup {<<>>}
  PROVE  /\ Len(plan) \in Nat /\ DOMAIN plan = 1..Len(plan)
         /\ plan # <<>> => Len(plan) > 0
         /\ \A i \in DOMAIN plan : plan[i].source \in Repo /\ plan[i].target \in Target
<1>1. CASE plan = <<>>
  BY <1>1
<1>2. ASSUME NEW p \in Policy, plan = PlanOf(p)
      PROVE  /\ Len(plan) \in Nat /\ DOMAIN plan = 1..Len(plan)
             /\ plan # <<>> => Len(plan) > 0
             /\ \A i \in DOMAIN plan :
                  plan[i].source \in Repo /\ plan[i].target \in Target
  <2> DEFINE N == Cardinality(Eligible(p))
  <2> DEFINE n == IF N < p.limit THEN N ELSE p.limit
  <2>1. N \in Nat /\ p.limit \in Nat
    BY EligibleIsFinite, CatalogAssumption
  <2>2. DOMAIN Selected(p) = 1..N \cap 1..p.limit
    BY PositionsAreTaken DEF Selected
  <2> HIDE DEF N
  <2>3. DOMAIN Selected(p) = 1..n /\ n \in Nat
    BY <2>1, <2>2
  <2>4. \A i \in DOMAIN Selected(p) : Selected(p)[i] \in Repo
    <3> SUFFICES ASSUME NEW i \in DOMAIN Selected(p) PROVE Selected(p)[i] \in Repo
      OBVIOUS
    <3>1. \E m \in Eligible(p) : Position(p, m) = i
      BY DEF Selected
    <3>2. Selected(p)[i] = Ranked[CHOOSE m \in Eligible(p) : Position(p, m) = i]
      BY DEF Selected
    <3> QED
      BY <3>1, <3>2, EligibleIsFinite
  <2>5. \A i \in DOMAIN Selected(p) : TargetName(Selected(p), i) \in Target
    BY <2>4, CatalogAssumption DEF TargetName
  <2>6. /\ DOMAIN plan = 1..n
        /\ \A i \in DOMAIN plan : plan[i].source \in Repo /\ plan[i].target \in Target
    BY <1>2, <2>3, <2>4, <2>5 DEF PlanOf
  <2>7. plan = [i \in 1..n |-> [source |-> Selected(p)[i],
                                target |-> TargetName(Selected(p), i)]]
    BY <1>2, <2>3 DEF PlanOf
  <2> HIDE DEF n
  <2>8. Len(plan) = n
    BY <2>3, <2>7
  <2>9. n = 0 => plan = <<>>
    <3>1. plan \in Seq({plan[i] : i \in 1..n})
      BY <2>3, <2>7
    <3> QED
      BY <2>8, <3>1
  <2> QED
    BY <2>3, <2>6, <2>8, <2>9
<1> QED
  BY <1>1, <1>2 DEF Plans

-----------------------------------------------------------------------------
(* Types.                                                                   *)

LEMMA EntryIsFork ==
  ASSUME TypeOK, NEW c \in Process,
         command[c].at \in {"preflight", "lookup", "fork", "verify"}
  PROVE  /\ Entry(c).source \in Repo /\ Entry(c).target \in Target
         /\ command[c].i \in 1..Len(command[c].plan)
         /\ Len(command[c].plan) \in Nat
         /\ DOMAIN command[c].plan = 1..Len(command[c].plan)
<1>1. command[c] \in CommandState /\ command[c].i \in DOMAIN command[c].plan
  BY DEF TypeOK
<1>2. command[c].plan \in Plans \cup {<<>>}
  BY <1>1 DEF CommandState
<1> QED
  BY <1>1, <1>2, PlansAreSequences DEF Entry

LEMMA UnverifiedIsState ==
  ASSUME NEW data \in State, NEW plan \in Plans \cup {<<>>}
  PROVE  /\ Unverified(data, plan) \in State
         /\ \A r \in Repo : \/ Unverified(data, plan)[r] = data[r]
                            \/ Unverified(data, plan)[r].current = "Unverified"
<1> DEFINE u == Unverified(data, plan)
<1> DEFINE Entered(r) == \E i \in DOMAIN plan : plan[i].source = r
<1>1. ASSUME NEW r \in Repo, Entered(r)
      PROVE  u[r] \in Record /\ u[r].current = "Unverified"
  <2> DEFINE i == CHOOSE i \in DOMAIN plan : plan[i].source = r
  <2>1. i \in DOMAIN plan
    BY <1>1
  <2>2. plan[i].target \in Target
    BY <2>1, PlansAreSequences
  <2>3. u[r] = [target |-> plan[i].target, current |-> "Unverified"]
    BY <1>1 DEF Unverified
  <2> HIDE DEF i
  <2> QED
    BY <2>2, <2>3 DEF Record, Current
<1>2. ASSUME NEW r \in Repo, ~Entered(r)
      PROVE  u[r] = data[r] /\ u[r] \in Record \cup {NULL}
  BY <1>2 DEF Unverified, State
<1>3. \A r \in Repo : u[r] \in Record \cup {NULL}
  BY <1>1, <1>2
<1>4. u \in State
  BY <1>3 DEF Unverified, State
<1> QED
  BY <1>1, <1>2, <1>4

LEMMA TypeOKInit == Init => TypeOK
<1> SUFFICES ASSUME Init PROVE TypeOK
  OBVIOUS
<1>1. Nothing \in State
  BY DEF Nothing, State
<1>2. IdleCommand \in CommandState /\ IdleCommand.at = "idle"
  BY <1>1 DEF IdleCommand, CommandState, Place
<1>3. remote \in [Target -> Repo \cup {Other, NULL}] /\ file \in State
  BY <1>1 DEF Init
<1>4. /\ command \in [Process -> CommandState]
      /\ \A c \in Process : command[c].at = "idle"
  BY <1>2 DEF Init
<1>5. lane \in [Lane -> LaneState]
  BY DEF Init, LaneState
<1>6. /\ touched \subseteq Target
      /\ commands \in 0..MaxCommands /\ faults \in 0..MaxFaults
      /\ byHand \in 0..MaxByHand
  BY BoundsAssumption DEF Init
<1> QED
  BY <1>3, <1>4, <1>5, <1>6 DEF TypeOK

\* What a step of one command does to the commands.
LEMMA OneCommand ==
  ASSUME TypeOK, NEW c \in Process, NEW x \in CommandState,
         x.at \in {"preflight", "lookup", "fork", "verify"} =>
           x.i \in DOMAIN x.plan,
         command' = [command EXCEPT ![c] = x]
  PROVE  /\ command' \in [Process -> CommandState]
         /\ \A d \in Process :
              command'[d].at \in {"preflight", "lookup", "fork", "verify"} =>
                command'[d].i \in DOMAIN command'[d].plan
         /\ command'[c] = x /\ \A d \in Process \ {c} : command'[d] = command[d]
BY DEF TypeOK

\* The command that has recorded the outcome for an entry.
LEMMA RecordEntryIs ==
  ASSUME TypeOK, NEW c \in Process, command[c].at \in {"lookup", "fork", "verify"},
         NEW current \in Current, RecordEntry(c, current)
  PROVE  LET x == command'[c]
             e == Entry(c)
         IN  /\ command' = [command EXCEPT ![c] = x]
             /\ x \in CommandState
             /\ x.at \in {"preflight", "lookup", "fork", "verify"} =>
                  x.i \in DOMAIN x.plan
             /\ x.data[e.source] = [target |-> e.target, current |-> current]
             /\ \A r \in Repo \ {e.source} : x.data[r] = command[c].data[r]
<1> DEFINE a == command[c]
<1> DEFINE e == Entry(c)
<1> DEFINE rec == [target |-> e.target, current |-> current]
<1> DEFINE x == [a EXCEPT !.data[e.source] = rec, !.i = @ + 1,
                          !.at = IF a.i < Len(a.plan) THEN "lookup" ELSE "save"]
<1>1. command' = [command EXCEPT ![c] = x]
  BY DEF RecordEntry
<1>2. a \in CommandState /\ command \in [Process -> CommandState]
  BY DEF TypeOK
<1>3. /\ e.source \in Repo /\ e.target \in Target
      /\ a.i \in 1..Len(a.plan) /\ Len(a.plan) \in Nat
      /\ DOMAIN a.plan = 1..Len(a.plan)
  BY EntryIsFork
<1>4. rec \in Record
  BY <1>3 DEF Record
<1> HIDE DEF a, e, rec
<1>5. x = [at |-> IF a.i < Len(a.plan) THEN "lookup" ELSE "save", plan |-> a.plan,
           i |-> a.i + 1, data |-> [a.data EXCEPT ![e.source] = rec]]
  <2>1. DOMAIN a = {"at", "plan", "i", "data"}
    BY <1>2 DEF CommandState
  <2>2. x.at = IF a.i < Len(a.plan) THEN "lookup" ELSE "save"
    BY <2>1
  <2>3. x.plan = a.plan
    BY <2>1
  <2>4. x.i = a.i + 1
    BY <2>1
  <2>5. x.data = [a.data EXCEPT ![e.source] = rec]
    BY <2>1
  <2>6. DOMAIN x = {"at", "plan", "i", "data"}
    BY <2>1
  <2>7. x = [f \in {"at", "plan", "i", "data"} |-> x[f]]
    BY <2>1
  <2> HIDE DEF x
  <2> QED
    BY <2>2, <2>3, <2>4, <2>5, <2>7
<1>6. [a.data EXCEPT ![e.source] = rec] \in State
  <2>1. a.data \in [Repo -> Record \cup {NULL}]
    BY <1>2 DEF CommandState, State
  <2>2. [a.data EXCEPT ![e.source] = rec] \in [Repo -> Record \cup {NULL}]
    BY <1>3, <1>4, <2>1
  <2> QED
    BY <2>2 DEF State
<1>7. x \in CommandState
  BY <1>2, <1>3, <1>5, <1>6 DEF CommandState, Place
<1>8. x.at = "lookup" => x.i \in DOMAIN x.plan
  BY <1>3, <1>5
<1>9. /\ x.data[e.source] = rec
      /\ \A r \in Repo \ {e.source} : x.data[r] = a.data[r]
  <2>1. a.data \in [Repo -> Record \cup {NULL}]
    BY <1>2 DEF CommandState, State
  <2>2. x.data = [a.data EXCEPT ![e.source] = rec]
    BY <1>5
  <2> HIDE DEF x
  <2> QED
    BY <1>3, <2>1, <2>2
<1>10. x.at \in {"lookup", "save"}
  BY <1>5
<1> HIDE DEF x
<1>11. command'[c] = x
  BY <1>1, <1>2
<1> QED
  BY <1>1, <1>7, <1>8, <1>9, <1>10, <1>11 DEF a, e, rec


CommandsOK ==
  /\ command \in [Process -> CommandState]
  /\ \A c \in Process :
       command[c].at \in {"preflight", "lookup", "fork", "verify"} =>
         command[c].i \in DOMAIN command[c].plan

LEMMA MovesTo ==
  ASSUME TypeOK, NEW c \in Process, NEW v \in Place,
         command' = [command EXCEPT ![c].at = v],
         v \in {"preflight", "lookup", "fork", "verify"} =>
           command[c].i \in DOMAIN command[c].plan
  PROVE  /\ CommandsOK'
         /\ \A d \in Process : command'[d].data = command[d].data
<1> DEFINE x == [command[c] EXCEPT !.at = v]
<1>1. command[c] \in CommandState /\ command \in [Process -> CommandState]
  BY DEF TypeOK
<1>2. /\ x \in CommandState /\ x.at = v /\ x.i = command[c].i
      /\ x.plan = command[c].plan /\ x.data = command[c].data
  BY <1>1 DEF CommandState
<1>3. command' = [command EXCEPT ![c] = x]
  OBVIOUS
<1> HIDE DEF x
<1> QED
  BY <1>1, <1>2, <1>3, OneCommand DEF CommandsOK

LEMMA LoadKeepsType ==
  ASSUME TypeOK, NEW c \in Process, NEW plan \in Plans \cup {<<>>},
         NEW place \in Place, NEW data \in State,
         place \in {"preflight", "lookup", "fork", "verify"} => plan # <<>>,
         Load(c, plan, place, data)
  PROVE  CommandsOK' /\ command'[c].data = data
         /\ \A d \in Process \ {c} : command'[d] = command[d]
<1> DEFINE x == [at |-> place, plan |-> plan, i |-> 1, data |-> data]
<1>1. x \in CommandState /\ command' = [command EXCEPT ![c] = x]
  BY DEF Load, CommandState
<1>2. plan # <<>> => 1 \in DOMAIN plan
  BY PlansAreSequences
<1>3. /\ x.at = place /\ x.i = 1 /\ x.plan = plan /\ x.data = data
  OBVIOUS
<1> HIDE DEF x
<1>4. x.at \in {"preflight", "lookup", "fork", "verify"} => x.i \in DOMAIN x.plan
  BY <1>2, <1>3
<1> QED
  BY <1>1, <1>3, <1>4, OneCommand DEF CommandsOK

\* A command that has recorded every entry as not verified.
LEMMA PreflightFailsIs ==
  ASSUME TypeOK, NEW c \in Process, PreflightFails(c)
  PROVE  /\ CommandsOK'
         /\ command'[c].data = Unverified(command[c].data, command[c].plan)
         /\ \A d \in Process \ {c} : command'[d] = command[d]
<1> DEFINE u == Unverified(command[c].data, command[c].plan)
<1> DEFINE x == [command[c] EXCEPT !.at = "save", !.data = u]
<1>1. command[c] \in CommandState
  BY DEF TypeOK
<1>2. u \in State
  BY <1>1, UnverifiedIsState DEF CommandState
<1>3. command' = [command EXCEPT ![c] = x]
  BY DEF PreflightFails
<1> HIDE DEF u
<1>4. x \in CommandState /\ x.at = "save" /\ x.data = u
  BY <1>1, <1>2 DEF CommandState, Place
<1> HIDE DEF x
<1> QED
  BY <1>3, <1>4, OneCommand DEF CommandsOK, u

LEMMA CommandsStep ==
  ASSUME TypeOK, Next
  PROVE  CommandsOK'
<1>0. CommandsOK
  BY DEF TypeOK, CommandsOK
<1>1. ASSUME NEW c \in Process, NEW plan \in Plans, StartFork(c, plan)
      PROVE  CommandsOK'
  <2>1. Load(c, plan, IF plan = <<>> THEN "save" ELSE "preflight", file)
    BY <1>1 DEF StartFork
  <2>2. file \in State
    BY <2>1 DEF Load, Readable, TypeOK
  <2> QED
    BY <2>1, <2>2, LoadKeepsType DEF Place
<1>2. ASSUME NEW c \in Process, NEW plan \in Plans, StartOther(c, plan)
      PROVE  CommandsOK'
  <2>1. Load(c, plan, "save", Unverified(file, plan))
    BY <1>2 DEF StartOther
  <2>2. file \in State
    BY <2>1 DEF Load, Readable, TypeOK
  <2>3. Unverified(file, plan) \in State
    BY <2>2, UnverifiedIsState
  <2> QED
    BY <2>1, <2>3, LoadKeepsType DEF Place
<1>3. ASSUME NEW c \in Process, Preflight(c) PROVE CommandsOK'
  <2>1. command[c].i \in DOMAIN command[c].plan
    BY <1>3 DEF Preflight, TypeOK
  <2> QED
    BY <1>3, <2>1, MovesTo DEF Preflight, Place
<1>4. ASSUME NEW c \in Process, PreflightFails(c) PROVE CommandsOK'
  BY <1>4, PreflightFailsIs
<1>5. ASSUME NEW c \in Process, NEW current \in Current, RecordEntry(c, current),
             command[c].at \in {"lookup", "fork", "verify"}
      PROVE  CommandsOK'
  <2> DEFINE x == command'[c]
  <2>1. /\ command' = [command EXCEPT ![c] = x] /\ x \in CommandState
        /\ x.at \in {"preflight", "lookup", "fork", "verify"} => x.i \in DOMAIN x.plan
    BY <1>5, RecordEntryIs
  <2> HIDE DEF x
  <2> QED
    BY <2>1, OneCommand DEF CommandsOK
<1>6. ASSUME NEW c \in Process, Lookup(c) PROVE CommandsOK'
  <2>1. CASE command' = [command EXCEPT ![c].at = "fork"]
    <3>1. command[c].i \in DOMAIN command[c].plan
      BY <1>6 DEF Lookup, TypeOK
    <3> QED
      BY <2>1, <3>1, MovesTo DEF Place
  <2>2. CASE RecordEntry(c, "Verified") \/ RecordEntry(c, "Unverified")
    BY <1>5, <1>6, <2>2 DEF Lookup, Current
  <2> QED
    BY <1>6, <2>1, <2>2 DEF Lookup
<1>7. ASSUME NEW c \in Process, Fork(c) PROVE CommandsOK'
  <2>1. CASE command' = [command EXCEPT ![c].at = "verify"]
    <3>1. command[c].i \in DOMAIN command[c].plan
      BY <1>7 DEF Fork, TypeOK
    <3> QED
      BY <2>1, <3>1, MovesTo DEF Place
  <2>2. CASE RecordEntry(c, "Unverified")
    BY <1>5, <1>7, <2>2 DEF Fork, Current
  <2> QED
    BY <1>7, <2>1, <2>2 DEF Fork
<1>8. ASSUME NEW c \in Process, Verify(c) PROVE CommandsOK'
  BY <1>5, <1>8 DEF Verify, Current
<1>9. ASSUME NEW c \in Process, GitHubFails(c) PROVE CommandsOK'
  BY <1>5, <1>9 DEF GitHubFails, Current
<1>10. ASSUME NEW c \in Process, Truncate(c) PROVE CommandsOK'
  BY <1>10, MovesTo DEF Truncate, Place
<1>11. ASSUME NEW c \in Process, Write(c) \/ Crash(c) PROVE CommandsOK'
  <2>1. IdleCommand \in CommandState /\ IdleCommand.at = "idle"
    BY DEF IdleCommand, CommandState, Place, Nothing, State
  <2>2. command' = [command EXCEPT ![c] = IdleCommand]
    BY <1>11 DEF Write, Crash
  <2> QED
    BY <2>1, <2>2, OneCommand DEF CommandsOK
<1>12. ASSUME UNCHANGED command PROVE CommandsOK'
  BY <1>0, <1>12 DEF CommandsOK
<1>13. ASSUME NEW l \in Lane, Gate(l) \/ \E plan \in Plans : Pin(l, plan)
       PROVE  UNCHANGED command
  BY <1>13 DEF Gate, Pin
<1>14. ASSUME NEW t \in Target, NEW v \in Repo \cup {Other, NULL}, ByHand(t, v)
       PROVE  UNCHANGED command
  BY <1>14 DEF ByHand
<1>15. Wanted \in Plans /\ Operator \in Process /\ Command \subseteq Process
  BY NameAssumption DEF Wanted, Plans, Process
<1> QED
  BY <1>1, <1>2, <1>3, <1>4, <1>6, <1>7, <1>8, <1>9, <1>10, <1>11, <1>12, <1>13,
     <1>14, <1>15 DEF Next, Step

\* Who writes the state file, and what.
LEMMA FileStep ==
  ASSUME TypeOK, Next
  PROVE  \/ file' = file
         \/ file' \in {Empty, Broken}
         \/ \E c \in Process : Write(c) /\ file' = command[c].data
<1>1. ASSUME NEW c \in Process, NEW plan, NEW place, NEW data, Load(c, plan, place, data)
      PROVE  file' = file
  BY <1>1 DEF Load
<1>2. ASSUME NEW c \in Process, Write(c)
      PROVE  file' = command[c].data \/ file' = Broken
  BY <1>2 DEF Write
<1>3. ASSUME NEW c \in Process, Truncate(c) PROVE file' = Empty
  BY <1>3 DEF Truncate
<1>4. ASSUME NEW c \in Process,
             \/ Preflight(c) \/ PreflightFails(c) \/ Lookup(c) \/ Fork(c)
             \/ Verify(c) \/ GitHubFails(c) \/ Crash(c)
      PROVE  file' = file
  BY <1>4 DEF Preflight, PreflightFails, Lookup, Fork, Verify, GitHubFails, Crash
<1>5. ASSUME NEW l \in Lane, Gate(l) \/ \E plan \in Plans : Pin(l, plan)
      PROVE  file' = file
  BY <1>5 DEF Gate, Pin
<1>6. ASSUME NEW t \in Target, NEW v \in Repo \cup {Other, NULL}, ByHand(t, v)
      PROVE  file' = file
  BY <1>6 DEF ByHand
<1>7. Operator \in Process /\ Command \subseteq Process
  BY DEF Process
<1> QED
  BY <1>1, <1>2, <1>3, <1>4, <1>5, <1>6, <1>7 DEF Next, Step, StartFork, StartOther

\* What becomes of the repositories: a fork takes a free name, unless others
\* change what is there.
LEMMA RemoteStep ==
  ASSUME TypeOK, Next
  PROVE  /\ remote' \in [Target -> Repo \cup {Other, NULL}]
         /\ touched \subseteq touched' /\ touched' \subseteq Target
         /\ \A t \in Target :
              \/ remote'[t] = remote[t]
              \/ t \in touched'
              \/ remote[t] = NULL /\ UNCHANGED file
<1> DEFINE Free(c) ==
      /\ remote[Entry(c).target] = NULL /\ UNCHANGED file
      /\ remote' = [remote EXCEPT ![Entry(c).target] = Entry(c).source]
<1>0. remote \in [Target -> Repo \cup {Other, NULL}] /\ touched \subseteq Target
  BY DEF TypeOK
<1>1. ASSUME NEW c \in Process, NEW plan, NEW place, NEW data, Load(c, plan, place, data)
      PROVE  UNCHANGED <<remote, touched>>
  BY <1>1 DEF Load
<1>2. ASSUME NEW c \in Process,
             \/ Preflight(c) \/ PreflightFails(c) \/ Lookup(c) \/ Verify(c)
             \/ Truncate(c) \/ Write(c) \/ Crash(c)
      PROVE  UNCHANGED <<remote, touched>>
  BY <1>2 DEF Preflight, PreflightFails, Lookup, Verify, Truncate, Write, Crash
<1>3. ASSUME NEW c \in Process, Fork(c) \/ GitHubFails(c)
      PROVE  /\ UNCHANGED touched
             /\ \/ UNCHANGED remote
                \/ Free(c) /\ Entry(c).source \in Repo /\ Entry(c).target \in Target
  <2>1. Entry(c).source \in Repo /\ Entry(c).target \in Target
    BY <1>3, EntryIsFork DEF Fork, GitHubFails
  <2> QED
    BY <1>3, <2>1 DEF Fork, GitHubFails
<1>4. ASSUME NEW l \in Lane, Gate(l) \/ \E plan \in Plans : Pin(l, plan)
      PROVE  UNCHANGED <<remote, touched>>
  BY <1>4 DEF Gate, Pin
<1>5. ASSUME NEW t \in Target, NEW v \in Repo \cup {Other, NULL}, ByHand(t, v)
      PROVE  /\ remote' = [remote EXCEPT ![t] = v] /\ touched' = touched \cup {t}
  BY <1>5 DEF ByHand
<1>6. Operator \in Process /\ Command \subseteq Process
  BY DEF Process
<1> DEFINE Goal ==
      /\ remote' \in [Target -> Repo \cup {Other, NULL}]
      /\ touched \subseteq touched' /\ touched' \subseteq Target
      /\ \A t \in Target :
           \/ remote'[t] = remote[t]
           \/ t \in touched'
           \/ remote[t] = NULL /\ UNCHANGED file
<1>7. UNCHANGED <<remote, touched>> => Goal
  BY <1>0
<1>8. ASSUME NEW c \in Process, Fork(c) \/ GitHubFails(c) PROVE Goal
  BY <1>0, <1>3, <1>8
<1>9. ASSUME NEW t \in Target, NEW v \in Repo \cup {Other, NULL}, ByHand(t, v)
      PROVE  Goal
  BY <1>0, <1>5, <1>9
<1> HIDE DEF Goal
<1>10. Goal
  BY <1>1, <1>2, <1>4, <1>6, <1>7, <1>8, <1>9 DEF Next, Step, StartFork, StartOther
<1> QED
  BY <1>10 DEF Goal

\* What becomes of a checkout run.
LEMMA LaneStep ==
  ASSUME TypeOK, Next
  PROVE  /\ lane' \in [Lane -> LaneState]
         /\ \A l \in Lane :
              lane'[l].at = "passed" =>
                \/ lane'[l] = lane[l]
                \/ /\ Readable /\ MayPass(lane[l].plan) /\ lane'[l].plan = lane[l].plan
                   /\ UNCHANGED <<remote, touched, file>>
<1> DEFINE Goal ==
      /\ lane' \in [Lane -> LaneState]
      /\ \A l \in Lane :
           lane'[l].at = "passed" =>
             \/ lane'[l] = lane[l]
             \/ /\ Readable /\ MayPass(lane[l].plan) /\ lane'[l].plan = lane[l].plan
                /\ UNCHANGED <<remote, touched, file>>
<1> SUFFICES Goal
  OBVIOUS
<1>0. lane \in [Lane -> LaneState]
  BY DEF TypeOK
<1>1. ASSUME UNCHANGED lane PROVE Goal
  BY <1>0, <1>1
<1>2. ASSUME lane' = Stale PROVE Goal
  BY <1>0, <1>2 DEF Stale, LaneState
<1>3. ASSUME NEW l \in Lane, NEW plan \in Plans, Pin(l, plan) PROVE Goal
  BY <1>0, <1>3 DEF Pin, LaneState
<1>4. ASSUME NEW l \in Lane, Gate(l) PROVE Goal
  <2> DEFINE v == IF Readable /\ MayPass(lane[l].plan) THEN "passed" ELSE "blocked"
  <2>1. lane' = [lane EXCEPT ![l].at = v] /\ UNCHANGED <<remote, touched, file>>
    BY <1>4 DEF Gate
  <2>2. v \in {"passed", "blocked"} /\ (v = "passed" => Readable /\ MayPass(lane[l].plan))
    OBVIOUS
  <2> HIDE DEF v
  <2> QED
    BY <1>0, <2>1, <2>2 DEF LaneState
<1> HIDE DEF Goal
<1>5. ASSUME NEW c \in Process, Truncate(c) \/ Write(c) PROVE lane' = Stale
  BY <1>5 DEF Truncate, Write
<1>6. ASSUME NEW c \in Process,
             \/ Preflight(c) \/ PreflightFails(c) \/ Lookup(c) \/ Fork(c)
             \/ Verify(c) \/ GitHubFails(c) \/ Crash(c)
      PROVE  UNCHANGED lane
  BY <1>6 DEF Preflight, PreflightFails, Lookup, Fork, Verify, GitHubFails, Crash
<1>7. ASSUME NEW c \in Process, NEW plan, NEW place, NEW data, Load(c, plan, place, data)
      PROVE  UNCHANGED lane
  BY <1>7 DEF Load
<1>8. ASSUME NEW t \in Target, NEW v \in Repo \cup {Other, NULL}, ByHand(t, v)
      PROVE  UNCHANGED lane
  BY <1>8 DEF ByHand
<1>9. Operator \in Process /\ Command \subseteq Process
  BY DEF Process
<1> QED
  BY <1>1, <1>2, <1>3, <1>4, <1>5, <1>6, <1>7, <1>8, <1>9
     DEF Next, Step, StartFork, StartOther

LEMMA BoundsStep ==
  ASSUME TypeOK, Next
  PROVE  /\ commands' \in 0..MaxCommands /\ faults' \in 0..MaxFaults
         /\ byHand' \in 0..MaxByHand
<1>0. /\ commands \in 0..MaxCommands /\ faults \in 0..MaxFaults
      /\ byHand \in 0..MaxByHand
  BY DEF TypeOK
<1> DEFINE Goal == /\ commands' \in 0..MaxCommands /\ faults' \in 0..MaxFaults
                   /\ byHand' \in 0..MaxByHand
<1>1. ASSUME /\ commands' = commands \/ (commands < MaxCommands /\ commands' = commands + 1)
             /\ faults' = faults \/ (faults < MaxFaults /\ faults' = faults + 1)
             /\ byHand' = byHand \/ (byHand < MaxByHand /\ byHand' = byHand + 1)
      PROVE  Goal
  BY <1>0, <1>1, BoundsAssumption
<1> HIDE DEF Goal
<1>2. ASSUME NEW c \in Process, NEW plan, NEW place, NEW data, Load(c, plan, place, data)
      PROVE  Goal
  BY <1>1, <1>2 DEF Load
<1>3. ASSUME NEW c \in Process,
             \/ Preflight(c) \/ Lookup(c) \/ Fork(c) \/ Verify(c) \/ Truncate(c) \/ Write(c)
      PROVE  Goal
  BY <1>1, <1>3 DEF Preflight, Lookup, Fork, Verify, Truncate, Write, bounds
<1>4. ASSUME NEW c \in Process, PreflightFails(c) \/ GitHubFails(c) \/ Crash(c)
      PROVE  Goal
  BY <1>1, <1>4 DEF PreflightFails, GitHubFails, Crash
<1>5. ASSUME NEW l \in Lane, Gate(l) \/ \E plan \in Plans : Pin(l, plan)
      PROVE  Goal
  BY <1>1, <1>5 DEF Gate, Pin, bounds
<1>6. ASSUME NEW t \in Target, NEW v \in Repo \cup {Other, NULL}, ByHand(t, v)
      PROVE  Goal
  BY <1>1, <1>6 DEF ByHand
<1>7. Operator \in Process /\ Command \subseteq Process
  BY DEF Process
<1>8. Goal
  BY <1>2, <1>3, <1>4, <1>5, <1>6, <1>7 DEF Next, Step, StartFork, StartOther
<1> QED
  BY <1>8 DEF Goal

LEMMA TypeOKStep == TypeOK /\ Next => TypeOK'
<1> SUFFICES ASSUME TypeOK, Next PROVE TypeOK'
  OBVIOUS
<1>1. CommandsOK'
  BY CommandsStep
<1>2. /\ remote' \in [Target -> Repo \cup {Other, NULL}] /\ touched' \subseteq Target
      /\ lane' \in [Lane -> LaneState]
      /\ commands' \in 0..MaxCommands /\ faults' \in 0..MaxFaults
      /\ byHand' \in 0..MaxByHand
  BY RemoteStep, LaneStep, BoundsStep
<1>3. file' \in State \cup {Empty, Broken}
  BY FileStep DEF TypeOK, CommandState
<1> QED
  BY <1>1, <1>2, <1>3 DEF TypeOK, CommandsOK

LEMMA TypeOKStutter == TypeOK /\ UNCHANGED vars => TypeOK'
BY DEF TypeOK, vars, bounds

\* Whatever commands, checkout runs and others do, what the file and every command
\* hold is a lifecycle state, and a command is at an entry of its plan.
THEOREM ForkTypes == Spec => []TypeOK
<1> QED
  BY TypeOKInit, TypeOKStep, TypeOKStutter, PTL DEF Spec

-----------------------------------------------------------------------------
(* What a verified record says.                                             *)

\* Every fork that these records call verified was made for the repository, and
\* is still there unless others have changed it.
Confirmed(data, repositories, changed) ==
  \A r \in Repo :
    data[r] # NULL /\ data[r].current = "Verified" =>
      repositories[data[r].target] = r \/ data[r].target \in changed

\* The old copies that commands hold and write back are no worse than the file.
GateInvariant ==
  /\ Readable => Confirmed(file, remote, touched)
  /\ \A c \in Process : Confirmed(command[c].data, remote, touched)
  /\ GateMeansFork

\* A step leaves what was confirmed as it was, or it is the step of others.
LEMMA ConfirmedStays ==
  ASSUME TypeOK, Next, NEW data \in State, Confirmed(data, remote, touched)
  PROVE  Confirmed(data, remote', touched')
<1> SUFFICES ASSUME NEW r \in Repo, data[r] # NULL, data[r].current = "Verified"
             PROVE  remote'[data[r].target] = r \/ data[r].target \in touched'
  BY DEF Confirmed
<1>1. data[r].target \in Target
  BY DEF State, Record
<1>2. remote[data[r].target] = r \/ data[r].target \in touched
  BY DEF Confirmed
<1>3. r # NULL
  BY NameAssumption
<1> QED
  BY <1>1, <1>2, <1>3, RemoteStep

LEMMA NothingIsConfirmed == Confirmed(Nothing, remote', touched') /\ Nothing \in State
BY DEF Confirmed, Nothing, State

LEMMA UnverifiedIsConfirmed ==
  ASSUME NEW data \in State, NEW plan \in Plans \cup {<<>>},
         Confirmed(data, remote, touched)
  PROVE  Confirmed(Unverified(data, plan), remote, touched)
BY UnverifiedIsState DEF Confirmed

\* What a command records is confirmed by what it has just seen.
LEMMA RecordIsConfirmed ==
  ASSUME TypeOK, Next, NEW c \in Process, Confirmed(command[c].data, remote, touched),
         NEW current \in Current, RecordEntry(c, current),
         command[c].at \in {"lookup", "fork", "verify"},
         current = "Verified" =>
           IsFork(Entry(c).target, Entry(c).source) /\ UNCHANGED remote
  PROVE  /\ Confirmed(command'[c].data, remote', touched')
         /\ \A d \in Process \ {c} : command'[d] = command[d]
<1> DEFINE e == Entry(c)
<1> DEFINE old == command[c].data
<1> DEFINE new == command'[c].data
<1>1. /\ new[e.source] = [target |-> e.target, current |-> current]
      /\ \A r \in Repo \ {e.source} : new[r] = old[r]
      /\ command' = [command EXCEPT ![c] = command'[c]]
  BY RecordEntryIs
<1>2. e.source \in Repo /\ e.target \in Target
  BY EntryIsFork
<1>3. old \in State
  BY DEF TypeOK, CommandState
<1>4. Confirmed(old, remote', touched')
  BY <1>3, ConfirmedStays
<1>5. current = "Verified" => remote'[e.target] = e.source
  BY DEF IsFork
<1>6. \A d \in Process \ {c} : command'[d] = command[d]
  <2> DEFINE x == command'[c]
  <2>1. command' = [command EXCEPT ![c] = x]
    BY <1>1
  <2> HIDE DEF x
  <2> QED
    BY <2>1 DEF TypeOK
<1> HIDE DEF e, old, new
<1>7. Confirmed(new, remote', touched')
  <2> SUFFICES ASSUME NEW r \in Repo, new[r] # NULL, new[r].current = "Verified"
               PROVE  remote'[new[r].target] = r \/ new[r].target \in touched'
    BY DEF Confirmed
  <2>1. CASE r = e.source
    BY <1>1, <1>5, <2>1
  <2>2. CASE r # e.source
    BY <1>1, <1>4, <2>2 DEF Confirmed
  <2> QED
    BY <2>1, <2>2
<1> QED
  BY <1>6, <1>7 DEF new

LEMMA CommandsStayConfirmed ==
  ASSUME TypeOK, Next, GateInvariant
  PROVE  \A c \in Process : Confirmed(command'[c].data, remote', touched')
<1> DEFINE Goal == \A c \in Process : Confirmed(command'[c].data, remote', touched')
<1> SUFFICES Goal
  OBVIOUS
<1>0. \A c \in Process : /\ command[c].data \in State
                         /\ command[c].plan \in Plans \cup {<<>>}
                         /\ Confirmed(command[c].data, remote, touched)
                         /\ Confirmed(command[c].data, remote', touched')
  BY ConfirmedStays DEF TypeOK, CommandState, GateInvariant
<1>1. ASSUME \A d \in Process : command'[d].data = command[d].data PROVE Goal
  BY <1>0, <1>1
<1>2. ASSUME NEW c \in Process, Confirmed(command'[c].data, remote', touched'),
             \A d \in Process \ {c} : command'[d] = command[d]
      PROVE  Goal
  BY <1>0, <1>2
<1> HIDE DEF Goal
<1>3. ASSUME NEW c \in Process, NEW plan \in Plans, StartFork(c, plan)
      PROVE  Goal
  <2>1. Load(c, plan, IF plan = <<>> THEN "save" ELSE "preflight", file)
    BY <1>3 DEF StartFork
  <2>2. file \in State /\ Confirmed(file, remote', touched')
    BY <2>1, ConfirmedStays DEF Load, Readable, TypeOK, GateInvariant
  <2> QED
    BY <1>2, <2>1, <2>2, LoadKeepsType DEF Place
<1>4. ASSUME NEW c \in Process, NEW plan \in Plans, StartOther(c, plan)
      PROVE  Goal
  <2>1. Load(c, plan, "save", Unverified(file, plan))
    BY <1>4 DEF StartOther
  <2>2. file \in State /\ Confirmed(file, remote, touched)
    BY <2>1 DEF Load, Readable, TypeOK, GateInvariant
  <2>3. /\ Unverified(file, plan) \in State
        /\ Confirmed(Unverified(file, plan), remote', touched')
    BY <2>2, UnverifiedIsState, UnverifiedIsConfirmed, ConfirmedStays
  <2> QED
    BY <1>2, <2>1, <2>3, LoadKeepsType DEF Place
<1>5. ASSUME NEW c \in Process, PreflightFails(c) PROVE Goal
  <2> DEFINE u == Unverified(command[c].data, command[c].plan)
  <2>1. u \in State /\ Confirmed(u, remote, touched)
    BY <1>0, UnverifiedIsState, UnverifiedIsConfirmed
  <2>2. Confirmed(u, remote', touched')
    BY <2>1, ConfirmedStays
  <2> QED
    BY <1>2, <1>5, <2>2, PreflightFailsIs
<1>6. ASSUME NEW c \in Process, NEW v \in Place,
             command' = [command EXCEPT ![c].at = v],
             command[c].at \in {"preflight", "lookup", "fork", "verify", "save"},
             v # "write" => command[c].at # "save"
      PROVE  Goal
  <2>1. v \in {"preflight", "lookup", "fork", "verify"} =>
          command[c].i \in DOMAIN command[c].plan
    BY <1>6 DEF TypeOK
  <2> QED
    BY <1>1, <1>6, <2>1, MovesTo
<1>7. ASSUME NEW c \in Process, NEW current \in Current, RecordEntry(c, current),
             command[c].at \in {"lookup", "fork", "verify"},
             current = "Verified" =>
               IsFork(Entry(c).target, Entry(c).source) /\ UNCHANGED remote
      PROVE  Goal
  BY <1>0, <1>2, <1>7, RecordIsConfirmed
<1>8. ASSUME NEW c \in Process, Lookup(c) PROVE Goal
  <2>1. CASE command' = [command EXCEPT ![c].at = "fork"]
    BY <1>6, <1>8, <2>1 DEF Lookup, Place
  <2>2. CASE RecordEntry(c, IF IsFork(Entry(c).target, Entry(c).source)
                            THEN "Verified" ELSE "Unverified")
    <3>1. CASE IsFork(Entry(c).target, Entry(c).source)
      BY <1>7, <1>8, <2>2, <3>1 DEF Lookup, Current
    <3>2. CASE ~IsFork(Entry(c).target, Entry(c).source)
      BY <1>7, <1>8, <2>2, <3>2 DEF Lookup, Current
    <3> QED
      BY <3>1, <3>2
  <2> QED
    BY <1>8, <2>1, <2>2 DEF Lookup
<1>9. ASSUME NEW c \in Process, Fork(c) PROVE Goal
  <2>1. CASE command' = [command EXCEPT ![c].at = "verify"]
    BY <1>6, <1>9, <2>1 DEF Fork, Place
  <2>2. CASE RecordEntry(c, "Unverified")
    BY <1>7, <1>9, <2>2 DEF Fork, Current
  <2> QED
    BY <1>9, <2>1, <2>2 DEF Fork
<1>10. ASSUME NEW c \in Process, Verify(c) PROVE Goal
  <2>1. CASE IsFork(Entry(c).target, Entry(c).source)
    BY <1>7, <1>10, <2>1 DEF Verify, Current
  <2>2. CASE ~IsFork(Entry(c).target, Entry(c).source)
    BY <1>7, <1>10, <2>2 DEF Verify, Current
  <2> QED
    BY <2>1, <2>2
<1>11. ASSUME NEW c \in Process, GitHubFails(c) PROVE Goal
  BY <1>7, <1>11 DEF GitHubFails, Current
<1>12. ASSUME NEW c \in Process, Preflight(c) \/ Truncate(c) PROVE Goal
  BY <1>6, <1>12 DEF Preflight, Truncate, Place
<1>13. ASSUME NEW c \in Process, Write(c) \/ Crash(c) PROVE Goal
  <2>1. command' = [command EXCEPT ![c] = IdleCommand]
    BY <1>13 DEF Write, Crash
  <2>2. command'[c].data = Nothing /\ \A d \in Process \ {c} : command'[d] = command[d]
    BY <2>1 DEF TypeOK, IdleCommand
  <2> QED
    BY <1>2, <2>2, NothingIsConfirmed
<1>14. ASSUME NEW l \in Lane, Gate(l) \/ \E plan \in Plans : Pin(l, plan)
       PROVE  Goal
  BY <1>1, <1>14 DEF Gate, Pin
<1>15. ASSUME NEW t \in Target, NEW v \in Repo \cup {Other, NULL}, ByHand(t, v)
       PROVE  Goal
  BY <1>1, <1>15 DEF ByHand
<1>16. Wanted \in Plans /\ Operator \in Process /\ Command \subseteq Process
  BY NameAssumption DEF Wanted, Plans, Process
<1> QED
  BY <1>3, <1>4, <1>5, <1>8, <1>9, <1>10, <1>11, <1>12, <1>13, <1>14, <1>15, <1>16
     DEF Next, Step

LEMMA FileStaysConfirmed ==
  ASSUME TypeOK, Next, GateInvariant, Readable'
  PROVE  Confirmed(file', remote', touched')
<1>1. CASE file' = file
  <2>1. file \in State /\ Confirmed(file, remote, touched)
    BY <1>1 DEF Readable, TypeOK, GateInvariant
  <2>2. Confirmed(file, remote', touched')
    BY <2>1, ConfirmedStays
  <2> QED
    BY <1>1, <2>2
<1>2. ASSUME NEW c \in Process, file' = command[c].data
      PROVE  Confirmed(file', remote', touched')
  <2>1. command[c].data \in State /\ Confirmed(command[c].data, remote, touched)
    BY DEF TypeOK, CommandState, GateInvariant
  <2>2. Confirmed(command[c].data, remote', touched')
    BY <2>1, ConfirmedStays
  <2> QED
    BY <1>2, <2>2
<1> QED
  BY <1>1, <1>2, FileStep DEF Readable

LEMMA GateStep ==
  ASSUME TypeOK, Next, GateInvariant
  PROVE  GateMeansFork'
<1> DEFINE Right(e) == remote'[e.target] = e.source \/ e.target \in touched'
<1> SUFFICES ASSUME NEW l \in Lane, lane'[l].at = "passed",
                    NEW i \in DOMAIN lane'[l].plan
             PROVE  Right(lane'[l].plan[i])
  BY DEF GateMeansFork
<1> DEFINE e == lane[l].plan[i]
<1>1. lane[l].plan \in Plans \cup {<<>>}
  BY DEF TypeOK, LaneState
<1>2. /\ \/ lane'[l] = lane[l]
         \/ /\ Readable /\ MayPass(lane[l].plan)
            /\ UNCHANGED <<remote, touched, file>>
      /\ lane'[l].plan = lane[l].plan
  BY LaneStep
<1>3. e.source \in Repo /\ e.target \in Target
  BY <1>1, <1>2, PlansAreSequences
<1>4. CASE lane'[l] = lane[l]
  <2>1. remote[e.target] = e.source \/ e.target \in touched
    BY <1>2, <1>4 DEF GateInvariant, GateMeansFork
  <2>2. e.source # NULL
    BY <1>3, NameAssumption
  <2>3. Right(e)
    <3> HIDE DEF e
    <3> QED
      BY <1>3, <2>1, <2>2, RemoteStep
  <2> QED
    BY <1>2, <2>3
<1>5. CASE /\ Readable /\ MayPass(lane[l].plan)
           /\ UNCHANGED <<remote, touched, file>>
  <2>1. /\ file[e.source] # NULL /\ file[e.source].current = "Verified"
        /\ file[e.source].target = e.target
    BY <1>2, <1>5 DEF MayPass
  <2>2. Confirmed(file, remote, touched)
    BY <1>5 DEF GateInvariant
  <2>3. Right(e)
    <3> HIDE DEF e
    <3> QED
      BY <1>3, <1>5, <2>1, <2>2 DEF Confirmed
  <2> QED
    BY <1>2, <2>3
<1> QED
  BY <1>2, <1>4, <1>5

LEMMA GateInvariantInit == Init => GateInvariant
<1> SUFFICES ASSUME Init PROVE GateInvariant
  OBVIOUS
<1>1. Confirmed(Nothing, remote, touched)
  BY DEF Confirmed, Nothing
<1>2. file = Nothing /\ \A c \in Process : command[c].data = Nothing
  BY DEF Init, IdleCommand
<1>3. \A l \in Lane : lane[l].at = "idle"
  BY DEF Init
<1> QED
  BY <1>1, <1>2, <1>3 DEF GateInvariant, GateMeansFork

LEMMA GateInvariantStep == TypeOK /\ GateInvariant /\ Next => GateInvariant'
BY CommandsStayConfirmed, FileStaysConfirmed, GateStep DEF GateInvariant

LEMMA GateInvariantStutter == GateInvariant /\ UNCHANGED vars => GateInvariant'
BY DEF GateInvariant, GateMeansFork, Confirmed, Readable, vars

\* What a checkout run may reconcile are forks of the right repositories, under the
\* names of its own plan, unless others have changed them: however many commands
\* load, overwrite and break the file the gate asks (managed_sync_checks).
THEOREM GateWasRight == Spec => []GateMeansFork
<1>1. GateInvariant => GateMeansFork
  BY DEF GateInvariant
<1> QED
  BY <1>1, TypeOKInit, TypeOKStep, TypeOKStutter, GateInvariantInit, GateInvariantStep,
     GateInvariantStutter, PTL DEF Spec
=============================================================================
