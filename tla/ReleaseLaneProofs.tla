------------------------- MODULE ReleaseLaneProofs -------------------------
(***************************************************************************)
(* Proofs about ReleaseLane for any number of starts, attempts and leases  *)
(* that run out: a candidate was verified, the lane decides what the build *)
(* result deserves, and it decides once.  And about the verifier: what     *)
(* bundles it accepts, of which evidence.                                  *)
(***************************************************************************)
EXTENDS ReleaseLane, TLAPS
LOCAL INSTANCE SequencesExt

Number == 1..MaxAttempts

-----------------------------------------------------------------------------
(* The shape of the state, and of a step.                                   *)

\* An attempt knows its agent and where it is.
AttemptShape(s, k) ==
  attempt[s][k] # Nil =>
    /\ DOMAIN attempt[s][k] = {"doing", "pc", "seen", "ref"}
    /\ \/ attempt[s][k].doing = s
       \/ s = "verifier" /\ attempt[s][k].doing = "rejection"
    /\ attempt[s][k].pc \in Nat \ {0}

ItemShape(s) ==
  /\ DOMAIN item[s] = {"at", "attempts", "payload"}
  /\ item[s].at \in {"none", "open", "done", "blocked", "rejected", "dead"}
  /\ item[s].attempts \in Nat

\* An agent works once the one before it is done, and its attempts are made one
\* after the other.
LaneShape ==
  /\ DOMAIN disk = LaneFile
  /\ DOMAIN item = Stage /\ \A s \in Stage : ItemShape(s)
  /\ DOMAIN attempt = Stage /\ \A s \in Stage : DOMAIN attempt[s] = Number
  /\ \A s \in Stage, k \in Number :
       /\ AttemptShape(s, k)
       /\ k > item[s].attempts => attempt[s][k] = Nil
  /\ \A s \in Stage : item[s].at = "none" => item[s].attempts = 0
  /\ \A s \in DOMAIN After : item[After[s]].at # "none" => item[s].at = "done"
  /\ config = Nil => \A s \in Stage : item[s].at = "none"
  /\ config # Nil => disk["index"] \in Input
  /\ DOMAIN starter = Starter
  /\ \A c \in Starter :
       /\ DOMAIN starter[c] = {"at", "input"}
       /\ starter[c].at = "idle" => starter[c].input = Nil
  /\ (\E c \in Starter : starter[c].at # "idle") => disk["index"] \in Input

\* An attempt gets on to its next operation.
Advances(s, k) ==
  LET a == attempt[s][k]
      b == attempt'[s][k]
      do == Now(s, k).do
      f == Now(s, k).on
  IN  /\ a # Nil /\ a.pc <= Len(Program[a.doing])
      /\ UNCHANGED <<starter, config, item, candidate, expiries>>
      /\ \A t \in Stage, j \in Number :
           t # s \/ j # k => attempt'[t][j] = attempt[t][j]
      /\ DOMAIN b = DOMAIN a /\ b.doing = a.doing /\ b.pc = a.pc + 1
      /\ do = "compare" => disk[f] = item[s].payload[f]
      /\ do \in {"gate", "require"} => Passes(f, a)
      /\ \A g \in LaneFile :
           disk'[g] = IF do = "write" /\ g = f THEN Written(f, a, k) ELSE disk[g]
      /\ LET recorded == /\ do = "write" /\ f = "availability"
                         /\ Written(f, a, k).status = "verified"
         IN  /\ recorded => verified' = verified \cup {Written(f, a, k).evidence}
             /\ ~recorded => verified' = verified
      /\ do = "read" => b.seen = With(a.seen, f, disk[f])
      /\ do = "write" => b.seen = With(a.seen, f, Written(f, a, k))
      /\ do = "require" /\ f = "release" =>
           b.seen = With(a.seen, "availability", Verification(a.seen["manifest"], k))
      /\ do \in {"compare", "digest", "gate"} => b.seen = a.seen
      /\ do = "require" /\ f # "release" => b.seen = a.seen
      /\ do = "digest" => b.ref = With(a.ref, f, disk[f])
      /\ do # "digest" => b.ref = a.ref

\* What the verifier makes of an exception.
Rejecting(k) ==
  [Fresh("rejection") EXCEPT !.seen = With(Nothing, "availability", Rejection(k))]

\* No attempt gets on, but attempts begin and end.
Rests ==
  /\ \A g \in LaneFile \ {"index"} : disk'[g] = disk[g]
  /\ verified' = verified
  /\ \A s \in Stage : item'[s].attempts >= item[s].attempts
  /\ \A s \in Stage, k \in Number :
       \/ attempt'[s][k] \in {Nil, attempt[s][k]}
       \/ attempt'[s][k] = Fresh(s) /\ k > item[s].attempts
       \/ s = "verifier" /\ k <= item[s].attempts /\ attempt'[s][k] = Rejecting(k)

\* No item is opened but the first.
Keeps ==
  \A s \in Stage \ {"build"} :
    /\ item'[s].payload = item[s].payload
    /\ item'[s].at = "none" <=> item[s].at = "none"

\* The event of an agent opens the item of the next.
Hands(s, k) ==
  LET a == attempt[s][k]
      payload == item'[After[s]].payload
  IN  /\ s \in DOMAIN After
      /\ a # Nil /\ a.doing = s /\ a.pc > Len(Program[s])
      /\ Current(s, k)
      /\ item[After[s]].at = "none" /\ item'[After[s]].at = "open"
      /\ DOMAIN payload = Outputs[s] \cup DOMAIN item[s].payload
      /\ \A f \in Outputs[s] : payload[f] = a.ref[f]
      /\ \A f \in DOMAIN item[s].payload \ Outputs[s] :
           payload[f] = item[s].payload[f]
      /\ \A t \in Stage \ {After[s]} :
           /\ item'[t].payload = item[t].payload
           /\ item'[t].at = "none" <=> item[t].at = "none"
      /\ UNCHANGED <<disk, candidate, config, starter>>

\* The candidate is named.
Names(k) ==
  /\ Done("governor", k) /\ item["governor"].at # "none"
  /\ candidate' = item["governor"].payload["manifest"]

-----------------------------------------------------------------------------
LEMMA ProgramLength ==
  /\ Len(Program["build"]) = 4 /\ Len(Program["trace"]) = 7
  /\ Len(Program["attestation"]) = 19 /\ Len(Program["verifier"]) = 13
  /\ Len(Program["rejection"]) = 2 /\ Len(Program["governor"]) = 13
BY DEF Program

LEMMA GoesIs ==
  ASSUME LaneShape, NEW s \in Stage, NEW k \in Number, NEW a,
         DOMAIN a = {"doing", "pc", "seen", "ref"}, Goes(s, k, a)
  PROVE  /\ DOMAIN attempt' = Stage /\ \A t \in Stage : DOMAIN attempt'[t] = Number
         /\ \A t \in Stage, j \in Number :
              t # s \/ j # k => attempt'[t][j] = attempt[t][j]
         /\ DOMAIN attempt'[s][k] = {"doing", "pc", "seen", "ref"}
         /\ attempt'[s][k].doing = a.doing /\ attempt'[s][k].pc = a.pc + 1
         /\ attempt'[s][k].seen = a.seen /\ attempt'[s][k].ref = a.ref
BY DEF Goes, LaneShape

LEMMA EndsIs ==
  ASSUME LaneShape, NEW s \in Stage, NEW k \in Number, Ends(s, k)
  PROVE  /\ DOMAIN attempt' = Stage /\ \A t \in Stage : DOMAIN attempt'[t] = Number
         /\ \A t \in Stage, j \in Number :
              attempt'[t][j] = IF t = s /\ j = k THEN Nil ELSE attempt[t][j]
BY DEF Ends, LaneShape

LEMMA AgainIs ==
  ASSUME LaneShape, NEW s \in Stage, NEW k \in Number, NEW left,
         Current(s, k), Again(s, k, left)
  PROVE  /\ DOMAIN attempt' = Stage /\ \A t \in Stage : DOMAIN attempt'[t] = Number
         /\ DOMAIN item' = Stage
         /\ \A t \in Stage \ {s} : item'[t] = item[t]
         /\ DOMAIN item'[s] = DOMAIN item[s]
         /\ item'[s].payload = item[s].payload
         /\ \A t \in Stage, j \in Number :
              t # s \/ j \notin {k, k + 1} => attempt'[t][j] = attempt[t][j]
         /\ attempt'[s][k] = left
         /\ \/ /\ item'[s].attempts = k + 1 /\ item'[s].at = "open"
               /\ k + 1 \in Number
               /\ attempt'[s][k + 1] = Fresh(s)
            \/ /\ item'[s].attempts = k /\ item'[s].at = "dead"
               /\ k + 1 \in Number => attempt'[s][k + 1] = attempt[s][k + 1]
<1>1. k \in Nat /\ k + 1 # k /\ item[s].attempts = k /\ item[s].at = "open"
  BY LaneAssumption DEF Number, Current
<1>2. CASE item[s].attempts < MaxAttempts
  <2>1. k + 1 \in Number
    BY <1>1, <1>2, LaneAssumption DEF Number
  <2>2. /\ item' = [item EXCEPT ![s].attempts = @ + 1]
        /\ attempt' = [attempt EXCEPT ![s][k] = left, ![s][k + 1] = Fresh(s)]
    BY <1>2 DEF Again
  <2> QED
    BY <1>1, <2>1, <2>2 DEF LaneShape, ItemShape
<1>3. CASE ~(item[s].attempts < MaxAttempts)
  <2>1. /\ item' = [item EXCEPT ![s].at = "dead"]
        /\ attempt' = [attempt EXCEPT ![s][k] = left]
    BY <1>3 DEF Again
  <2> QED
    BY <1>1, <2>1 DEF LaneShape, ItemShape
<1> QED
  BY <1>2, <1>3

LEMMA CloseIs ==
  ASSUME LaneShape, NEW s \in Stage, NEW k \in Number, NEW outcome,
         Close(s, k, outcome)
  PROVE  /\ DOMAIN item' = Stage
         /\ \A t \in Stage : /\ DOMAIN item'[t] = DOMAIN item[t]
                             /\ item'[t].payload = item[t].payload
                             /\ item'[t].attempts = item[t].attempts
         /\ \A t \in Stage \ {s} : item'[t] = item[t]
         /\ item'[s].at = IF Current(s, k) THEN outcome ELSE item[s].at
BY DEF Close, LaneShape, ItemShape

\* An exception ends an attempt, perhaps to the benefit of another one.
LEMMA RaisesIs ==
  ASSUME LaneShape, NEW s \in Stage, NEW k \in Number, Working(s, k), Raises(s, k)
  PROVE  /\ DOMAIN attempt' = Stage /\ \A t \in Stage : DOMAIN attempt'[t] = Number
         /\ DOMAIN item' = Stage
         /\ \A t \in Stage \ {s} : item'[t] = item[t]
         /\ DOMAIN item'[s] = DOMAIN item[s]
         /\ item'[s].payload = item[s].payload
         /\ item'[s].attempts \in Nat /\ item'[s].attempts >= item[s].attempts
         /\ \/ item'[s].at = item[s].at
            \/ item[s].at = "open" /\ item'[s].at = "dead"
         /\ \A t \in Stage, j \in Number :
              \/ attempt'[t][j] \in {Nil, attempt[t][j]}
              \/ /\ t = s /\ attempt'[t][j] = Fresh(t)
                 /\ j > item[t].attempts /\ j <= item'[t].attempts
              \/ /\ t = "verifier" /\ j <= item[t].attempts
                 /\ attempt'[t][j] = Rejecting(j)
<1>1. k \in Nat /\ item[s].attempts \in Nat /\ k <= item[s].attempts
  BY LaneAssumption DEF Number, Working, LaneShape, ItemShape
<1> DEFINE Slot(t, j) ==
      \/ attempt'[t][j] \in {Nil, attempt[t][j]}
      \/ /\ t = s /\ attempt'[t][j] = Fresh(t)
         /\ j > item[t].attempts /\ j <= item'[t].attempts
      \/ /\ t = "verifier" /\ j <= item[t].attempts
         /\ attempt'[t][j] = Rejecting(j)
<1>2. CASE s = "verifier"
  <2>1. attempt' = [attempt EXCEPT ![s][k] = Rejecting(k)] /\ item' = item
    BY <1>2 DEF Raises, Rejecting
  <2>2. /\ DOMAIN attempt' = Stage /\ \A t \in Stage : DOMAIN attempt'[t] = Number
        /\ DOMAIN item' = Stage
    BY <2>1 DEF LaneShape
  <2>3. ASSUME NEW t \in Stage, NEW j \in Number PROVE Slot(t, j)
    BY <1>1, <1>2, <2>1 DEF LaneShape
  <2> QED
    BY <1>1, <2>1, <2>2, <2>3
<1>3. CASE s # "verifier" /\ Current(s, k)
  <2>1. Again(s, k, Nil)
    BY <1>3 DEF Raises
  <2>2. item[s].attempts = k /\ item[s].at = "open"
    BY <1>3 DEF Current
  <2>3. ASSUME NEW t \in Stage, NEW j \in Number PROVE Slot(t, j)
    <3>1. CASE t # s \/ j \notin {k, k + 1}
      BY <1>3, <2>1, <3>1, AgainIs
    <3>2. CASE t = s /\ j = k
      BY <1>3, <2>1, <3>2, AgainIs
    <3>3. CASE t = s /\ j = k + 1
      BY <1>1, <1>3, <2>1, <2>2, <3>3, AgainIs
    <3> QED
      BY <3>1, <3>2, <3>3
  <2> HIDE DEF Slot
  <2>4. /\ DOMAIN attempt' = Stage /\ \A t \in Stage : DOMAIN attempt'[t] = Number
        /\ DOMAIN item' = Stage
        /\ \A t \in Stage \ {s} : item'[t] = item[t]
        /\ DOMAIN item'[s] = DOMAIN item[s]
        /\ item'[s].payload = item[s].payload
        /\ \/ item'[s].attempts = k + 1 /\ item'[s].at = "open"
           \/ item'[s].attempts = k /\ item'[s].at = "dead"
    BY <1>3, <2>1, AgainIs
  <2> QED
    BY <1>1, <2>2, <2>3, <2>4 DEF Slot
<1>4. CASE s # "verifier" /\ ~Current(s, k)
  <2>1. Ends(s, k) /\ item' = item
    BY <1>4 DEF Raises
  <2>2. ASSUME NEW t \in Stage, NEW j \in Number PROVE Slot(t, j)
    BY <2>1, EndsIs
  <2>3. /\ DOMAIN attempt' = Stage /\ \A t \in Stage : DOMAIN attempt'[t] = Number
    BY <2>1, EndsIs
  <2> QED
    BY <1>1, <2>1, <2>2, <2>3 DEF LaneShape
<1> QED
  BY <1>2, <1>3, <1>4

\* An operation that succeeds gets the attempt on, and one that fails leaves the
\* files alone.
LEMMA WorksIs ==
  ASSUME LaneShape, NEW s \in Stage, NEW k \in Number, Works(s, k)
  PROVE  \/ Advances(s, k)
         \/ /\ UNCHANGED <<starter, config, disk, verified, candidate, expiries>>
            /\ \/ /\ Now(s, k).do = "compare"
                  /\ disk[Now(s, k).on] # item[s].payload[Now(s, k).on]
                  /\ Raises(s, k)
               \/ /\ Now(s, k).do = "require" /\ ~Passes(Now(s, k).on, attempt[s][k])
                  /\ Raises(s, k)
               \/ /\ Now(s, k).do = "gate" /\ ~Passes(Now(s, k).on, attempt[s][k])
                  /\ Ends(s, k) /\ Close(s, k, "blocked")
<1> DEFINE a == attempt[s][k]
<1> DEFINE f == Now(s, k).on
<1>1. /\ a # Nil /\ DOMAIN a = {"doing", "pc", "seen", "ref"} /\ a.pc \in Nat
      /\ a.pc <= Len(Program[a.doing])
  <2>1. a # Nil /\ ~(a.pc > Len(Program[a.doing]))
    BY DEF Works, Working, Done
  <2>2. a.pc \in Nat /\ DOMAIN a = {"doing", "pc", "seen", "ref"}
    BY <2>1 DEF LaneShape, AttemptShape
  <2>3. a.doing \in Stage \cup {"rejection"}
    BY <2>1 DEF LaneShape, AttemptShape
  <2>4. Len(Program[a.doing]) \in Nat
    BY <2>3, ProgramLength DEF Stage
  <2> QED
    BY <2>1, <2>2, <2>4
<1> DEFINE b == attempt'[s][k]
<1> DEFINE Moved(x) ==
      /\ \A t \in Stage, j \in Number :
           t # s \/ j # k => attempt'[t][j] = attempt[t][j]
      /\ DOMAIN b = DOMAIN a /\ b.doing = a.doing /\ b.pc = a.pc + 1
      /\ b.seen = x.seen /\ b.ref = x.ref
<1>2. ASSUME NEW x, Goes(s, k, x), DOMAIN x = DOMAIN a, x.doing = a.doing, x.pc = a.pc
      PROVE  Moved(x)
  BY <1>1, <1>2, GoesIs
<1> HIDE DEF Moved
<1>3. CASE CheckDigest(s, k)
  <2>0. Now(s, k).do = "compare" /\ UNCHANGED <<starter, config, disk, verified, candidate, expiries>>
    BY <1>3 DEF CheckDigest
  <2>1. CASE disk[f] = item[s].payload[f]
    <3>1. Goes(s, k, a) /\ item' = item
      BY <1>3, <2>1 DEF CheckDigest
    <3>2. Moved(a)
      BY <1>2, <3>1
    <3> QED
      BY <1>1, <2>0, <2>1, <3>1, <3>2 DEF Moved, Advances
  <2> QED
    BY <1>3, <2>0, <2>1 DEF CheckDigest
<1>4. CASE Read(s, k)
  <2> DEFINE x == [a EXCEPT !.seen = With(@, f, disk[f])]
  <2>1. /\ Now(s, k).do = "read" /\ Goes(s, k, x)
        /\ UNCHANGED <<starter, config, disk, item, verified, candidate, expiries>>
    BY <1>4 DEF Read
  <2>2. Moved(x) /\ x.seen = With(a.seen, f, disk[f]) /\ x.ref = a.ref
    BY <1>1, <1>2, <2>1
  <2> HIDE DEF x
  <2> QED
    BY <1>1, <2>1, <2>2 DEF Moved, Advances
<1>5. CASE Digest(s, k)
  <2> DEFINE x == [a EXCEPT !.ref = With(@, f, disk[f])]
  <2>1. /\ Now(s, k).do = "digest" /\ Goes(s, k, x)
        /\ UNCHANGED <<starter, config, disk, item, verified, candidate, expiries>>
    BY <1>5 DEF Digest
  <2>2. Moved(x) /\ x.ref = With(a.ref, f, disk[f]) /\ x.seen = a.seen
    BY <1>1, <1>2, <2>1
  <2> HIDE DEF x
  <2> QED
    BY <1>1, <2>1, <2>2 DEF Moved, Advances
<1>6. CASE Write(s, k)
  <2> DEFINE content == Written(f, a, k)
  <2> DEFINE x == [a EXCEPT !.seen = With(@, f, content)]
  <2>1. /\ Now(s, k).do = "write" /\ Goes(s, k, x)
        /\ disk' = [disk EXCEPT ![f] = content]
        /\ UNCHANGED <<starter, config, item, candidate, expiries>>
        /\ verified' = IF f = "availability" /\ content.status = "verified"
                       THEN verified \cup {content.evidence} ELSE verified
    BY <1>6 DEF Write
  <2>2. \A g \in LaneFile : disk'[g] = IF g = f THEN content ELSE disk[g]
    BY <2>1 DEF LaneShape
  <2>3. Moved(x) /\ x.seen = With(a.seen, f, content) /\ x.ref = a.ref
    BY <1>1, <1>2, <2>1
  <2> HIDE DEF x
  <2> QED
    BY <1>1, <2>1, <2>2, <2>3 DEF Moved, Advances
<1>7. CASE Decide(s, k)
  <2>0. /\ Now(s, k).do = "gate"
        /\ UNCHANGED <<starter, config, disk, verified, candidate, expiries>>
    BY <1>7 DEF Decide
  <2>1. CASE Passes(f, a)
    <3>1. Goes(s, k, a) /\ item' = item
      BY <1>7, <2>1 DEF Decide
    <3>2. Moved(a)
      BY <1>2, <3>1
    <3> QED
      BY <1>1, <2>0, <2>1, <3>1, <3>2 DEF Moved, Advances
  <2> QED
    BY <1>7, <2>0, <2>1 DEF Decide
<1>8. CASE Require(s, k)
  <2> DEFINE x ==
        IF f = "release"
        THEN [a EXCEPT !.seen =
                With(@, "availability", Verification(@["manifest"], k))]
        ELSE a
  <2>0. /\ Now(s, k).do = "require"
        /\ UNCHANGED <<starter, config, disk, verified, candidate, expiries>>
    BY <1>8 DEF Require
  <2>1. CASE Passes(f, a)
    <3>1. Goes(s, k, x) /\ item' = item
      BY <1>8, <2>1 DEF Require
    <3>2. /\ DOMAIN x = DOMAIN a
          /\ x.doing = a.doing /\ x.pc = a.pc /\ x.ref = a.ref
          /\ x.seen = IF f = "release"
                      THEN With(a.seen, "availability",
                                Verification(a.seen["manifest"], k))
                      ELSE a.seen
      BY <1>1
    <3> HIDE DEF x
    <3>3. Moved(x)
      BY <1>2, <3>1, <3>2
    <3> QED
      BY <1>1, <2>0, <2>1, <3>1, <3>2, <3>3 DEF Moved, Advances
  <2> QED
    BY <1>8, <2>0, <2>1 DEF Require
<1> QED
  BY <1>3, <1>4, <1>5, <1>6, <1>7, <1>8 DEF Works

\* The bounds of what an attempt of an agent without a successor hands over.
LEMMA StageAfter ==
  /\ DOMAIN After = Stage \ {"governor"}
  /\ \A s \in DOMAIN After : After[s] \in Stage \ {"build"} /\ After[s] # s
  /\ \A s, t \in DOMAIN After : After[s] = After[t] => s = t
  /\ DOMAIN Outputs = DOMAIN After
BY DEF After, Stage, Outputs

LEMMA SucceedIs ==
  ASSUME LaneShape, NEW s \in Stage, NEW k \in Number, Succeed(s, k)
  PROVE  /\ s \in DOMAIN After
         /\ UNCHANGED <<starter, config, disk, verified, candidate, expiries>>
         /\ DOMAIN attempt' = Stage /\ \A t \in Stage : DOMAIN attempt'[t] = Number
         /\ DOMAIN item' = Stage
         /\ \/ ~Current(s, k) /\ Ends(s, k) /\ item' = item
            \/ /\ Hands(s, k)
               /\ \A t \in Stage \ {s, After[s]} : item'[t] = item[t]
               /\ DOMAIN item'[s] = DOMAIN item[s] /\ item'[s].at = "done"
               /\ item'[s].attempts = item[s].attempts
               /\ item'[s].payload = item[s].payload
               /\ DOMAIN item'[After[s]] = {"at", "attempts", "payload"}
               /\ item'[After[s]].at = "open" /\ item'[After[s]].attempts = 1
               /\ item[After[s]].attempts = 0
               /\ \A t \in Stage, j \in Number :
                    attempt'[t][j] = IF t = s /\ j = k THEN Nil
                                     ELSE IF t = After[s] /\ j = 1 THEN Fresh(t)
                                     ELSE attempt[t][j]
<1> DEFINE n == After[s]
<1> DEFINE ref == attempt[s][k].ref
<1> DEFINE payload ==
      [f \in Outputs[s] \cup DOMAIN item[s].payload |->
         IF f \in Outputs[s] THEN ref[f] ELSE item[s].payload[f]]
<1>1. /\ s \in DOMAIN After /\ n \in Stage /\ n # s
      /\ attempt[s][k] # Nil /\ attempt[s][k].doing = s
      /\ attempt[s][k].pc > Len(Program[s])
      /\ UNCHANGED <<starter, config, disk, verified, candidate, expiries>>
  BY StageAfter DEF Succeed, Done, Working
<1>2. 1 \in Number
  BY LaneAssumption DEF Number
<1>3. CASE ~Current(s, k)
  <2>1. Ends(s, k) /\ item' = item
    BY <1>3 DEF Succeed
  <2> QED
    BY <1>1, <1>3, <2>1, EndsIs DEF LaneShape
<1>4. CASE Current(s, k)
  <2>1. /\ item' = [item EXCEPT ![s].at = "done", ![n] = Opened(n, payload)]
        /\ attempt' = [attempt EXCEPT ![s][k] = Nil, ![n][1] = Fresh(n)]
    BY <1>4 DEF Succeed
  <2>2. item[s].at = "open"
    BY <1>4 DEF Current
  <2>3. item[n].at = "none" /\ item[n].attempts = 0
    BY <1>1, <2>2 DEF LaneShape
  <2>4. /\ DOMAIN attempt' = Stage
        /\ \A t \in Stage : DOMAIN attempt'[t] = Number
        /\ \A t \in Stage, j \in Number :
             attempt'[t][j] = IF t = s /\ j = k THEN Nil
                              ELSE IF t = n /\ j = 1 THEN Fresh(t)
                              ELSE attempt[t][j]
    BY <1>1, <1>2, <2>1 DEF LaneShape
  <2> HIDE DEF payload
  <2>5. /\ DOMAIN item' = Stage
        /\ \A t \in Stage \ {s, n} : item'[t] = item[t]
        /\ item'[n] = [at |-> "open", attempts |-> 1, payload |-> payload]
        /\ DOMAIN item'[s] = DOMAIN item[s] /\ item'[s].at = "done"
        /\ item'[s].attempts = item[s].attempts
        /\ item'[s].payload = item[s].payload
    BY <1>1, <2>1 DEF LaneShape, ItemShape, Opened
  <2>6. /\ DOMAIN item'[n].payload = Outputs[s] \cup DOMAIN item[s].payload
        /\ \A f \in Outputs[s] : item'[n].payload[f] = ref[f]
        /\ \A f \in DOMAIN item[s].payload \ Outputs[s] :
             item'[n].payload[f] = item[s].payload[f]
    BY <2>5 DEF payload
  <2>7. Hands(s, k)
    <3>1. \A t \in Stage \ {n} :
            /\ item'[t].payload = item[t].payload
            /\ item'[t].at = "none" <=> item[t].at = "none"
      BY <2>2, <2>5
    <3> QED
      BY <1>1, <1>4, <2>3, <2>5, <2>6, <3>1 DEF Hands
  <2> QED
    BY <1>1, <2>3, <2>4, <2>5, <2>7
<1> QED
  BY <1>3, <1>4

\* Every step is one of four kinds.
LEMMA StepIs ==
  ASSUME LaneShape, LaneNext
  PROVE  \/ \E s \in Stage, k \in Number : Advances(s, k)
         \/ /\ Rests
            /\ \E s \in Stage, k \in Number : Hands(s, k)
         \/ /\ Rests /\ Keeps /\ UNCHANGED <<starter, config, disk>>
            /\ item'["build"].at = "none" <=> item["build"].at = "none"
            /\ candidate' = candidate \/ \E k \in Number : Names(k)
         \/ /\ Rests /\ Keeps /\ candidate' = candidate
            /\ \E c \in Starter : Pin(c) \/ \E i \in Input : Prepare(c, i)
<1> DEFINE Goal ==
         \/ \E s \in Stage, k \in Number : Advances(s, k)
         \/ /\ Rests
            /\ \E s \in Stage, k \in Number : Hands(s, k)
         \/ /\ Rests /\ Keeps /\ UNCHANGED <<starter, config, disk>>
            /\ item'["build"].at = "none" <=> item["build"].at = "none"
            /\ candidate' = candidate \/ \E k \in Number : Names(k)
         \/ /\ Rests /\ Keeps /\ candidate' = candidate
            /\ \E c \in Starter : Pin(c) \/ \E i \in Input : Prepare(c, i)
<1> SUFFICES Goal
  OBVIOUS
<1>0. /\ Number \subseteq Nat
      /\ \A s \in Stage : item[s].attempts \in Nat
      /\ \A s \in Stage, k \in Number :
           attempt[s][k] # Nil => k <= item[s].attempts
  BY LaneAssumption DEF Number, LaneShape, ItemShape
<1>1. ASSUME NEW c \in Starter, Pin(c) PROVE Goal
  <2>1. CASE config = Nil
    <3>1. /\ item' = [item EXCEPT
               !["build"] = Opened("build", With(Nothing, "index", disk["index"]))]
          /\ attempt' = [attempt EXCEPT !["build"][1] = Fresh("build")]
          /\ UNCHANGED <<disk, verified, candidate, expiries>>
      BY <1>1, <2>1 DEF Pin
    <3>2. item["build"].attempts = 0 /\ 1 \in Number
      BY <2>1, LaneAssumption DEF LaneShape, Stage, Number
    <3>3. item'["build"].attempts = 1 /\ \A s \in Stage \ {"build"} : item'[s] = item[s]
      BY <3>1 DEF LaneShape, Stage, Opened
    <3>4. \A s \in Stage, k \in Number :
            attempt'[s][k] = IF s = "build" /\ k = 1 THEN Fresh(s) ELSE attempt[s][k]
      BY <3>1, <3>2 DEF LaneShape, Stage
    <3> QED
      BY <1>0, <1>1, <3>1, <3>2, <3>3, <3>4 DEF Rests, Keeps
  <2>2. CASE config # Nil
    <3>1. UNCHANGED <<item, attempt, disk, verified, candidate>>
      BY <1>1, <2>2 DEF Pin
    <3> QED
      BY <1>0, <1>1, <3>1 DEF Rests, Keeps
  <2> QED
    BY <2>1, <2>2
<1>2. ASSUME NEW c \in Starter, NEW i \in Input, Prepare(c, i) PROVE Goal
  <2>1. /\ UNCHANGED <<item, attempt, verified, candidate>>
        /\ \A g \in LaneFile \ {"index"} : disk'[g] = disk[g]
    BY <1>2 DEF Prepare, LaneShape
  <2> QED
    BY <1>0, <1>2, <2>1 DEF Rests, Keeps
<1>3. ASSUME NEW s \in Stage, NEW k \in Number, Works(s, k) PROVE Goal
  <2> SUFFICES ASSUME ~Advances(s, k) PROVE Goal
    OBVIOUS
  <2>1. UNCHANGED <<starter, config, disk, verified, candidate, expiries>>
    BY <1>3, WorksIs
  <2>2. CASE Raises(s, k)
    <3>1. Rests /\ Keeps /\ (item'["build"].at = "none" <=> item["build"].at = "none")
      BY <1>0, <1>3, <2>1, <2>2, RaisesIs DEF Works, Rests, Keeps, Stage
    <3> QED
      BY <2>1, <3>1
  <2>3. CASE Ends(s, k) /\ Close(s, k, "blocked")
    <3>1. Rests
      BY <1>0, <2>1, <2>3, EndsIs, CloseIs DEF Rests
    <3>2. \A t \in Stage : /\ item'[t].at = "none" <=> item[t].at = "none"
                           /\ item'[t].payload = item[t].payload
      BY <2>3, CloseIs DEF Current
    <3> QED
      BY <2>1, <3>1, <3>2 DEF Keeps, Stage
  <2> QED
    BY <1>3, <2>2, <2>3, WorksIs
<1>4. ASSUME NEW s \in Stage, NEW k \in Number, Succeed(s, k) PROVE Goal
  <2>1. UNCHANGED <<starter, config, disk, verified, candidate>>
    BY <1>4, SucceedIs
  <2>2. CASE ~Current(s, k) /\ Ends(s, k) /\ item' = item
    BY <1>0, <2>1, <2>2, EndsIs DEF Rests, Keeps
  <2>3. CASE Hands(s, k)
    <3>1. Rests
      <4>1. /\ \A t \in Stage : item'[t].attempts >= item[t].attempts
            /\ \A t \in Stage, j \in Number :
                 \/ attempt'[t][j] \in {Nil, attempt[t][j]}
                 \/ attempt'[t][j] = Fresh(t) /\ j > item[t].attempts
        BY <1>0, <1>4, <2>3, SucceedIs DEF Hands
      <4> QED
        BY <2>1, <4>1 DEF Rests
    <3> QED
      BY <2>3, <3>1
  <2> QED
    BY <1>4, <2>2, <2>3, SucceedIs
<1>5. ASSUME NEW s \in Stage, NEW k \in Number, Expire(s, k) PROVE Goal
  <2>1. /\ Current(s, k) /\ Again(s, k, attempt[s][k])
        /\ UNCHANGED <<starter, config, disk, verified, candidate>>
    BY <1>5 DEF Expire
  <2>2. item[s].attempts = k /\ item[s].at = "open"
    BY <2>1 DEF Current
  <2>3. Rests
    BY <1>0, <2>1, <2>2, AgainIs DEF Rests
  <2>4. \A t \in Stage : /\ item'[t].at = "none" <=> item[t].at = "none"
                         /\ item'[t].payload = item[t].payload
    BY <2>1, <2>2, AgainIs
  <2> QED
    BY <2>1, <2>3, <2>4 DEF Keeps, Stage
<1>6. ASSUME NEW k \in Number, Reject(k) PROVE Goal
  <2>1. /\ Ends("verifier", k) /\ Close("verifier", k, "rejected")
        /\ UNCHANGED <<starter, config, disk, verified, candidate>>
    BY <1>6 DEF Reject
  <2>2. Rests
    BY <1>0, <2>1, EndsIs, CloseIs DEF Rests, Stage
  <2>3. \A t \in Stage : /\ item'[t].at = "none" <=> item[t].at = "none"
                         /\ item'[t].payload = item[t].payload
    BY <2>1, CloseIs DEF Current, Stage
  <2> QED
    BY <2>1, <2>2, <2>3 DEF Keeps, Stage
<1>7. ASSUME NEW k \in Number, Announce(k) PROVE Goal
  <2>1. /\ Ends("governor", k) /\ Close("governor", k, "done")
        /\ UNCHANGED <<starter, config, disk, verified>>
        /\ \/ candidate' = candidate
           \/ /\ Done("governor", k) /\ Current("governor", k)
              /\ candidate' = item["governor"].payload["manifest"]
    BY <1>7 DEF Announce
  <2>2. Rests
    BY <1>0, <2>1, EndsIs, CloseIs DEF Rests, Stage
  <2>3. \A t \in Stage : /\ item'[t].at = "none" <=> item[t].at = "none"
                         /\ item'[t].payload = item[t].payload
    BY <2>1, CloseIs DEF Current, Stage
  <2>4. candidate' = candidate \/ Names(k)
    BY <2>1 DEF Names, Current
  <2> QED
    BY <2>1, <2>2, <2>3, <2>4 DEF Keeps, Stage
<1> QED
  BY <1>1, <1>2, <1>3, <1>4, <1>5, <1>6, <1>7 DEF LaneNext, Number

\* What a step does to an attempt and to an item keeps their shape.
LEMMA FreshShape ==
  ASSUME NEW s \in Stage, NEW k \in Number
  PROVE  /\ DOMAIN Fresh(s) = {"doing", "pc", "seen", "ref"}
         /\ Fresh(s).doing = s /\ Fresh(s).pc = 1
         /\ Fresh(s).seen = Nothing /\ Fresh(s).ref = Nothing
         /\ DOMAIN Rejecting(k) = {"doing", "pc", "seen", "ref"}
         /\ Rejecting(k).doing = "rejection" /\ Rejecting(k).pc = 1
         /\ Rejecting(k).seen = With(Nothing, "availability", Rejection(k))
BY DEF Fresh, Rejecting

LEMMA AttemptsKeepShape ==
  ASSUME LaneShape, LaneNext, NEW s \in Stage, NEW k \in Number
  PROVE  AttemptShape(s, k)'
<1> USE FreshShape
<1>1. AttemptShape(s, k)
  BY DEF LaneShape
<1>2. CASE Rests
  BY <1>1, <1>2 DEF Rests, AttemptShape
<1>3. ASSUME NEW t \in Stage, NEW j \in Number, Advances(t, j)
      PROVE  AttemptShape(s, k)'
  <2>1. AttemptShape(t, j)
    BY DEF LaneShape
  <2> QED
    BY <1>1, <1>3, <2>1 DEF Advances, AttemptShape
<1> QED
  BY <1>2, <1>3, StepIs

LEMMA ItemsKeepShape ==
  ASSUME LaneShape, LaneNext
  PROVE  /\ DOMAIN item' = Stage /\ \A s \in Stage : ItemShape(s)'
         /\ DOMAIN attempt' = Stage /\ \A s \in Stage : DOMAIN attempt'[s] = Number
         /\ \A s \in Stage, k \in Number :
              k > item'[s].attempts => attempt'[s][k] = Nil
         /\ \A s \in Stage : item'[s].at = "none" => item'[s].attempts = 0
         /\ \A s \in DOMAIN After : item'[After[s]].at # "none" => item'[s].at = "done"
<1> DEFINE Goal ==
         /\ DOMAIN item' = Stage /\ \A s \in Stage : ItemShape(s)'
         /\ DOMAIN attempt' = Stage /\ \A s \in Stage : DOMAIN attempt'[s] = Number
         /\ \A s \in Stage, k \in Number :
              k > item'[s].attempts => attempt'[s][k] = Nil
         /\ \A s \in Stage : item'[s].at = "none" => item'[s].attempts = 0
         /\ \A s \in DOMAIN After : item'[After[s]].at # "none" => item'[s].at = "done"
<1> SUFFICES Goal
  OBVIOUS
<1>0. /\ Number \subseteq Nat
      /\ \A s \in Stage : item[s].attempts \in Nat
      /\ \A s \in Stage, k \in Number :
           attempt[s][k] # Nil => k <= item[s].attempts
      /\ \A s \in DOMAIN After : s \in Stage /\ After[s] \in Stage
  BY LaneAssumption, StageAfter DEF Number, LaneShape, ItemShape
<1> DEFINE Held ==
      /\ DOMAIN attempt' = Stage /\ \A s \in Stage : DOMAIN attempt'[s] = Number
      /\ DOMAIN item' = Stage
      /\ \A t \in Stage, j \in Number :
           \/ attempt'[t][j] \in {Nil, attempt[t][j]}
           \/ j <= item'[t].attempts
      /\ \A t \in Stage :
           /\ DOMAIN item'[t] = DOMAIN item[t]
           /\ item'[t].attempts \in Nat /\ item'[t].attempts >= item[t].attempts
           /\ \/ item'[t].at = item[t].at /\ item'[t].attempts = item[t].attempts
              \/ item[t].at = "open" /\ item'[t].at \in {"open", "done", "blocked", "rejected", "dead"}
\* Nothing is opened.
<1>1. Held => Goal
  <2> SUFFICES ASSUME Held PROVE Goal
    OBVIOUS
  <2>1. \A s \in Stage : ItemShape(s)' /\ (item'[s].at = "none" => item'[s].attempts = 0)
    BY DEF LaneShape, ItemShape
  <2>2. ASSUME NEW s \in Stage, NEW k \in Number, k > item'[s].attempts
        PROVE  attempt'[s][k] = Nil
    <3>1. k \in Nat /\ item[s].attempts \in Nat /\ item'[s].attempts \in Nat
          /\ item'[s].attempts >= item[s].attempts
      BY <1>0
    <3>2. attempt'[s][k] \in {Nil, attempt[s][k]}
      BY <2>2, <3>1
    <3>3. attempt[s][k] = Nil
      BY <1>0, <2>2, <3>1
    <3> QED
      BY <3>2, <3>3
  <2>3. ASSUME NEW s \in DOMAIN After, item'[After[s]].at # "none" PROVE item'[s].at = "done"
    <3>1. s \in Stage /\ After[s] \in Stage
      BY <1>0
    <3>2. item[After[s]].at # "none"
      BY <2>3, <3>1
    <3>3. item[s].at = "done"
      BY <3>2 DEF LaneShape
    <3> QED
      BY <3>1, <3>3
  <2> QED
    BY <2>1, <2>2, <2>3
<1> HIDE DEF Goal, Held
<1>2. ASSUME NEW c \in Starter, Pin(c) PROVE Goal
  <2>1. CASE config = Nil
    <3> DEFINE payload == With(Nothing, "index", disk["index"])
    <3>1. /\ item' = [item EXCEPT !["build"] = Opened("build", payload)]
          /\ attempt' = [attempt EXCEPT !["build"][1] = Fresh("build")]
      BY <1>2, <2>1 DEF Pin
    <3> HIDE DEF payload
    <3>2. /\ 1 \in Number
          /\ \A s \in Stage : item[s].at = "none" /\ item[s].attempts = 0
      BY <2>1, LaneAssumption DEF LaneShape, Stage, Number
    <3>3. /\ DOMAIN item' = Stage /\ \A s \in Stage \ {"build"} : item'[s] = item[s]
          /\ item'["build"] = [at |-> "open", attempts |-> 1, payload |-> payload]
      BY <3>1 DEF LaneShape, Stage, Opened
    <3>4. /\ DOMAIN attempt' = Stage /\ \A s \in Stage : DOMAIN attempt'[s] = Number
          /\ \A s \in Stage, k \in Number :
               attempt'[s][k] = IF s = "build" /\ k = 1 THEN Fresh(s) ELSE attempt[s][k]
      BY <3>1, <3>2 DEF LaneShape, Stage
    <3>5. \A s \in Stage : ItemShape(s)' /\ (item'[s].at = "none" => item'[s].attempts = 0)
      BY <3>2, <3>3 DEF LaneShape, ItemShape
    <3>6. \A s \in Stage, k \in Number : k > item'[s].attempts => attempt'[s][k] = Nil
      BY <1>0, <3>2, <3>3, <3>4 DEF LaneShape
    <3>7. \A s \in DOMAIN After : item'[After[s]].at = "none"
      BY <3>2, <3>3, StageAfter
    <3> QED
      BY <3>3, <3>4, <3>5, <3>6, <3>7 DEF Goal
  <2>2. CASE config # Nil
    <3>1. UNCHANGED <<item, attempt>>
      BY <1>2, <2>2 DEF Pin
    <3> QED
      BY <1>0, <1>1, <3>1 DEF LaneShape, Held
  <2> QED
    BY <2>1, <2>2
<1>3. ASSUME NEW c \in Starter, NEW i \in Input, Prepare(c, i) PROVE Goal
  <2>1. UNCHANGED <<item, attempt>>
    BY <1>3 DEF Prepare
  <2> QED
    BY <1>0, <1>1, <2>1 DEF LaneShape, Held
<1>4. ASSUME NEW s \in Stage, NEW k \in Number, Works(s, k) PROVE Goal
  <2>1. CASE Advances(s, k)
    <3>1. item' = item
      BY <2>1 DEF Advances
    <3>2. DOMAIN attempt' = Stage /\ \A t \in Stage : DOMAIN attempt'[t] = Number
      BY <1>4 DEF Works, CheckDigest, Read, Digest, Write, Decide, Require, Goes, Ends,
                 Raises, Again, LaneShape
    <3>3. \A t \in Stage, j \in Number :
            attempt'[t][j] \in {Nil, attempt[t][j]} \/ j <= item'[t].attempts
      BY <1>0, <2>1, <3>1 DEF Advances
    <3> QED
      BY <1>0, <1>1, <3>1, <3>2, <3>3 DEF LaneShape, Held
  <2>2. CASE Raises(s, k)
    <3>1. Working(s, k)
      BY <1>4 DEF Works
    <3>2. /\ DOMAIN attempt' = Stage /\ \A t \in Stage : DOMAIN attempt'[t] = Number
          /\ DOMAIN item' = Stage
          /\ \A t \in Stage \ {s} : item'[t] = item[t]
          /\ DOMAIN item'[s] = DOMAIN item[s]
          /\ item'[s].attempts \in Nat /\ item'[s].attempts >= item[s].attempts
      BY <2>2, <3>1, RaisesIs
    <3>3. \A t \in Stage, j \in Number :
            attempt'[t][j] \in {Nil, attempt[t][j]} \/ j <= item'[t].attempts
      <4>1. TAKE t \in Stage, j \in Number
      <4>2. j \in Nat /\ item[t].attempts \in Nat /\ item'[t].attempts \in Nat
            /\ item'[t].attempts >= item[t].attempts
        BY <1>0, <3>2
      <4> QED
        BY <2>2, <3>1, <4>2, RaisesIs
    <3>4. \/ item'[s].at = item[s].at /\ item'[s].attempts = item[s].attempts
          \/ item[s].at = "open" /\ item'[s].at \in {"open", "dead"}
      <4>1. CASE s = "verifier"
        BY <2>2, <4>1 DEF Raises
      <4>2. CASE s # "verifier" /\ Current(s, k)
        BY <2>2, <4>2, AgainIs DEF Raises, Current
      <4> QED
        BY <2>2, <4>1, <4>2 DEF Raises
    <3>5. Held
      <4>1. ASSUME NEW t \in Stage
            PROVE  /\ DOMAIN item'[t] = DOMAIN item[t]
                   /\ item'[t].attempts \in Nat /\ item'[t].attempts >= item[t].attempts
                   /\ \/ item'[t].at = item[t].at /\ item'[t].attempts = item[t].attempts
                      \/ item[t].at = "open" /\ item'[t].at \in {"open", "done", "blocked", "rejected", "dead"}
        <5>1. CASE t = s
          BY <3>2, <3>4, <5>1
        <5>2. CASE t # s
          BY <1>0, <3>2, <5>2
        <5> QED
          BY <5>1, <5>2
      <4> QED
        BY <3>2, <3>3, <4>1 DEF Held
    <3> QED
      BY <1>1, <3>5
  <2>3. CASE Ends(s, k) /\ Close(s, k, "blocked")
    <3>1. Held
      BY <1>0, <2>3, EndsIs, CloseIs DEF Held, Current
    <3> QED
      BY <1>1, <3>1
  <2> QED
    BY <1>4, <2>1, <2>2, <2>3, WorksIs
<1>5. ASSUME NEW s \in Stage, NEW k \in Number, Succeed(s, k) PROVE Goal
  <2>1. CASE ~Current(s, k) /\ Ends(s, k) /\ item' = item
    <3>1. Held
      BY <1>0, <2>1, EndsIs DEF Held, LaneShape
    <3> QED
      BY <1>1, <3>1
  <2>2. CASE Hands(s, k)
    <3> DEFINE n == After[s]
    <3>1. /\ s \in DOMAIN After /\ n \in Stage /\ n # s
          /\ item[s].at = "open" /\ item[n].at = "none"
      BY <2>2, StageAfter DEF Hands, Current
    <3>2. /\ DOMAIN attempt' = Stage /\ \A t \in Stage : DOMAIN attempt'[t] = Number
          /\ DOMAIN item' = Stage
          /\ \A t \in Stage \ {s, n} : item'[t] = item[t]
          /\ DOMAIN item'[s] = DOMAIN item[s] /\ item'[s].at = "done"
          /\ item'[s].attempts = item[s].attempts
          /\ DOMAIN item'[n] = {"at", "attempts", "payload"}
          /\ item'[n].at = "open" /\ item'[n].attempts = 1 /\ item[n].attempts = 0
          /\ \A t \in Stage, j \in Number :
               attempt'[t][j] = IF t = s /\ j = k THEN Nil
                                ELSE IF t = n /\ j = 1 THEN Fresh(t)
                                ELSE attempt[t][j]
      <4>1. Current(s, k)
        BY <2>2 DEF Hands
      <4>2. /\ DOMAIN attempt' = Stage
            /\ \A t \in Stage : DOMAIN attempt'[t] = Number
            /\ DOMAIN item' = Stage
        BY <1>5, SucceedIs
      <4>3. /\ \A t \in Stage \ {s, After[s]} : item'[t] = item[t]
            /\ DOMAIN item'[s] = DOMAIN item[s] /\ item'[s].at = "done"
            /\ item'[s].attempts = item[s].attempts
            /\ DOMAIN item'[After[s]] = {"at", "attempts", "payload"}
        BY <1>5, <4>1, SucceedIs
      <4>4. /\ item'[After[s]].at = "open" /\ item'[After[s]].attempts = 1
            /\ item[After[s]].attempts = 0
            /\ \A t \in Stage, j \in Number :
                 attempt'[t][j] = IF t = s /\ j = k THEN Nil
                                  ELSE IF t = After[s] /\ j = 1 THEN Fresh(t)
                                  ELSE attempt[t][j]
        BY <1>5, <4>1, SucceedIs
      <4> QED
        BY <4>2, <4>3, <4>4
    <3>3. \A t \in Stage : ItemShape(t)' /\ (item'[t].at = "none" => item'[t].attempts = 0)
      BY <3>1, <3>2 DEF LaneShape, ItemShape
    <3>4. \A t \in Stage, j \in Number : j > item'[t].attempts => attempt'[t][j] = Nil
      BY <1>0, <3>1, <3>2 DEF LaneShape
    <3>5. ASSUME NEW t \in DOMAIN After, item'[After[t]].at # "none" PROVE item'[t].at = "done"
      <4>1. t \in Stage /\ After[t] \in Stage
        BY <1>0
      <4>2. CASE t = s
        BY <3>2, <4>2
      <4>3. CASE t # s
        <5>1. After[t] # n
          BY <3>1, <4>3, StageAfter
        <5>2. item[After[t]].at # "none"
          BY <3>1, <3>2, <3>5, <4>1, <5>1
        <5>3. item[t].at = "done"
          BY <5>2 DEF LaneShape
        <5> QED
          BY <3>1, <3>2, <4>1, <4>3, <5>3
      <4> QED
        BY <4>2, <4>3
    <3> QED
      BY <3>2, <3>3, <3>4, <3>5 DEF Goal
  <2> QED
    BY <1>5, <2>1, <2>2, SucceedIs
<1>6. ASSUME NEW s \in Stage, NEW k \in Number, Expire(s, k) PROVE Goal
  <2>1. Current(s, k) /\ Again(s, k, attempt[s][k])
    BY <1>6 DEF Expire
  <2>2. item[s].attempts = k /\ item[s].at = "open"
    BY <2>1 DEF Current
  <2>3. Held
    BY <1>0, <2>1, <2>2, AgainIs DEF Held
  <2> QED
    BY <1>1, <2>3
<1>7. ASSUME NEW k \in Number, Reject(k) PROVE Goal
  <2>1. Ends("verifier", k) /\ Close("verifier", k, "rejected")
    BY <1>7 DEF Reject
  <2>2. Held
    <3>1. /\ DOMAIN attempt' = Stage /\ \A t \in Stage : DOMAIN attempt'[t] = Number
          /\ \A t \in Stage, j \in Number : attempt'[t][j] \in {Nil, attempt[t][j]}
      BY <2>1, EndsIs DEF Stage
    <3>2. /\ DOMAIN item' = Stage
          /\ \A t \in Stage :
               /\ DOMAIN item'[t] = DOMAIN item[t]
               /\ item'[t].attempts = item[t].attempts
               /\ \/ item'[t].at = item[t].at
                  \/ item[t].at = "open" /\ item'[t].at \in {"done", "rejected"}
      BY <2>1, CloseIs DEF Current, Stage
    <3> QED
      BY <1>0, <3>1, <3>2 DEF Held
  <2> QED
    BY <1>1, <2>2
<1>8. ASSUME NEW k \in Number, Announce(k) PROVE Goal
  <2>1. Ends("governor", k) /\ Close("governor", k, "done")
    BY <1>8 DEF Announce
  <2>2. Held
    <3>1. /\ DOMAIN attempt' = Stage /\ \A t \in Stage : DOMAIN attempt'[t] = Number
          /\ \A t \in Stage, j \in Number : attempt'[t][j] \in {Nil, attempt[t][j]}
      BY <2>1, EndsIs DEF Stage
    <3>2. /\ DOMAIN item' = Stage
          /\ \A t \in Stage :
               /\ DOMAIN item'[t] = DOMAIN item[t]
               /\ item'[t].attempts = item[t].attempts
               /\ \/ item'[t].at = item[t].at
                  \/ item[t].at = "open" /\ item'[t].at \in {"done", "rejected"}
      BY <2>1, CloseIs DEF Current, Stage
    <3> QED
      BY <1>0, <3>1, <3>2 DEF Held
  <2> QED
    BY <1>1, <2>2
<1> QED
  BY <1>2, <1>3, <1>4, <1>5, <1>6, <1>7, <1>8 DEF LaneNext, Number

-----------------------------------------------------------------------------
(* The programs, operation by operation.                                    *)

LEMMA BuildOps ==
  LET P == Program["build"]
  IN  /\ Len(P) = 4
      /\ P[1] = Op("compare", "index") /\ P[2] = Op("read", "index")
      /\ P[3] = Op("gate", "intake") /\ P[4] = Op("digest", "index")
BY DEF Program

LEMMA TraceOps ==
  LET P == Program["trace"]
  IN  /\ Len(P) = 7
      /\ P[1] = Op("compare", "index") /\ P[2] = Op("read", "index")
      /\ P[3] = Op("write", "normalized")
      /\ P[4] = Op("digest", "normalized")
      /\ P[5] = Op("write", "trace-policy")
      /\ P[6] = Op("gate", "policy")
      /\ P[7] = Op("digest", "trace-policy")
BY DEF Program

LEMMA AttestationOps ==
  LET P == Program["attestation"]
  IN  /\ Len(P) = 19
      /\ P[1] = Op("compare", "index") /\ P[2] = Op("read", "index")
      /\ P[3] = Op("compare", "trace-policy")
      /\ P[4] = Op("read", "trace-policy")
      /\ P[5] = Op("require", "policy")
      /\ P[6] = Op("compare", "normalized")
      /\ P[7] = Op("read", "normalized") /\ P[8] = Op("write", "statement")
      /\ P[9] = Op("digest", "statement")
      /\ P[10] = Op("digest", "normalized")
      /\ P[11] = Op("digest", "trace-policy")
      /\ P[12] = Op("write", "manifest")
      /\ P[13] = Op("digest", "statement")
      /\ P[14] = Op("digest", "normalized")
      /\ P[15] = Op("digest", "trace-policy")
      /\ P[16] = Op("write", "verification")
      /\ P[17] = Op("gate", "manifest") /\ P[18] = Op("digest", "manifest")
      /\ P[19] = Op("digest", "verification")
BY DEF Program

LEMMA VerifierOps ==
  LET P == Program["verifier"]
  IN  /\ Len(P) = 13
      /\ P[1] = Op("compare", "index") /\ P[2] = Op("read", "index")
      /\ P[3] = Op("compare", "manifest") /\ P[4] = Op("read", "manifest")
      /\ P[5] = Op("digest", "statement")
      /\ P[6] = Op("digest", "normalized")
      /\ P[7] = Op("digest", "trace-policy")
      /\ P[8] = Op("require", "release") /\ P[9] = Op("read", "manifest")
      /\ P[10] = Op("digest", "manifest") /\ P[11] = Op("require", "record")
      /\ P[12] = Op("write", "availability")
      /\ P[13] = Op("digest", "availability")
BY DEF Program

LEMMA RejectionOps ==
  LET P == Program["rejection"]
  IN  /\ Len(P) = 2
      /\ P[1] = Op("write", "availability")
      /\ P[2] = Op("digest", "availability")
BY DEF Program

LEMMA GovernorOps ==
  LET P == Program["governor"]
  IN  /\ Len(P) = 13
      /\ P[1] = Op("compare", "index") /\ P[2] = Op("read", "index")
      /\ P[3] = Op("compare", "manifest") /\ P[4] = Op("read", "manifest")
      /\ P[5] = Op("compare", "verification")
      /\ P[6] = Op("read", "verification")
      /\ P[7] = Op("compare", "availability")
      /\ P[8] = Op("read", "availability")
      /\ P[9] = Op("compare", "trace-policy")
      /\ P[10] = Op("read", "trace-policy")
      /\ P[11] = Op("write", "evaluation")
      /\ P[12] = Op("gate", "candidate")
      /\ P[13] = Op("digest", "evaluation")
BY DEF Program

\* Who writes what: the index is written by none of them, the manifest and the
\* record of a verification at one place each, and the rejection in its stead.
LEMMA WritesIs ==
  ASSUME NEW s \in Stage \cup {"rejection"}, NEW n \in 1..Len(Program[s]),
         Program[s][n].do = "write"
  PROVE  LET f == Program[s][n].on
         IN  /\ f # "index"
             /\ f = "manifest" <=> s = "attestation" /\ n = 12
             /\ f = "availability" => \/ s = "verifier" /\ n = 12
                                      \/ s = "rejection" /\ n = 1
             /\ f = "normalized" <=> s = "trace" /\ n = 3
             /\ f = "trace-policy" <=> s = "trace" /\ n = 5
             /\ f = "statement" <=> s = "attestation" /\ n = 8
             /\ f = "verification" <=> s = "attestation" /\ n = 16
             /\ f = "evaluation" <=> s = "governor" /\ n = 11
<1>1. CASE s = "build"
  <2>1. n \in 1..4
    BY <1>1, BuildOps
  <2> QED
    BY <1>1, <2>1, BuildOps DEF Op
<1>2. CASE s = "trace"
  <2>1. n \in 1..7
    BY <1>2, TraceOps
  <2>2. n = 3 \/ n = 5
    BY <1>2, <2>1, TraceOps DEF Op
  <2> QED
    BY <1>2, <2>2, TraceOps DEF Op
<1>3. CASE s = "attestation"
  <2>1. n \in 1..19
    BY <1>3, AttestationOps
  <2>2. n = 8 \/ n = 12 \/ n = 16
    BY <1>3, <2>1, AttestationOps DEF Op
  <2> QED
    BY <1>3, <2>2, AttestationOps DEF Op
<1>4. CASE s = "verifier"
  <2>1. n \in 1..13
    BY <1>4, VerifierOps
  <2> QED
    BY <1>4, <2>1, VerifierOps DEF Op
<1>5. CASE s = "rejection"
  <2>1. n \in 1..2
    BY <1>5, RejectionOps
  <2> QED
    BY <1>5, <2>1, RejectionOps DEF Op
<1>6. CASE s = "governor"
  <2>1. n \in 1..13
    BY <1>6, GovernorOps
  <2> QED
    BY <1>6, <2>1, GovernorOps DEF Op
<1> QED
  BY <1>1, <1>2, <1>3, <1>4, <1>5, <1>6 DEF Stage

\* Where an attempt that gets on is in its program.
LEMMA AdvancesAt ==
  ASSUME LaneShape, NEW s \in Stage, NEW k \in Number, Advances(s, k)
  PROVE  LET d == attempt[s][k].doing
             n == attempt[s][k].pc
         IN  /\ Now(s, k) = Program[d][n]
             /\ d \in Stage \cup {"rejection"}
             /\ n \in 1..Len(Program[d])
             /\ d = s \/ (s = "verifier" /\ d = "rejection")
<1>1. /\ attempt[s][k] # Nil
      /\ attempt[s][k].pc <= Len(Program[attempt[s][k].doing])
  BY DEF Advances
<1>2. AttemptShape(s, k)
  BY DEF LaneShape
<1>3. attempt[s][k].doing \in Stage \cup {"rejection"}
  BY <1>1, <1>2 DEF AttemptShape
<1>4. Len(Program[attempt[s][k].doing]) \in Nat
  BY <1>3, ProgramLength DEF Stage
<1> QED
  BY <1>1, <1>2, <1>3, <1>4 DEF AttemptShape, Now

LEMMA LaneShapeInit == LaneInit => LaneShape
<1> SUFFICES ASSUME LaneInit PROVE LaneShape
  OBVIOUS
<1>1. \A s \in Stage : /\ item[s] = [at |-> "none", attempts |-> 0, payload |-> Nothing]
                       /\ DOMAIN attempt[s] = Number
                       /\ \A k \in Number : attempt[s][k] = Nil
  BY DEF LaneInit, Number
<1>2. \A s \in Stage : ItemShape(s)
  BY <1>1 DEF ItemShape
<1>3. \A s \in Stage, k \in Number : AttemptShape(s, k)
  BY <1>1 DEF AttemptShape
<1>4. \A s \in DOMAIN After : After[s] \in Stage
  BY StageAfter
<1> QED
  BY <1>1, <1>2, <1>3, <1>4 DEF LaneInit, LaneShape

LEMMA StartersKeepShape ==
  ASSUME LaneShape, LaneNext
  PROVE  /\ DOMAIN disk' = LaneFile
         /\ DOMAIN starter' = Starter
         /\ \A c \in Starter :
              /\ DOMAIN starter'[c] = {"at", "input"}
              /\ starter'[c].at = "idle" => starter'[c].input = Nil
         /\ (\E c \in Starter : starter'[c].at # "idle") => disk'["index"] \in Input
         /\ config' = Nil => \A s \in Stage : item'[s].at = "none"
         /\ config' # Nil => disk'["index"] \in Input
<1> DEFINE Goal ==
         /\ DOMAIN disk' = LaneFile
         /\ DOMAIN starter' = Starter
         /\ \A c \in Starter :
              /\ DOMAIN starter'[c] = {"at", "input"}
              /\ starter'[c].at = "idle" => starter'[c].input = Nil
         /\ (\E c \in Starter : starter'[c].at # "idle") => disk'["index"] \in Input
         /\ config' = Nil => \A s \in Stage : item'[s].at = "none"
         /\ config' # Nil => disk'["index"] \in Input
<1> SUFFICES Goal
  OBVIOUS
<1>0. /\ DOMAIN disk = LaneFile /\ DOMAIN starter = Starter
      /\ \A c \in Starter :
           /\ DOMAIN starter[c] = {"at", "input"}
           /\ starter[c].at = "idle" => starter[c].input = Nil
      /\ (\E c \in Starter : starter[c].at # "idle") => disk["index"] \in Input
      /\ config = Nil => \A s \in Stage : item[s].at = "none"
      /\ config # Nil => disk["index"] \in Input
      /\ Nil \notin Input
  BY LaneAssumption DEF LaneShape
<1>1. ASSUME NEW c \in Starter, Pin(c) PROVE Goal
  <2>1. /\ DOMAIN starter' = Starter
        /\ \A d \in Starter :
             /\ DOMAIN starter'[d] = {"at", "input"}
             /\ starter'[d].at = "idle" => starter'[d].input = Nil
        /\ disk' = disk /\ disk["index"] \in Input
    BY <1>0, <1>1 DEF Pin
  <2>2. config' # Nil
    BY <1>0, <1>1, <2>1 DEF Pin
  <2> QED
    BY <1>0, <2>1, <2>2
<1>2. ASSUME NEW c \in Starter, NEW i \in Input, Prepare(c, i) PROVE Goal
  <2>1. /\ DOMAIN starter' = Starter
        /\ \A d \in Starter :
             /\ DOMAIN starter'[d] = {"at", "input"}
             /\ starter'[d].at = "idle" => starter'[d].input = Nil
        /\ DOMAIN disk' = LaneFile /\ disk'["index"] = i
        /\ UNCHANGED <<config, item>>
    BY <1>0, <1>2 DEF Prepare, LaneFile
  <2> QED
    BY <1>0, <2>1
<1>3. ASSUME NEW s \in Stage, NEW k \in Number,
             Works(s, k) \/ Succeed(s, k) \/ Expire(s, k) \/ Reject(k) \/ Announce(k)
      PROVE  Goal
  <2>1. starter' = starter /\ config' = config /\ DOMAIN disk' = LaneFile
    BY <1>0, <1>3 DEF Works, CheckDigest, Read, Digest, Write, Decide, Require,
                      Succeed, Expire, Reject, Announce
  <2>2. disk'["index"] = disk["index"]
    <3>1. CASE Advances(s, k)
      <4>1. /\ Now(s, k) = Program[attempt[s][k].doing][attempt[s][k].pc]
            /\ Now(s, k).do = "write" => Now(s, k).on # "index"
        BY <3>1, AdvancesAt, WritesIs
      <4> QED
        BY <3>1, <4>1 DEF Advances, LaneFile
    <3>2. CASE ~Advances(s, k)
      BY <1>3, <3>2, WorksIs DEF Succeed, Expire, Reject, Announce
    <3> QED
      BY <3>1, <3>2
  <2>3. config = Nil => item' = item
    <3> SUFFICES ASSUME config = Nil PROVE item' = item
      OBVIOUS
    <3>1. \A t \in Stage, j \in Number : item[t].at = "none" /\ attempt[t][j] = Nil
      <4>1. TAKE t \in Stage, j \in Number
      <4>2. item[t].at = "none" /\ item[t].attempts = 0 /\ j \in Nat /\ j > 0
        BY <1>0, LaneAssumption DEF LaneShape, Number
      <4> QED
        BY <4>2 DEF LaneShape
    <3> QED
      BY <1>3, <3>1 DEF Works, Succeed, Expire, Reject, Announce, Done, Working,
                       Current, Stage
  <2> QED
    BY <1>0, <2>1, <2>2, <2>3
<1> QED
  BY <1>1, <1>2, <1>3 DEF LaneNext, Number, Stage

LEMMA LaneShapeStep == LaneShape /\ LaneNext => LaneShape'
<1> SUFFICES ASSUME LaneShape, LaneNext PROVE LaneShape'
  OBVIOUS
<1>1. \A s \in Stage, k \in Number : AttemptShape(s, k)'
  BY AttemptsKeepShape
<1> QED
  BY <1>1, ItemsKeepShape, StartersKeepShape DEF LaneShape

LEMMA LaneShapeStutter == LaneShape /\ UNCHANGED laneVars => LaneShape'
BY DEF LaneShape, ItemShape, AttemptShape, laneVars

\* An agent works once the one before it is done, its attempts are made one after
\* the other, and the run is of a build result that was prepared.
THEOREM LaneHasShape == LaneSpec => []LaneShape
<1>1. LaneInit => LaneShape
  BY LaneShapeInit
<1>2. LaneShape /\ [LaneNext]_laneVars => LaneShape'
  BY LaneShapeStep, LaneShapeStutter
<1> QED
  BY <1>1, <1>2, PTL DEF LaneSpec

-----------------------------------------------------------------------------
\* What the operations are, and which of them read or write the index.
LEMMA DoIs ==
  ASSUME NEW s \in Stage \cup {"rejection"}, NEW n \in 1..Len(Program[s])
  PROVE  /\ Program[s][n].do
              \in {"compare", "read", "write", "digest", "gate", "require"}
         /\ Program[s][n].do \in {"read", "write"} /\ Program[s][n].on = "index" => n = 2
         /\ n = 2 /\ s # "rejection" => Program[s][n] = Op("read", "index")
<1> DEFINE Fine(op, m, d) ==
      /\ op.do \in {"compare", "read", "write", "digest", "gate", "require"}
      /\ op.do \in {"read", "write"} /\ op.on = "index" => m = 2
      /\ m = 2 /\ d # "rejection" => op = Op("read", "index")
<1>1. CASE s = "build"
  <2>1. n \in 1..4
    BY <1>1, BuildOps
  <2> QED
    BY <1>1, <2>1, BuildOps DEF Op
<1>2. CASE s = "trace"
  <2>1. n \in 1..7
    BY <1>2, TraceOps
  <2> QED
    BY <1>2, <2>1, TraceOps DEF Op
<1>3. CASE s = "attestation"
  <2>1. n \in 1..19
    BY <1>3, AttestationOps
  <2>2. n \in 1..10 \/ n \in 11..19
    BY <2>1
  <2>3. CASE n \in 1..10
    BY <1>3, <2>3, AttestationOps DEF Op
  <2>4. CASE n \in 11..19
    BY <1>3, <2>4, AttestationOps DEF Op
  <2> QED
    BY <2>2, <2>3, <2>4
<1>4. CASE s = "verifier"
  <2>1. n \in 1..13
    BY <1>4, VerifierOps
  <2> QED
    BY <1>4, <2>1, VerifierOps DEF Op
<1>5. CASE s = "rejection"
  <2>1. n \in 1..2
    BY <1>5, RejectionOps
  <2> QED
    BY <1>5, <2>1, RejectionOps DEF Op
<1>6. CASE s = "governor"
  <2>1. n \in 1..13
    BY <1>6, GovernorOps
  <2> QED
    BY <1>6, <2>1, GovernorOps DEF Op
<1> QED
  BY <1>1, <1>2, <1>3, <1>4, <1>5, <1>6 DEF Stage

\* What an attempt knows of a file it does not forget, and learns anew from the
\* operations on that file only.
LEMMA KnownStep ==
  ASSUME LaneShape, NEW s \in Stage, NEW k \in Number, Advances(s, k)
  PROVE  LET a == attempt[s][k]
             b == attempt'[s][k]
             do == Now(s, k).do
             f == Now(s, k).on
         IN  /\ \A g \in DOMAIN a.seen :
                  /\ g \in DOMAIN b.seen
                  /\ \/ b.seen[g] = a.seen[g]
                     \/ do \in {"read", "write"} /\ g = f
                     \/ do = "require" /\ f = "release" /\ g = "availability"
             /\ \A g \in DOMAIN a.ref :
                  /\ g \in DOMAIN b.ref
                  /\ b.ref[g] = a.ref[g] \/ (do = "digest" /\ g = f)
             /\ do = "read" => f \in DOMAIN b.seen /\ b.seen[f] = disk[f]
             /\ do = "write" => f \in DOMAIN b.seen /\ b.seen[f] = Written(f, a, k)
             /\ do = "digest" => f \in DOMAIN b.ref /\ b.ref[f] = disk[f]
<1> DEFINE a == attempt[s][k]
<1> DEFINE b == attempt'[s][k]
<1> DEFINE do == Now(s, k).do
<1> DEFINE f == Now(s, k).on
<1>1. do \in {"compare", "read", "write", "digest", "gate", "require"}
  BY AdvancesAt, DoIs
<1>2. /\ do = "read" => b.seen = With(a.seen, f, disk[f])
      /\ do = "write" => b.seen = With(a.seen, f, Written(f, a, k))
      /\ do = "require" /\ f = "release" =>
           b.seen = With(a.seen, "availability", Verification(a.seen["manifest"], k))
      /\ do \in {"compare", "digest", "gate"} => b.seen = a.seen
      /\ do = "require" /\ f # "release" => b.seen = a.seen
      /\ do = "digest" => b.ref = With(a.ref, f, disk[f])
      /\ do # "digest" => b.ref = a.ref
  BY DEF Advances
<1> DEFINE w == Written(f, a, k)
<1> DEFINE v == Verification(a.seen["manifest"], k)
<1> HIDE DEF a, b, do, f, w, v
<1>3. \A g \in DOMAIN a.seen :
        /\ g \in DOMAIN b.seen
        /\ \/ b.seen[g] = a.seen[g]
           \/ do \in {"read", "write"} /\ g = f
           \/ do = "require" /\ f = "release" /\ g = "availability"
  BY <1>1, <1>2 DEF With
<1>4. \A g \in DOMAIN a.ref :
        /\ g \in DOMAIN b.ref
        /\ b.ref[g] = a.ref[g] \/ (do = "digest" /\ g = f)
  BY <1>1, <1>2 DEF With
<1>5. /\ do = "read" => f \in DOMAIN b.seen /\ b.seen[f] = disk[f]
      /\ do = "write" => f \in DOMAIN b.seen /\ b.seen[f] = Written(f, a, k)
      /\ do = "digest" => f \in DOMAIN b.ref /\ b.ref[f] = disk[f]
  BY <1>1, <1>2 DEF With
<1> QED
  BY <1>3, <1>4, <1>5 DEF a, b, do, f

-----------------------------------------------------------------------------
(* Every attempt of the attestation agent writes the manifest once, so that *)
(* a manifest that was overwritten does not come back.                      *)

\* The attempt that wrote this manifest, of a build result, will not write
\* another one.
Spent(m) ==
  /\ m.input \in Input
  /\ m.at \in Number /\ m.at <= item["attestation"].attempts
  /\ \/ attempt["attestation"][m.at] = Nil
     \/ attempt["attestation"][m.at].pc > 12

Manifested(k) ==
  LET a == attempt["attestation"][k]
  IN  a # Nil =>
        /\ a.pc > 2 => "index" \in DOMAIN a.seen /\ a.seen["index"] \in Input
        /\ a.pc > 12 => Spent(disk["manifest"])
        /\ a.pc > 18 => "manifest" \in DOMAIN a.ref /\ Spent(a.ref["manifest"])

\* The manifest of an agent's event.
Handed(s) == item[s].payload["manifest"]

ManifestsAreSpent ==
  /\ \A k \in Number : Manifested(k)
  /\ item["verifier"].at # "none" => Spent(disk["manifest"])
  /\ \A s \in {"verifier", "governor"} :
       item[s].at # "none" =>
         "manifest" \in DOMAIN item[s].payload /\ Spent(Handed(s))
  /\ item["governor"].at # "none" => Handed("governor") = Handed("verifier")

-----------------------------------------------------------------------------
(* What was verified is the manifest of the event, or that one is gone.     *)

Verifying(k) ==
  LET a == attempt["verifier"][k]
      record == a.seen["availability"]
  IN  a # Nil =>
        /\ a.doing = "rejection" =>
             "availability" \in DOMAIN a.seen /\ record.status # "verified"
        /\ a.doing = "verifier" =>
             /\ a.pc > 4 => /\ "manifest" \in DOMAIN a.seen
                            /\ a.seen["manifest"].input \in Input
             /\ a.pc > 8 => /\ "availability" \in DOMAIN a.seen
                            /\ record.status = "verified" /\ Signed(record.evidence)
             /\ a.pc > 10 => /\ "manifest" \in DOMAIN a.ref
                             /\ \/ a.ref["manifest"] = Handed("verifier")
                                \/ disk["manifest"] # Handed("verifier")
             /\ a.pc > 11 => record.evidence = a.ref["manifest"]
             /\ a.pc > 12 => a.ref["manifest"] \in verified

Governing(k) ==
  LET a == attempt["governor"][k]
  IN  a # Nil /\ a.pc > 3 => Handed("governor") \in verified

CandidateInvariant ==
  /\ ManifestsAreSpent
  /\ \A k \in Number : Verifying(k) /\ Governing(k)
  /\ item["governor"].at # "none" =>
       Handed("governor") \in verified \/ disk["manifest"] # Handed("governor")
  /\ candidate # Nil => candidate \in verified
  /\ \A m \in verified : Signed(m)

-----------------------------------------------------------------------------
LEMMA LaneFiles ==
  /\ "manifest" \in LaneFile /\ "index" \in LaneFile /\ "availability" \in LaneFile
  /\ {"attestation", "verifier", "governor"} \subseteq Stage
BY DEF LaneFile, Stage

\* A number of an attempt that is at work.
LEMMA AttemptNumbers ==
  ASSUME LaneShape
  PROVE  /\ Number \subseteq Nat
         /\ \A s \in Stage : item[s].attempts \in Nat
         /\ \A s \in Stage, k \in Number :
              attempt[s][k] # Nil =>
                /\ k <= item[s].attempts /\ item[s].at # "none"
                /\ attempt[s][k].pc \in Nat
<1>1. \A k \in Number : k \in Nat /\ k > 0
  BY LaneAssumption DEF Number
<1> QED
  BY <1>1 DEF LaneShape, ItemShape, AttemptShape

\* The manifest is written by the twelfth operation of the attestation agent,
\* and bears the number of the attempt.
LEMMA ManifestStep ==
  ASSUME LaneShape, LaneNext
  PROVE  \/ disk'["manifest"] = disk["manifest"]
         \/ \E k \in Number :
              /\ Advances("attestation", k) /\ attempt["attestation"][k].pc = 12
              /\ disk'["manifest"].at = k
              /\ disk'["manifest"].input = attempt["attestation"][k].seen["index"]
<1>1. ASSUME NEW s \in Stage, NEW k \in Number, Advances(s, k),
             disk'["manifest"] # disk["manifest"]
      PROVE  /\ s = "attestation" /\ attempt["attestation"][k].pc = 12
             /\ disk'["manifest"].at = k
             /\ disk'["manifest"].input = attempt["attestation"][k].seen["index"]
  <2> DEFINE a == attempt[s][k]
  <2>1. /\ Now(s, k).do = "write" /\ Now(s, k).on = "manifest"
        /\ disk'["manifest"] = Written("manifest", a, k)
    BY <1>1, LaneFiles DEF Advances
  <2>2. a.doing = "attestation" /\ a.pc = 12
    BY <1>1, <2>1, AdvancesAt, WritesIs
  <2>3. s = "attestation"
    BY <1>1, <2>2, AdvancesAt
  <2>4. /\ Written("manifest", a, k).at = k
        /\ Written("manifest", a, k).input = a.seen["index"]
    BY DEF Written
  <2> QED
    BY <2>1, <2>2, <2>3, <2>4
<1>2. CASE Rests
  BY <1>2, LaneFiles DEF Rests
<1> QED
  BY <1>1, <1>2, StepIs

\* A spent manifest stays so, and once it is overwritten it does not come back.
LEMMA SpentStep ==
  ASSUME LaneShape, LaneNext, NEW m, Spent(m)
  PROVE  /\ Spent(m)'
         /\ disk'["manifest"] = disk["manifest"] \/ disk'["manifest"] # m
<1> DEFINE k == m.at
<1>0. k \in Number /\ k \in Nat /\ k <= item["attestation"].attempts
      /\ item["attestation"].attempts \in Nat
  BY AttemptNumbers, LaneFiles DEF Spent
<1>1. Spent(m)'
  <2>1. CASE Rests
    <3>1. item'["attestation"].attempts >= item["attestation"].attempts
      BY <2>1, LaneFiles DEF Rests
    <3>2. attempt'["attestation"][k] \in {Nil, attempt["attestation"][k]}
      BY <1>0, <2>1, LaneFiles DEF Rests
    <3>3. k <= item'["attestation"].attempts
      <4>1. item'["attestation"].attempts \in Nat
        BY ItemsKeepShape, LaneFiles DEF ItemShape
      <4> QED
        BY <1>0, <3>1, <4>1
    <3> QED
      BY <1>0, <3>2, <3>3 DEF Spent
  <2>2. ASSUME NEW s \in Stage, NEW j \in Number, Advances(s, j) PROVE Spent(m)'
    <3>1. item' = item
      BY <2>2 DEF Advances
    <3>2. CASE s = "attestation" /\ j = k
      <4>1. /\ attempt'["attestation"][k].pc = attempt["attestation"][k].pc + 1
            /\ attempt["attestation"][k] # Nil
        BY <2>2, <3>2 DEF Advances
      <4>2. attempt["attestation"][k].pc \in Nat
        BY <1>0, <4>1, AttemptNumbers, LaneFiles
      <4> QED
        BY <1>0, <3>1, <4>1, <4>2 DEF Spent
    <3>3. CASE s # "attestation" \/ j # k
      <4>1. attempt'["attestation"][k] = attempt["attestation"][k]
        BY <1>0, <2>2, <3>3, LaneFiles DEF Advances
      <4> QED
        BY <1>0, <3>1, <4>1 DEF Spent
    <3> QED
      BY <3>2, <3>3
  <2> QED
    BY <2>1, <2>2, StepIs
<1>2. ASSUME NEW j \in Number, Advances("attestation", j),
             attempt["attestation"][j].pc = 12, disk'["manifest"].at = j
      PROVE  disk'["manifest"] # m
  <2>1. attempt["attestation"][j] # Nil
    BY <1>2 DEF Advances
  <2>2. j # k
    BY <1>2, <2>1 DEF Spent
  <2> QED
    BY <1>2, <2>2
<1> QED
  BY <1>1, <1>2, ManifestStep

\* The manifest on the disk is a spent one, once there is one.
LEMMA DiskIsSpent ==
  ASSUME LaneShape, LaneNext,
         Spent(disk["manifest"]) \/ disk'["manifest"] # disk["manifest"],
         \A k \in Number : Manifested(k)
  PROVE  Spent(disk["manifest"])'
<1>1. CASE disk'["manifest"] = disk["manifest"]
  <2>1. \A m : Spent(m) => Spent(m)'
    BY SpentStep
  <2> QED
    BY <1>1, <2>1 DEF Spent
<1>2. ASSUME NEW j \in Number, Advances("attestation", j),
             attempt["attestation"][j].pc = 12, disk'["manifest"].at = j,
             disk'["manifest"].input = attempt["attestation"][j].seen["index"]
      PROVE  Spent(disk["manifest"])'
  <2>0. attempt["attestation"][j].seen["index"] \in Input
    BY <1>2 DEF Manifested, Advances
  <2>1. /\ attempt["attestation"][j] # Nil /\ item' = item
        /\ attempt'["attestation"][j].pc = 13
    BY <1>2 DEF Advances
  <2>2. j <= item["attestation"].attempts
    BY <2>1, AttemptNumbers, LaneFiles
  <2> QED
    BY <1>2, <2>0, <2>1, <2>2 DEF Spent
<1> QED
  BY <1>1, <1>2, ManifestStep

LEMMA ManifestedStep ==
  ASSUME LaneShape, LaneNext, NEW k \in Number, \A j \in Number : Manifested(j)
  PROVE  Manifested(k)'
<1> DEFINE a == attempt["attestation"][k]
<1> DEFINE b == attempt'["attestation"][k]
<1>1. CASE b = Nil
  BY <1>1 DEF Manifested
<1>2. CASE b = a /\ a # Nil
  <2>1. a.pc > 12 => Spent(disk["manifest"])'
    BY <1>2, DiskIsSpent DEF Manifested
  <2>2. a.pc > 18 => "manifest" \in DOMAIN a.ref /\ Spent(a.ref["manifest"])'
    <3>1. \A m : Spent(m) => Spent(m)'
      BY SpentStep
    <3> QED
      BY <1>2, <3>1 DEF Manifested, Spent
  <2> QED
    BY <1>2, <2>1, <2>2 DEF Manifested, Spent
<1>3. CASE b = Fresh("attestation")
  BY <1>3, FreshShape, LaneFiles DEF Manifested
<1>4. CASE Advances("attestation", k)
  <2>1. /\ a # Nil /\ b.pc = a.pc + 1 /\ a.pc \in 1..19
        /\ Now("attestation", k) = Program["attestation"][a.pc]
    <3>1. a.doing = "attestation"
      BY <1>4, AdvancesAt, LaneFiles
    <3>2. /\ a.pc \in 1..Len(Program["attestation"])
          /\ Now("attestation", k) = Program["attestation"][a.pc]
      BY <1>4, <3>1, AdvancesAt, LaneFiles
    <3>3. a # Nil /\ b.pc = a.pc + 1
      BY <1>4 DEF Advances
    <3> QED
      BY <3>2, <3>3, AttestationOps
  <2>2. a.pc + 1 > 12 => Spent(disk["manifest"])'
    <3>1. CASE a.pc = 12
      <4>1. Now("attestation", k) = Op("write", "manifest")
        BY <2>1, <3>1, AttestationOps
      <4>2. disk'["manifest"] = Written("manifest", a, k)
        BY <1>4, <4>1, LaneFiles DEF Advances, Op
      <4>3. disk'["manifest"].at = k /\ disk'["manifest"].input \in Input
        BY <2>1, <3>1, <4>2 DEF Written, Manifested
      <4>4. k <= item["attestation"].attempts /\ item' = item /\ b.pc = 13
        BY <1>4, <2>1, <3>1, AttemptNumbers, LaneFiles DEF Advances
      <4> QED
        BY <4>3, <4>4 DEF Spent
    <3>2. CASE a.pc # 12
      BY <2>1, <3>2, DiskIsSpent DEF Manifested
    <3> QED
      BY <3>1, <3>2
  <2>3. a.pc + 1 > 18 => ("manifest" \in DOMAIN a.ref /\ Spent(a.ref["manifest"]))'
    <3>1. CASE a.pc = 18
      <4>1. Now("attestation", k) = Op("digest", "manifest")
        BY <2>1, <3>1, AttestationOps
      <4>2. b.ref = With(a.ref, "manifest", disk["manifest"])
        BY <1>4, <4>1 DEF Advances, Op
      <4>3. Spent(disk["manifest"])
        BY <2>1, <3>1 DEF Manifested
      <4>4. \A m : Spent(m) => Spent(m)'
        BY SpentStep
      <4> QED
        BY <4>2, <4>3, <4>4 DEF Spent, With
    <3>2. CASE a.pc = 19
      <4>1. Now("attestation", k) = Op("digest", "verification")
        BY <2>1, <3>2, AttestationOps
      <4>2. b.ref = With(a.ref, "verification", disk["verification"])
        BY <1>4, <4>1 DEF Advances, Op
      <4>3. "manifest" \in DOMAIN a.ref /\ Spent(a.ref["manifest"])
        BY <2>1, <3>2 DEF Manifested
      <4>4. "manifest" \in DOMAIN b.ref /\ b.ref["manifest"] = a.ref["manifest"]
        BY <4>2, <4>3 DEF With
      <4>5. \A m : Spent(m) => Spent(m)'
        BY SpentStep
      <4> QED
        BY <4>3, <4>4, <4>5 DEF Spent
    <3> QED
      BY <2>1, <3>1, <3>2
  <2>4. a.pc + 1 > 2 => "index" \in DOMAIN b.seen /\ b.seen["index"] \in Input
    <3>0. Now("attestation", k).do = "read" /\ Now("attestation", k).on = "index"
            <=> a.pc = 2
      <4>1. a.pc \in 1..Len(Program["attestation"])
        BY <2>1, AttestationOps
      <4> QED
        BY <2>1, <4>1, LaneFiles, DoIs DEF Op
    <3>1. CASE a.pc = 2
      <4>1. config # Nil
        BY <2>1, AttemptNumbers, LaneFiles DEF LaneShape
      <4>2. disk["index"] \in Input
        BY <4>1 DEF LaneShape
      <4>3. b.seen["index"] = disk["index"] /\ "index" \in DOMAIN b.seen
        BY <1>4, <3>0, <3>1, KnownStep, LaneFiles
      <4> QED
        BY <4>2, <4>3
    <3>2. CASE a.pc > 2
      <4>1. "index" \in DOMAIN a.seen /\ a.seen["index"] \in Input
        BY <2>1, <3>2 DEF Manifested
      <4>2. ~(Now("attestation", k).do \in {"read", "write"} /\ Now("attestation", k).on = "index")
        <5>1. a.pc \in 1..Len(Program["attestation"]) /\ a.pc # 2
          BY <2>1, <3>2, AttestationOps
        <5> QED
          BY <2>1, <5>1, LaneFiles, DoIs
      <4> QED
        BY <1>4, <4>1, <4>2, KnownStep, LaneFiles
    <3> QED
      BY <2>1, <3>1, <3>2
  <2> QED
    BY <2>1, <2>2, <2>3, <2>4 DEF Manifested, Spent
<1>5. b \in {Nil, a, Fresh("attestation")} \/ Advances("attestation", k)
  BY StepIs, LaneFiles DEF Rests, Advances
<1> QED
  BY <1>1, <1>2, <1>3, <1>4, <1>5

LEMMA HandsOver ==
  ASSUME NEW s \in DOMAIN After
  PROVE  /\ After[s] = "verifier" <=> s = "attestation"
         /\ After[s] = "governor" <=> s = "verifier"
         /\ After[s] = "attestation" <=> s = "trace"
         /\ After[s] = "trace" <=> s = "build"
         /\ Outputs["attestation"] = {"manifest", "verification"}
         /\ Outputs["verifier"] = {"availability"}
         /\ Outputs["trace"] = {"normalized", "trace-policy"}
         /\ Outputs["build"] = {"index"}
BY DEF After, Outputs

\* The payload of an agent's item is that of its event, for good.
LEMMA PayloadStep ==
  ASSUME LaneShape, LaneNext, NEW t \in Stage \ {"build"}
  PROVE  \/ /\ item'[t].payload = item[t].payload
            /\ item'[t].at = "none" <=> item[t].at = "none"
         \/ \E s \in Stage, k \in Number : Hands(s, k) /\ After[s] = t
<1>1. CASE Keeps
  BY <1>1 DEF Keeps
<1>2. ASSUME NEW s \in Stage, NEW k \in Number, Advances(s, k)
      PROVE  item' = item
  BY <1>2 DEF Advances
<1>3. ASSUME NEW s \in Stage, NEW k \in Number, Hands(s, k), After[s] # t
      PROVE  /\ item'[t].payload = item[t].payload
             /\ item'[t].at = "none" <=> item[t].at = "none"
  BY <1>3 DEF Hands
<1> QED
  BY <1>1, <1>2, <1>3, StepIs

LEMMA ManifestsAreSpentStep ==
  ASSUME LaneShape, LaneNext, ManifestsAreSpent
  PROVE  ManifestsAreSpent'
<1>1. \A k \in Number : Manifested(k)'
  BY ManifestedStep DEF ManifestsAreSpent
<1>2. \A m : Spent(m) => Spent(m)'
  BY SpentStep
<1>3. item'["verifier"].at # "none" =>
        "manifest" \in DOMAIN item'["verifier"].payload /\ Spent(Handed("verifier"))'
  <2>1. CASE /\ item'["verifier"].payload = item["verifier"].payload
             /\ item'["verifier"].at = "none" <=> item["verifier"].at = "none"
    BY <1>2, <2>1 DEF ManifestsAreSpent, Handed, Spent
  <2>2. ASSUME NEW k \in Number, Hands("attestation", k)
        PROVE  "manifest" \in DOMAIN item'["verifier"].payload /\ Spent(Handed("verifier"))'
    <3> DEFINE a == attempt["attestation"][k]
    <3>1. /\ a # Nil /\ a.pc > Len(Program["attestation"])
          /\ DOMAIN item'["verifier"].payload
               = Outputs["attestation"] \cup DOMAIN item["attestation"].payload
          /\ \A f \in Outputs["attestation"] : item'["verifier"].payload[f] = a.ref[f]
      BY <2>2, HandsOver DEF Hands
    <3>2. a.pc \in Nat /\ a.pc > 18
      BY <3>1, AttemptNumbers, LaneFiles, AttestationOps
    <3>3. Spent(a.ref["manifest"])
      BY <3>1, <3>2 DEF ManifestsAreSpent, Manifested
    <3>4. Outputs["attestation"] = {"manifest", "verification"}
      BY DEF Outputs
    <3>5. /\ "manifest" \in DOMAIN item'["verifier"].payload
          /\ item'["verifier"].payload["manifest"] = a.ref["manifest"]
      BY <3>1, <3>4
    <3> QED
      BY <1>2, <3>3, <3>5 DEF Handed, Spent
  <2>3. ASSUME NEW s \in Stage, NEW k \in Number, Hands(s, k), After[s] = "verifier"
        PROVE  s = "attestation"
    BY <2>3, HandsOver DEF Hands
  <2>4. "verifier" \in Stage \ {"build"}
    BY DEF Stage
  <2> QED
    BY <2>1, <2>2, <2>3, <2>4, PayloadStep
<1>4. item'["governor"].at # "none" =>
        /\ "manifest" \in DOMAIN item'["governor"].payload
        /\ Handed("governor")' = Handed("verifier")'
        /\ item'["verifier"].at # "none"
  <2>1. CASE /\ item'["governor"].payload = item["governor"].payload
             /\ item'["governor"].at = "none" <=> item["governor"].at = "none"
    <3> SUFFICES ASSUME item["governor"].at # "none"
                 PROVE  /\ "manifest" \in DOMAIN item'["governor"].payload
                        /\ Handed("governor")' = Handed("verifier")'
                        /\ item'["verifier"].at # "none"
      BY <2>1
    <3>1. item["verifier"].at = "done"
      BY LaneFiles, StageAfter, HandsOver DEF LaneShape
    <3>2. /\ item'["verifier"].payload = item["verifier"].payload
          /\ item'["verifier"].at # "none"
      <4>1. ASSUME NEW s \in Stage, NEW k \in Number, Hands(s, k) PROVE After[s] # "verifier"
        BY <3>1, <4>1 DEF Hands
      <4> QED
        BY <3>1, <4>1, PayloadStep, LaneFiles
    <3> QED
      BY <2>1, <3>2 DEF ManifestsAreSpent, Handed
  <2>2. ASSUME NEW k \in Number, Hands("verifier", k)
        PROVE  /\ "manifest" \in DOMAIN item'["governor"].payload
               /\ Handed("governor")' = Handed("verifier")'
               /\ item'["verifier"].at # "none"
    <3>1. /\ item["verifier"].at = "open"
          /\ DOMAIN item'["governor"].payload
               = Outputs["verifier"] \cup DOMAIN item["verifier"].payload
          /\ \A f \in DOMAIN item["verifier"].payload \ Outputs["verifier"] :
               item'["governor"].payload[f] = item["verifier"].payload[f]
          /\ item'["verifier"].payload = item["verifier"].payload
          /\ item'["verifier"].at # "none"
      BY <2>2, HandsOver, LaneFiles DEF Hands, Current
    <3>2. "manifest" \in DOMAIN item["verifier"].payload
      BY <3>1 DEF ManifestsAreSpent
    <3>3. "manifest" \notin Outputs["verifier"]
      BY DEF Outputs
    <3> QED
      BY <3>1, <3>2, <3>3 DEF Handed
  <2>3. ASSUME NEW s \in Stage, NEW k \in Number, Hands(s, k), After[s] = "governor"
        PROVE  s = "verifier"
    BY <2>3, HandsOver DEF Hands
  <2>4. "governor" \in Stage \ {"build"}
    BY DEF Stage
  <2> QED
    BY <2>1, <2>2, <2>3, <2>4, PayloadStep
<1>5. item'["governor"].at # "none" => Spent(Handed("governor"))'
  BY <1>3, <1>4 DEF Spent, Handed
<1>6. item'["verifier"].at # "none" => Spent(disk["manifest"])'
  <2>1. ASSUME NEW s \in Stage, NEW k \in Number, Hands(s, k), After[s] = "verifier"
        PROVE  Spent(disk["manifest"])
    <3>1. s = "attestation"
      BY <2>1, HandsOver DEF Hands
    <3>2. /\ attempt["attestation"][k] # Nil
          /\ attempt["attestation"][k].pc > 19
      BY <2>1, <3>1, AttestationOps DEF Hands
    <3>3. attempt["attestation"][k].pc > 12
      BY <3>2, AttemptNumbers, LaneFiles
    <3> QED
      BY <3>2, <3>3 DEF ManifestsAreSpent, Manifested
  <2>2. item["verifier"].at # "none" => Spent(disk["manifest"])
    BY DEF ManifestsAreSpent
  <2>3. "verifier" \in Stage \ {"build"}
    BY DEF Stage
  <2>4. item'["verifier"].at # "none" => Spent(disk["manifest"])
    BY <2>1, <2>2, <2>3, PayloadStep
  <2> QED
    BY <2>4, DiskIsSpent DEF ManifestsAreSpent
<1> QED
  BY <1>1, <1>3, <1>4, <1>5, <1>6 DEF ManifestsAreSpent

-----------------------------------------------------------------------------
\* Three bundles with three roles: the one that was verified for its role is the
\* only one, and so every bundle of the manifest was verified.
LEMMA AcceptedIsSigned ==
  ASSUME NEW e, NEW policy, e.bundles \in Seq(ToSet(e.bundles)), Accepts(e, policy)
  PROVE  /\ Len(e.bundles) = 3
         /\ \A b \in ToSet(e.bundles) :
              /\ b.signed /\ b.logged
              /\ b.certificate = CertificateOf(e.project)
              /\ ToSet(b.subjects) = ToSet(e.artifacts)
<1> DEFINE B == e.bundles
<1>1. /\ Len(B) = 3 /\ {b.role : b \in ToSet(B)} = {"provenance", "sbom", "policy"}
      /\ \A role \in Role :
           LET b == BundleFor(B, role)
           IN  /\ GhVerifies(b, e.artifacts[1], ApprovedTypes[role], e.project)
               /\ ValidVerificationOutput(b, role, ToSet(e.artifacts), e.sboms[1], e.project)
  BY DEF Accepts, IdentifiedBundles, Role
<1>2. ToSet(B) = {B[1], B[2], B[3]}
  <2>1. DOMAIN B = 1..3
    BY <1>1
  <2> QED
    BY <2>1 DEF ToSet
<1> HIDE DEF B
<1>3. {B[1].role, B[2].role, B[3].role} = {"provenance", "sbom", "policy"}
  BY <1>1, <1>2
<1>4. /\ B[1].role # B[2].role /\ B[1].role # B[3].role /\ B[2].role # B[3].role
      /\ B[1].role \in Role /\ B[2].role \in Role /\ B[3].role \in Role
  <2>1. /\ B[1].role \in {"provenance", "sbom", "policy"}
        /\ B[2].role \in {"provenance", "sbom", "policy"}
        /\ B[3].role \in {"provenance", "sbom", "policy"}
    BY <1>3
  <2>2. /\ "provenance" \in {B[1].role, B[2].role, B[3].role}
        /\ "sbom" \in {B[1].role, B[2].role, B[3].role}
        /\ "policy" \in {B[1].role, B[2].role, B[3].role}
    BY <1>3
  <2> QED
    BY <2>1, <2>2 DEF Role
<1>5. ASSUME NEW b \in ToSet(B)
      PROVE  b.role \in Role /\ BundleFor(B, b.role) = b
  <2>1. b.role \in Role
    BY <1>2, <1>4
  <2>2. \A c \in ToSet(B) : c.role = b.role => c = b
    BY <1>2, <1>4
  <2> QED
    BY <2>1, <2>2 DEF BundleFor
<1>6. ASSUME NEW b \in ToSet(B)
      PROVE  /\ b.signed /\ b.logged
             /\ b.certificate = CertificateOf(e.project)
             /\ ToSet(b.subjects) = ToSet(e.artifacts)
  <2>1. /\ GhVerifies(b, e.artifacts[1], ApprovedTypes[b.role], e.project)
        /\ ValidVerificationOutput(b, b.role, ToSet(e.artifacts), e.sboms[1], e.project)
    BY <1>1, <1>5
  <2> QED
    BY <2>1 DEF GhVerifies, ValidVerificationOutput, StatementSubjects
<1> QED
  BY <1>1, <1>6 DEF B

LEMMA EvidenceIsSigned ==
  ASSUME NEW m, m.input \in Input, NEW policy, Accepts(Evidence(m), policy)
  PROVE  Signed(m)
<1>1. Evidence(m).bundles = Result[m.input].bundles
  BY DEF Evidence
<1>2. Evidence(m).bundles \in Seq(ToSet(Evidence(m).bundles))
  BY <1>1, LaneAssumption
<1> QED
  BY <1>2, AcceptedIsSigned DEF Signed

\* Where the verifier is, on its own program or on that of a rejection.
LEMMA VerifierAt ==
  ASSUME LaneShape, NEW k \in Number, Advances("verifier", k)
  PROVE  LET a == attempt["verifier"][k]
             b == attempt'["verifier"][k]
         IN  /\ a # Nil /\ b.pc = a.pc + 1 /\ b.doing = a.doing
             /\ \/ /\ a.doing = "verifier" /\ a.pc \in 1..13
                   /\ Now("verifier", k) = Program["verifier"][a.pc]
                \/ /\ a.doing = "rejection" /\ a.pc \in 1..2
                   /\ Now("verifier", k) = Program["rejection"][a.pc]
<1> DEFINE a == attempt["verifier"][k]
<1> DEFINE b == attempt'["verifier"][k]
<1>1. a # Nil /\ b.pc = a.pc + 1 /\ b.doing = a.doing
  BY DEF Advances
<1>2. /\ a.doing = "verifier" \/ a.doing = "rejection"
      /\ Now("verifier", k) = Program[a.doing][a.pc]
      /\ a.pc \in 1..Len(Program[a.doing])
  BY AdvancesAt, LaneFiles
<1> QED
  BY <1>1, <1>2, VerifierOps, RejectionOps

\* What is verified stays so, and has its signatures.
LEMMA VerifiedStep ==
  ASSUME LaneShape, LaneNext, \A k \in Number : Verifying(k)
  PROVE  /\ verified \subseteq verified'
         /\ \A m \in verified' : m \in verified \/ Signed(m)
<1>1. ASSUME NEW s \in Stage, NEW k \in Number, Advances(s, k), verified' # verified
      PROVE  /\ verified \subseteq verified'
             /\ \A m \in verified' : m \in verified \/ Signed(m)
  <2> DEFINE a == attempt[s][k]
  <2>1. /\ Now(s, k).do = "write" /\ Now(s, k).on = "availability"
        /\ Written("availability", a, k).status = "verified"
        /\ verified' = verified \cup {Written("availability", a, k).evidence}
    BY <1>1 DEF Advances
  <2>2. Written("availability", a, k) = a.seen["availability"]
    BY DEF Written
  <2>3. \/ a.doing = "verifier" /\ a.pc = 12
        \/ a.doing = "rejection" /\ a.pc = 1
    BY <1>1, <2>1, AdvancesAt, WritesIs
  <2>4. s = "verifier" /\ a # Nil
    BY <1>1, <2>3, AdvancesAt DEF Advances, Stage
  <2>5. a.doing = "verifier" /\ a.pc = 12
    BY <2>1, <2>2, <2>3, <2>4 DEF Verifying
  <2>6. Signed(a.seen["availability"].evidence)
    BY <2>4, <2>5 DEF Verifying
  <2> QED
    BY <2>1, <2>2, <2>6
<1>2. CASE Rests
  BY <1>2 DEF Rests
<1> QED
  BY <1>1, <1>2, StepIs

\* The verifier's event stays what it is once the verifier works.
LEMMA VerifierEvent ==
  ASSUME LaneShape, LaneNext, item["verifier"].at # "none"
  PROVE  Handed("verifier")' = Handed("verifier") /\ item'["verifier"].at # "none"
<1>1. "verifier" \in Stage \ {"build"}
  BY DEF Stage
<1>2. ASSUME NEW s \in Stage, NEW k \in Number, Hands(s, k) PROVE After[s] # "verifier"
  BY <1>2 DEF Hands
<1> QED
  BY <1>1, <1>2, PayloadStep DEF Handed

\* A manifest that is not on the disk any more does not come back.
LEMMA GoneStep ==
  ASSUME LaneShape, LaneNext, NEW m, Spent(m), disk["manifest"] # m
  PROVE  disk'["manifest"] # m
BY SpentStep

LEMMA VerifyingAdvances ==
  ASSUME LaneShape, LaneNext, CandidateInvariant, NEW k \in Number,
         Advances("verifier", k), attempt["verifier"][k].doing = "verifier"
  PROVE  Verifying(k)'
<1> DEFINE a == attempt["verifier"][k]
<1> DEFINE b == attempt'["verifier"][k]
<1> DEFINE do == Now("verifier", k).do
<1> DEFINE f == Now("verifier", k).on
<1> DEFINE M == Handed("verifier")
<1>1. /\ a # Nil /\ b.pc = a.pc + 1 /\ b.doing = "verifier" /\ a.doing = "verifier"
      /\ a.pc \in 1..13 /\ Now("verifier", k) = Program["verifier"][a.pc]
  BY VerifierAt
<1>2. Verifying(k) /\ ManifestsAreSpent
  BY DEF CandidateInvariant
<1>3. /\ item["verifier"].at # "none" /\ Spent(M) /\ Spent(disk["manifest"])
      /\ Handed("verifier")' = M
  <2>1. item["verifier"].at # "none"
    BY <1>1, AttemptNumbers, LaneFiles
  <2> QED
    BY <1>2, <2>1, VerifierEvent DEF ManifestsAreSpent
<1>4. /\ \A g \in DOMAIN a.seen :
           /\ g \in DOMAIN b.seen
           /\ \/ b.seen[g] = a.seen[g]
              \/ do \in {"read", "write"} /\ g = f
              \/ do = "require" /\ f = "release" /\ g = "availability"
      /\ \A g \in DOMAIN a.ref :
           /\ g \in DOMAIN b.ref
           /\ b.ref[g] = a.ref[g] \/ (do = "digest" /\ g = f)
      /\ do = "read" => f \in DOMAIN b.seen /\ b.seen[f] = disk[f]
      /\ do = "write" => f \in DOMAIN b.seen /\ b.seen[f] = Written(f, a, k)
      /\ do = "digest" => f \in DOMAIN b.ref /\ b.ref[f] = disk[f]
  BY KnownStep, LaneFiles
<1>5. /\ a.pc \in {4, 9} <=> (do = "read" /\ f = "manifest")
      /\ a.pc = 8 <=> (do = "require" /\ f = "release")
      /\ a.pc = 10 <=> (do = "digest" /\ f = "manifest")
      /\ a.pc = 11 <=> (do = "require" /\ f = "record")
      /\ a.pc = 12 <=> do = "write"
      /\ a.pc = 12 => f = "availability"
      /\ a.pc \in {4, 9, 2} <=> do = "read"
      /\ a.pc = 2 => f = "index"
  BY <1>1, VerifierOps DEF Op
<1>6. a.pc > 3 => "manifest" \in DOMAIN b.seen /\ b.seen["manifest"].input \in Input
  <2>1. CASE a.pc \in {4, 9}
    BY <1>3, <1>4, <1>5, <2>1 DEF Spent
  <2>2. CASE a.pc > 4 /\ a.pc # 9
    <3>1. "manifest" \in DOMAIN a.seen /\ a.seen["manifest"].input \in Input
      BY <1>1, <1>2, <2>2 DEF Verifying
    <3>2. ~(do \in {"read", "write"} /\ f = "manifest")
      BY <1>1, <1>5, <2>2
    <3> QED
      BY <1>4, <3>1, <3>2
  <2> QED
    BY <1>1, <2>1, <2>2
<1>7. a.pc > 7 => /\ "availability" \in DOMAIN b.seen
                  /\ b.seen["availability"].status = "verified"
                  /\ Signed(b.seen["availability"].evidence)
  <2>1. CASE a.pc = 8
    <3>1. do = "require" /\ f = "release" /\ Passes("release", a)
      BY <1>5, <2>1 DEF Advances
    <3>2. Accepts(Evidence(a.seen["manifest"]), Result[a.seen["index"]].policy)
      BY <3>1 DEF Passes
    <3>3. a.seen["manifest"].input \in Input
      BY <1>1, <1>2, <2>1 DEF Verifying
    <3>4. Signed(a.seen["manifest"])
      BY <3>2, <3>3, EvidenceIsSigned
    <3>5. b.seen = With(a.seen, "availability", Verification(a.seen["manifest"], k))
      BY <3>1 DEF Advances
    <3>6. /\ Verification(a.seen["manifest"], k).status = "verified"
          /\ Verification(a.seen["manifest"], k).evidence = a.seen["manifest"]
      BY DEF Verification
    <3>7. /\ "availability" \in DOMAIN b.seen
          /\ b.seen["availability"] = Verification(a.seen["manifest"], k)
      BY <3>5 DEF With
    <3> QED
      BY <3>4, <3>6, <3>7
  <2>2. CASE a.pc > 8
    <3>1. /\ "availability" \in DOMAIN a.seen
          /\ a.seen["availability"].status = "verified"
          /\ Signed(a.seen["availability"].evidence)
      BY <1>1, <1>2, <2>2 DEF Verifying
    <3>2. b.seen["availability"] = a.seen["availability"]
      <4>1. CASE a.pc = 12
        <5>1. Written("availability", a, k) = a.seen["availability"]
          BY DEF Written
        <5> QED
          BY <1>4, <1>5, <4>1, <5>1
      <4>2. CASE a.pc # 12
        <5>1. /\ ~(do \in {"read", "write"} /\ f = "availability")
              /\ ~(do = "require" /\ f = "release")
          BY <1>1, <1>5, <2>2, <4>2
        <5> QED
          BY <1>4, <3>1, <5>1
      <4> QED
        BY <4>1, <4>2
    <3>3. "availability" \in DOMAIN b.seen
      BY <1>4, <3>1
    <3> QED
      BY <3>1, <3>2, <3>3
  <2> QED
    BY <1>1, <2>1, <2>2
<1>8. a.pc > 9 => /\ "manifest" \in DOMAIN b.ref
                  /\ b.ref["manifest"] = M \/ disk'["manifest"] # M
  <2>1. CASE a.pc = 10
    <3>1. /\ "manifest" \in DOMAIN b.ref /\ b.ref["manifest"] = disk["manifest"]
      BY <1>4, <1>5, <2>1
    <3> QED
      BY <1>3, <3>1, GoneStep
  <2>2. CASE a.pc > 10
    <3>1. /\ "manifest" \in DOMAIN a.ref
          /\ a.ref["manifest"] = M \/ disk["manifest"] # M
      BY <1>1, <1>2, <2>2 DEF Verifying
    <3>2. "manifest" \in DOMAIN b.ref /\ b.ref["manifest"] = a.ref["manifest"]
      BY <1>1, <1>4, <1>5, <2>2, <3>1
    <3> QED
      BY <1>3, <3>1, <3>2, GoneStep
  <2> QED
    BY <1>1, <2>1, <2>2
<1>9. a.pc > 10 => b.seen["availability"].evidence = b.ref["manifest"]
  <2> SUFFICES ASSUME a.pc > 10
               PROVE  b.seen["availability"].evidence = b.ref["manifest"]
    OBVIOUS
  <2>1. a.seen["availability"].evidence = a.ref["manifest"]
    <3>1. CASE a.pc = 11
      <4>1. Passes("record", a)
        BY <1>5, <3>1 DEF Advances
      <4> QED
        BY <4>1 DEF Passes, ValidRecord
    <3>2. CASE a.pc > 11
      BY <1>1, <1>2, <3>2 DEF Verifying
    <3> QED
      BY <1>1, <3>1, <3>2
  <2>2. "manifest" \in DOMAIN a.ref /\ "availability" \in DOMAIN a.seen
    BY <1>1, <1>2 DEF Verifying
  <2>3. b.ref["manifest"] = a.ref["manifest"]
    BY <1>1, <1>4, <1>5, <2>2
  <2>4. b.seen["availability"] = a.seen["availability"]
    <3>1. CASE a.pc = 12
      <4>1. Written("availability", a, k) = a.seen["availability"]
        BY DEF Written
      <4> QED
        BY <1>4, <1>5, <3>1, <4>1
    <3>2. CASE a.pc # 12
      <4>1. /\ ~(do \in {"read", "write"} /\ f = "availability")
            /\ ~(do = "require" /\ f = "release")
        BY <1>1, <1>5, <3>2
      <4> QED
        BY <1>4, <2>2, <4>1
    <3> QED
      BY <3>1, <3>2
  <2> QED
    BY <2>1, <2>3, <2>4
<1>10. a.pc > 11 => b.ref["manifest"] \in verified'
  <2>1. CASE a.pc = 12
    <3>1. /\ a.seen["availability"].status = "verified"
          /\ a.seen["availability"].evidence = a.ref["manifest"]
          /\ "manifest" \in DOMAIN a.ref
      BY <1>1, <1>2, <2>1 DEF Verifying
    <3>2. Written("availability", a, k) = a.seen["availability"]
      BY DEF Written
    <3>3. a.ref["manifest"] \in verified'
      BY <1>5, <2>1, <3>1, <3>2 DEF Advances
    <3>4. b.ref["manifest"] = a.ref["manifest"]
      BY <1>4, <1>5, <2>1, <3>1
    <3> QED
      BY <3>3, <3>4
  <2>2. CASE a.pc > 12
    <3>1. a.ref["manifest"] \in verified /\ "manifest" \in DOMAIN a.ref
      BY <1>1, <1>2, <2>2 DEF Verifying
    <3>2. b.ref["manifest"] = a.ref["manifest"]
      BY <1>1, <1>4, <1>5, <2>2, <3>1
    <3> QED
      BY <3>1, <3>2, VerifiedStep DEF CandidateInvariant
  <2> QED
    BY <1>1, <2>1, <2>2
<1>11. b.pc = a.pc + 1 /\ a.pc \in Nat /\ b.doing # "rejection"
  BY <1>1
<1> HIDE DEF M
<1> QED
  BY <1>3, <1>6, <1>7, <1>8, <1>9, <1>10, <1>11 DEF Verifying

LEMMA VerifyingStep ==
  ASSUME LaneShape, LaneNext, CandidateInvariant, NEW k \in Number
  PROVE  Verifying(k)'
<1> DEFINE a == attempt["verifier"][k]
<1> DEFINE b == attempt'["verifier"][k]
<1>1. Verifying(k) /\ ManifestsAreSpent
  BY DEF CandidateInvariant
<1>2. CASE b = Nil
  BY <1>2 DEF Verifying
<1>3. CASE b = a /\ a # Nil
  <2>1. item["verifier"].at # "none"
    BY <1>3, AttemptNumbers, LaneFiles
  <2>2. Spent(Handed("verifier")) /\ Handed("verifier")' = Handed("verifier")
    BY <1>1, <2>1, VerifierEvent DEF ManifestsAreSpent
  <2>3. disk["manifest"] # Handed("verifier") => disk'["manifest"] # Handed("verifier")
    BY <2>2, GoneStep
  <2>4. verified \subseteq verified'
    BY VerifiedStep DEF CandidateInvariant
  <2> QED
    BY <1>1, <1>3, <2>2, <2>3, <2>4 DEF Verifying
<1>4. CASE b = Fresh("verifier")
  BY <1>4, FreshShape, LaneFiles DEF Verifying
<1>5. CASE b = Rejecting(k)
  <2>1. /\ b.doing = "rejection" /\ b.seen = With(Nothing, "availability", Rejection(k))
    BY <1>5, FreshShape, LaneFiles
  <2>2. Rejection(k).status = "rejected"
    BY DEF Rejection
  <2>3. "availability" \in DOMAIN b.seen /\ b.seen["availability"] = Rejection(k)
    BY <2>1 DEF With
  <2> QED
    BY <2>1, <2>2, <2>3 DEF Verifying
<1>6. CASE Advances("verifier", k) /\ a.doing = "rejection"
  <2>1. /\ a # Nil /\ b.doing = "rejection" /\ a.pc \in 1..2
        /\ Now("verifier", k) = Program["rejection"][a.pc]
    BY <1>6, VerifierAt
  <2>2. /\ "availability" \in DOMAIN a.seen /\ a.seen["availability"].status # "verified"
    BY <1>1, <1>6, <2>1 DEF Verifying
  <2>3. CASE a.pc = 1
    <3>1. Now("verifier", k).do = "write" /\ Now("verifier", k).on = "availability"
      BY <2>1, <2>3, RejectionOps DEF Op
    <3>2. Written("availability", a, k) = a.seen["availability"]
      BY DEF Written
    <3>3. "availability" \in DOMAIN b.seen /\ b.seen["availability"] = a.seen["availability"]
      BY <1>6, <3>1, <3>2, KnownStep, LaneFiles
    <3> QED
      BY <2>1, <2>2, <3>3 DEF Verifying
  <2>4. CASE a.pc = 2
    <3>1. Now("verifier", k).do = "digest"
      BY <2>1, <2>4, RejectionOps DEF Op
    <3>2. b.seen = a.seen
      BY <1>6, <3>1 DEF Advances
    <3> QED
      BY <2>1, <2>2, <3>2 DEF Verifying
  <2> QED
    BY <2>1, <2>3, <2>4
<1>7. CASE Advances("verifier", k) /\ a.doing = "verifier"
  BY <1>7, VerifyingAdvances
<1>8. \/ b \in {Nil, a, Fresh("verifier"), Rejecting(k)}
      \/ Advances("verifier", k)
  BY StepIs, LaneFiles DEF Rests, Advances
<1>9. Advances("verifier", k) => a.doing = "verifier" \/ a.doing = "rejection"
  BY VerifierAt
<1> QED
  BY <1>2, <1>3, <1>4, <1>5, <1>6, <1>7, <1>8, <1>9

\* A verifier that succeeds has verified the manifest of its event, unless that
\* one was overwritten.
LEMMA GovernorEventStep ==
  ASSUME LaneShape, LaneNext, CandidateInvariant, item'["governor"].at # "none"
  PROVE  /\ Handed("governor")' \in verified' \/ disk'["manifest"] # Handed("governor")'
         /\ item["governor"].at # "none" => Handed("governor")' = Handed("governor")
<1>1. "governor" \in Stage \ {"build"} /\ "verifier" \in Stage
  BY DEF Stage
<1>2. verified \subseteq verified'
  BY VerifiedStep DEF CandidateInvariant
<1>3. CASE /\ item'["governor"].payload = item["governor"].payload
           /\ item'["governor"].at = "none" <=> item["governor"].at = "none"
  <2>1. Handed("governor")' = Handed("governor") /\ item["governor"].at # "none"
    BY <1>3 DEF Handed
  <2>2. /\ Handed("governor") \in verified \/ disk["manifest"] # Handed("governor")
        /\ Spent(Handed("governor"))
    BY <2>1 DEF CandidateInvariant, ManifestsAreSpent
  <2>3. disk["manifest"] # Handed("governor") => disk'["manifest"] # Handed("governor")
    BY <2>2, GoneStep
  <2> QED
    BY <1>2, <2>1, <2>2, <2>3
<1>4. ASSUME NEW s \in Stage, NEW k \in Number, Hands(s, k), After[s] = "governor"
      PROVE  /\ Handed("governor")' \in verified' \/ disk'["manifest"] # Handed("governor")'
             /\ item["governor"].at = "none"
  <2> DEFINE a == attempt["verifier"][k]
  <2>1. s = "verifier"
    BY <1>4, HandsOver DEF Hands
  <2>2. /\ a # Nil /\ a.doing = "verifier" /\ a.pc > 13
        /\ item["verifier"].at # "none" /\ item["governor"].at = "none"
        /\ disk' = disk
        /\ \A f \in DOMAIN item["verifier"].payload \ Outputs["verifier"] :
             item'["governor"].payload[f] = item["verifier"].payload[f]
    BY <1>4, <2>1, VerifierOps DEF Hands, Current
  <2>3. "manifest" \in DOMAIN item["verifier"].payload \ Outputs["verifier"]
    BY <2>2, HandsOver, StageAfter, LaneFiles DEF CandidateInvariant, ManifestsAreSpent, Outputs
  <2>4. item'["governor"].payload["manifest"] = item["verifier"].payload["manifest"]
    BY <2>2, <2>3
  <2>5. a.pc \in Nat
    BY <2>2, AttemptNumbers, LaneFiles
  <2>6. /\ a.ref["manifest"] = Handed("verifier") \/ disk["manifest"] # Handed("verifier")
        /\ a.ref["manifest"] \in verified
    BY <2>2, <2>5 DEF CandidateInvariant, Verifying
  <2> QED
    BY <1>2, <2>2, <2>4, <2>6 DEF Handed
<1> QED
  BY <1>1, <1>3, <1>4, PayloadStep

LEMMA GoverningStep ==
  ASSUME LaneShape, LaneNext, CandidateInvariant, NEW k \in Number
  PROVE  Governing(k)'
<1> DEFINE a == attempt["governor"][k]
<1> DEFINE b == attempt'["governor"][k]
<1>1. verified \subseteq verified' /\ Governing(k)
  BY VerifiedStep DEF CandidateInvariant
<1>2. CASE b = Nil
  BY <1>2 DEF Governing
<1>3. CASE b = Fresh("governor")
  BY <1>3, FreshShape, LaneFiles DEF Governing
<1> SUFFICES ASSUME b # Nil, b # Fresh("governor") PROVE Governing(k)'
  BY <1>2, <1>3
<1>4. (b = a /\ a # Nil) \/ Advances("governor", k)
  BY StepIs, LaneFiles DEF Rests, Advances
<1>5. a # Nil /\ item["governor"].at # "none"
  BY <1>4, AttemptNumbers, LaneFiles DEF Advances
<1>6. item'["governor"].at # "none" /\ Handed("governor")' = Handed("governor")
  <2>1. ASSUME NEW s \in Stage, NEW j \in Number, Hands(s, j) PROVE After[s] # "governor"
    BY <1>5, <2>1 DEF Hands
  <2>2. "governor" \in Stage \ {"build"}
    BY DEF Stage
  <2> QED
    BY <1>5, <2>1, <2>2, PayloadStep DEF Handed
<1>7. CASE b = a
  BY <1>1, <1>5, <1>6, <1>7 DEF Governing
<1>8. CASE Advances("governor", k)
  <2>1. /\ b.pc = a.pc + 1 /\ a.pc \in 1..13
        /\ Now("governor", k) = Program["governor"][a.pc]
    <3>1. /\ a.doing = "governor" /\ Now("governor", k) = Program[a.doing][a.pc]
          /\ a.pc \in 1..Len(Program[a.doing])
      BY <1>8, AdvancesAt, LaneFiles
    <3> QED
      BY <1>8, <3>1, GovernorOps DEF Advances
  <2>2. CASE a.pc = 3
    <3>1. Now("governor", k).do = "compare" /\ Now("governor", k).on = "manifest"
      BY <2>1, <2>2, GovernorOps DEF Op
    <3>2. disk["manifest"] = Handed("governor")
      BY <1>8, <3>1 DEF Advances, Handed
    <3>3. Handed("governor") \in verified
      BY <1>5, <3>2 DEF CandidateInvariant
    <3> QED
      BY <1>1, <1>6, <3>3 DEF Governing
  <2>3. CASE a.pc > 3
    BY <1>1, <1>5, <1>6, <2>3 DEF Governing
  <2>4. CASE a.pc < 3
    <3>1. ~(b.pc > 3)
      BY <2>1, <2>4
    <3> QED
      BY <3>1 DEF Governing
  <2> QED
    BY <2>1, <2>2, <2>3, <2>4
<1> QED
  BY <1>4, <1>7, <1>8

\* What the governor names has been verified.
LEMMA NamedIsVerified ==
  ASSUME LaneShape, CandidateInvariant, NEW k \in Number, Names(k)
  PROVE  candidate' \in verified
<1> DEFINE a == attempt["governor"][k]
<1>1. /\ a # Nil /\ a.pc > Len(Program[a.doing])
      /\ candidate' = Handed("governor")
  BY DEF Names, Done, Working, Handed
<1>2. a.doing = "governor" /\ a.pc \in Nat
  BY <1>1, LaneFiles DEF LaneShape, AttemptShape
<1>3. a.pc > 3
  BY <1>1, <1>2, GovernorOps
<1> QED
  BY <1>1, <1>3 DEF CandidateInvariant, Governing

LEMMA CandidateStep ==
  ASSUME LaneShape, LaneNext, CandidateInvariant
  PROVE  CandidateInvariant'
<1>1. ManifestsAreSpent'
  BY ManifestsAreSpentStep DEF CandidateInvariant
<1>2. \A k \in Number : Verifying(k)' /\ Governing(k)'
  BY VerifyingStep, GoverningStep
<1>3. item'["governor"].at # "none" =>
        Handed("governor")' \in verified' \/ disk'["manifest"] # Handed("governor")'
  BY GovernorEventStep
<1>4. verified \subseteq verified' /\ \A m \in verified' : Signed(m)
  BY VerifiedStep DEF CandidateInvariant
<1>5. candidate' # Nil => candidate' \in verified'
  <2>1. CASE candidate' = candidate
    BY <1>4, <2>1 DEF CandidateInvariant
  <2>2. ASSUME NEW k \in Number, Names(k) PROVE candidate' \in verified'
    BY <1>4, <2>2, NamedIsVerified
  <2>3. candidate' = candidate \/ \E k \in Number : Names(k)
    BY StepIs DEF Advances, Hands
  <2> QED
    BY <2>1, <2>2, <2>3
<1> QED
  BY <1>1, <1>2, <1>3, <1>4, <1>5 DEF CandidateInvariant

LEMMA CandidateInit == LaneInit => CandidateInvariant
<1> SUFFICES ASSUME LaneInit PROVE CandidateInvariant
  OBVIOUS
<1>1. /\ \A s \in Stage : item[s].at = "none"
      /\ \A s \in Stage, k \in Number : attempt[s][k] = Nil
      /\ verified = {} /\ candidate = Nil
  BY DEF LaneInit, Number
<1>2. ManifestsAreSpent
  BY <1>1, LaneFiles DEF ManifestsAreSpent, Manifested
<1>3. \A k \in Number : Verifying(k) /\ Governing(k)
  BY <1>1, LaneFiles DEF Verifying, Governing
<1> QED
  BY <1>1, <1>2, <1>3, LaneFiles DEF CandidateInvariant

LEMMA CandidateStutter == CandidateInvariant /\ UNCHANGED laneVars => CandidateInvariant'
BY DEF CandidateInvariant, ManifestsAreSpent, Manifested, Spent, Handed, Verifying,
       Governing, laneVars

\* Every candidate, after any number of retries, lost leases and further starts in
\* the same directory, names a manifest that a verification accepted, with the
\* three bundles of the project's own workflow.
THEOREM CandidateWasVerified == LaneSpec => []CandidateIsVerified
<1>1. LaneInit => CandidateInvariant
  BY CandidateInit
<1>2. LaneShape /\ CandidateInvariant /\ [LaneNext]_laneVars => CandidateInvariant'
  BY CandidateStep, CandidateStutter
<1>3. CandidateInvariant => CandidateIsVerified
  BY DEF CandidateInvariant, Signed, CandidateIsVerified
<1> QED
  BY <1>1, <1>2, <1>3, LaneHasShape, PTL DEF LaneSpec

-----------------------------------------------------------------------------
(* The lane on its own: everything it knows is about one build result.      *)

\* Nobody has disturbed the run that was created.
Calm == config # Nil /\ Alone

\* What verify_release_attestations and the record's validation establish.
Accepted(i) ==
  Accepts([project |-> Result[i].project, artifacts |-> Entries(Result[i].artifacts),
           sboms |-> Result[i].sboms, bundles |-> Result[i].bundles],
          Result[i].policy)

Recorded(i) ==
  /\ Cardinality({a.digest : a \in ToSet(Entries(Result[i].artifacts))})
       = Len(Entries(Result[i].artifacts))
  /\ ~(Allow /\ Result[i].mode = "fixture")

\* What an attempt has found out by the time it is where it is.
IndexTold(s, k) ==
  LET a == attempt[s][k]
  IN  a # Nil /\ a.doing = s /\ a.pc > 2 =>
        "index" \in DOMAIN a.seen /\ a.seen["index"] = config

BuildTold(k) ==
  LET a == attempt["build"][k]
  IN  a # Nil /\ a.pc > 3 => Intake(config)

TraceTold(k) ==
  LET a == attempt["trace"][k]
  IN  a # Nil =>
        /\ a.pc > 5 =>
             /\ "trace-policy" \in DOMAIN a.seen
             /\ a.seen["trace-policy"].failures = Failures(Result[config])
        /\ a.pc > 6 => Failures(Result[config]) = {}

AttestationTold(k) ==
  LET a == attempt["attestation"][k]
  IN  a # Nil =>
        /\ a.pc > 12 => disk["manifest"].input = config
        /\ a.pc > 18 => "manifest" \in DOMAIN a.ref /\ a.ref["manifest"].input = config

VerifierTold(k) ==
  LET a == attempt["verifier"][k]
  IN  a # Nil /\ a.doing = "verifier" =>
        /\ a.pc > 4 => "manifest" \in DOMAIN a.seen /\ a.seen["manifest"].input = config
        /\ a.pc > 8 => Accepted(config)
        /\ a.pc > 11 => Recorded(config)

GovernorTold(k) ==
  LET a == attempt["governor"][k]
  IN  a # Nil =>
        /\ a.pc > 11 =>
             /\ "evaluation" \in DOMAIN a.seen
             /\ a.seen["evaluation"].passed => Result[config].tooling /\ Result[config].risk
        /\ a.pc > 12 => Result[config].tooling /\ Result[config].risk

\* What the event that opened an item stands for.
EventsTell ==
  /\ item["trace"].at # "none" => Intake(config)
  /\ item["attestation"].at # "none" => Failures(Result[config]) = {}
  /\ item["verifier"].at # "none" =>
       disk["manifest"].input = config /\ Handed("verifier").input = config
  /\ item["governor"].at # "none" => Accepted(config) /\ Recorded(config)

AttemptsTell ==
  \A k \in Number :
    /\ \A s \in Stage : IndexTold(s, k)
    /\ BuildTold(k) /\ TraceTold(k) /\ AttestationTold(k)
    /\ VerifierTold(k) /\ GovernorTold(k)

DecisionInvariant ==
  /\ candidate # Nil => item["governor"].at # "none"
  /\ Calm =>
       /\ disk["index"] = config
       /\ AttemptsTell /\ EventsTell
       /\ candidate # Nil => candidate.input = config /\ Fit(config)

-----------------------------------------------------------------------------
(* And undisturbed: every file is what the events and the attempts say.     *)

\* The files that an agent's event names.
Carried ==
  [build |-> {"index"}, trace |-> {"index"},
   attestation |-> {"index", "normalized", "trace-policy"},
   verifier |-> {"index", "normalized", "trace-policy", "manifest", "verification"},
   governor |-> {"index", "normalized", "trace-policy", "manifest", "verification",
                 "availability"}]

Holds(known, f) == f \in DOMAIN known /\ known[f] = disk[f]

\* The manifest lists the files that are there.
Listed ==
  /\ disk["manifest"].statement = disk["statement"]
  /\ disk["manifest"].normalized = disk["normalized"]
  /\ disk["manifest"].tracePolicy = disk["trace-policy"]

TraceSteady(a) ==
  /\ a.pc > 4 => Holds(a.ref, "normalized")
  /\ a.pc > 5 => disk["trace-policy"].failures = {}
  /\ a.pc > 7 => Holds(a.ref, "trace-policy")

AttestationSteady(a) ==
  /\ a.pc > 4 => Holds(a.seen, "trace-policy")
  /\ a.pc > 9 => Holds(a.ref, "statement")
  /\ a.pc > 10 => Holds(a.ref, "normalized")
  /\ a.pc > 11 => Holds(a.ref, "trace-policy")
  /\ a.pc > 12 => Listed /\ Holds(a.seen, "manifest")
  /\ a.pc > 16 => Holds(a.seen, "verification") /\ disk["verification"].ok
  /\ a.pc > 18 => Holds(a.ref, "manifest")
  /\ a.pc > 19 => Holds(a.ref, "verification")

VerifierSteady(a) ==
  /\ a.pc > 4 => Holds(a.seen, "manifest")
  /\ a.pc > 5 => Holds(a.ref, "statement")
  /\ a.pc > 6 => Holds(a.ref, "normalized")
  /\ a.pc > 7 => Holds(a.ref, "trace-policy")
  /\ a.pc > 8 => /\ "availability" \in DOMAIN a.seen
                 /\ a.seen["availability"] = Verification(disk["manifest"], 1)
  /\ a.pc > 10 => Holds(a.ref, "manifest")
  /\ a.pc > 12 => disk["availability"] = Verification(disk["manifest"], 1)
  /\ a.pc > 13 => Holds(a.ref, "availability")

GovernorSteady(a) ==
  /\ a.pc > 4 => Holds(a.seen, "manifest")
  /\ a.pc > 6 => Holds(a.seen, "verification")
  /\ a.pc > 8 => Holds(a.seen, "availability")
  /\ a.pc > 11 => "evaluation" \in DOMAIN a.seen /\ a.seen["evaluation"].passed

Steady ==
  /\ \A s \in Stage :
       /\ item[s].at \in {"none", "open", "done"}
       /\ item[s].at = "open" =>
            \A f \in Carried[s] : Holds(item[s].payload, f)
       /\ \A k \in Number :
            attempt[s][k] # Nil =>
              k = 1 /\ Current(s, k) /\ attempt[s][k].doing = s
  /\ attempt["build"][1] # Nil /\ attempt["build"][1].pc > 4 =>
       Holds(attempt["build"][1].ref, "index")
  /\ attempt["trace"][1] # Nil => TraceSteady(attempt["trace"][1])
  /\ attempt["attestation"][1] # Nil => AttestationSteady(attempt["attestation"][1])
  /\ attempt["verifier"][1] # Nil => VerifierSteady(attempt["verifier"][1])
  /\ attempt["governor"][1] # Nil => GovernorSteady(attempt["governor"][1])
  /\ item["attestation"].at # "none" => disk["trace-policy"].failures = {}
  /\ item["verifier"].at # "none" => Listed /\ disk["verification"].ok
  /\ item["governor"].at # "none" =>
       disk["availability"] = Verification(disk["manifest"], 1)

SteadyInvariant == Calm /\ expiries = 0 /\ Fit(config) => Steady

-----------------------------------------------------------------------------
\* What becomes of an attempt in one step.
LEMMA SlotStep ==
  ASSUME LaneShape, LaneNext, NEW s \in Stage, NEW k \in Number
  PROVE  \/ attempt'[s][k] = Nil
         \/ attempt'[s][k] = attempt[s][k] /\ attempt[s][k] # Nil
         \/ attempt'[s][k] = Fresh(s)
         \/ s = "verifier" /\ attempt'[s][k] = Rejecting(k)
         \/ Advances(s, k)
BY StepIs DEF Rests, Advances

\* Where an attempt that gets on is, if its agent has nothing to reject.
LEMMA AgentAt ==
  ASSUME LaneShape, NEW s \in Stage, NEW k \in Number, Advances(s, k),
         attempt[s][k].doing = s \/ s # "verifier"
  PROVE  LET a == attempt[s][k]
             b == attempt'[s][k]
         IN  /\ a # Nil /\ a.doing = s /\ b.doing = s /\ b.pc = a.pc + 1
             /\ a.pc \in 1..Len(Program[s]) /\ a.pc \in Nat
             /\ Now(s, k) = Program[s][a.pc]
             /\ item[s].at # "none"
<1> DEFINE a == attempt[s][k]
<1> DEFINE b == attempt'[s][k]
<1>1. a # Nil /\ b.pc = a.pc + 1 /\ b.doing = a.doing
  BY DEF Advances
<1>2. a.doing = s
  BY AdvancesAt
<1>3. /\ Now(s, k) = Program[a.doing][a.pc] /\ a.pc \in 1..Len(Program[a.doing])
  BY AdvancesAt
<1>4. item[s].at # "none" /\ a.pc \in Nat
  BY <1>1, AttemptNumbers
<1> QED
  BY <1>1, <1>2, <1>3, <1>4

\* The run begins, or it was calm already.
LEMMA CalmStep ==
  ASSUME LaneShape, LaneNext, Calm'
  PROVE  \/ /\ config # Nil /\ config' = config /\ Calm
            /\ disk'["index"] = disk["index"] \/ disk'["index"] = config
         \/ /\ config = Nil /\ config' = disk["index"] /\ disk' = disk
            /\ \E c \in Starter : Pin(c)
<1>0. \A i \in Input : i # Nil
  BY LaneAssumption
<1>1. ASSUME NEW c \in Starter, Pin(c)
      PROVE  \/ /\ config # Nil /\ config' = config /\ Calm
                /\ disk'["index"] = disk["index"] \/ disk'["index"] = config
             \/ /\ config = Nil /\ config' = disk["index"] /\ disk' = disk
                /\ \E d \in Starter : Pin(d)
  <2>1. disk' = disk /\ \A d \in Starter : starter'[d].input = starter[d].input
    BY <1>1 DEF Pin, LaneShape
  <2>2. config # Nil => config' = config
    BY <1>1 DEF Pin
  <2>3. config = Nil => config' = disk["index"]
    BY <1>1 DEF Pin
  <2> QED
    BY <1>1, <2>1, <2>2, <2>3 DEF Calm, Alone
<1>2. ASSUME NEW c \in Starter, NEW i \in Input, Prepare(c, i)
      PROVE  /\ config # Nil /\ config' = config /\ Calm
             /\ disk'["index"] = disk["index"] \/ disk'["index"] = config
  <2>1. /\ config' = config /\ disk'["index"] = i
        /\ starter[c].input = Nil
        /\ starter'[c].input = i
        /\ \A d \in Starter \ {c} : starter'[d] = starter[d]
    BY <1>2, LaneFiles DEF Prepare, LaneShape
  <2>2. config # Nil /\ \A d \in Starter : starter'[d].input \in {Nil, config}
    BY <2>1 DEF Calm, Alone
  <2>3. i = config
    BY <1>0, <2>1, <2>2
  <2>4. \A d \in Starter : starter[d].input \in {Nil, config}
    BY <2>1, <2>2
  <2> QED
    BY <2>1, <2>2, <2>3, <2>4 DEF Calm, Alone
<1>3. ASSUME UNCHANGED <<starter, config>>, disk'["index"] = disk["index"]
      PROVE  /\ config # Nil /\ config' = config /\ Calm
             /\ disk'["index"] = disk["index"] \/ disk'["index"] = config
  BY <1>3 DEF Calm, Alone
<1>4. ASSUME NEW s \in Stage, NEW k \in Number, Advances(s, k)
      PROVE  UNCHANGED <<starter, config>> /\ disk'["index"] = disk["index"]
  <2>1. Now(s, k).do = "write" => Now(s, k).on # "index"
    BY <1>4, AdvancesAt, WritesIs
  <2> QED
    BY <1>4, <2>1, LaneFiles DEF Advances
<1>5. ASSUME NEW s \in Stage, NEW k \in Number, Hands(s, k)
      PROVE  UNCHANGED <<starter, config>> /\ disk'["index"] = disk["index"]
  BY <1>5 DEF Hands
<1> QED
  BY <1>1, <1>2, <1>3, <1>4, <1>5, StepIs

\* What the run that begins is like.
LEMMA BeginsIs ==
  ASSUME LaneShape, NEW c \in Starter, Pin(c), config = Nil
  PROVE  /\ UNCHANGED <<disk, candidate, expiries>>
         /\ \A s \in Stage \ {"build"} : item'[s].at = "none"
         /\ item'["build"].at = "open" /\ item'["build"].attempts = 1
         /\ item'["build"].payload = With(Nothing, "index", disk["index"])
         /\ \A s \in Stage, k \in Number :
              attempt'[s][k] = IF s = "build" /\ k = 1 THEN Fresh(s) ELSE Nil
<1> DEFINE payload == With(Nothing, "index", disk["index"])
<1>1. /\ item' = [item EXCEPT !["build"] = Opened("build", payload)]
      /\ attempt' = [attempt EXCEPT !["build"][1] = Fresh("build")]
      /\ UNCHANGED <<disk, candidate, expiries>>
  BY DEF Pin
<1> HIDE DEF payload
<1>2. \A s \in Stage, k \in Number : item[s].at = "none" /\ attempt[s][k] = Nil
  <2>1. \A s \in Stage : item[s].at = "none"
    BY DEF LaneShape
  <2> QED
    BY <2>1, AttemptNumbers
<1>3. 1 \in Number /\ "build" \in Stage /\ MaxAttempts \in Nat
  BY LaneAssumption DEF Number, Stage
<1>4. item'["build"] = [at |-> "open", attempts |-> 1, payload |-> payload]
      /\ \A s \in Stage \ {"build"} : item'[s] = item[s]
  BY <1>1, <1>3 DEF LaneShape, Opened
<1>5. \A s \in Stage, k \in Number :
        attempt'[s][k] = IF s = "build" /\ k = 1 THEN Fresh(s) ELSE Nil
  BY <1>1, <1>2, <1>3 DEF LaneShape
<1>6. /\ UNCHANGED <<disk, candidate, expiries>>
      /\ \A s \in Stage \ {"build"} : item'[s].at = "none"
  BY <1>1, <1>2, <1>3, <1>4
<1>7. /\ item'["build"].at = "open" /\ item'["build"].attempts = 1
      /\ item'["build"].payload = payload
  BY <1>4
<1> QED
  BY <1>5, <1>6, <1>7 DEF payload

\* The index is read once, and is the run's.
LEMMA IndexToldStep ==
  ASSUME LaneShape, LaneNext, disk["index"] = config, config' = config,
         NEW s \in Stage, NEW k \in Number, IndexTold(s, k)
  PROVE  IndexTold(s, k)'
<1> DEFINE a == attempt[s][k]
<1> DEFINE b == attempt'[s][k]
<1>1. CASE b \in {Nil, Fresh(s)}
  BY <1>1, FreshShape DEF IndexTold
<1>2. CASE b = a /\ a # Nil
  BY <1>2 DEF IndexTold
<1>3. CASE s = "verifier" /\ b = Rejecting(k)
  BY <1>3, FreshShape DEF IndexTold
<1>4. CASE Advances(s, k)
  <2>1. CASE a.doing # s
    <3>1. b.doing # s
      BY <1>4, <2>1 DEF Advances
    <3> QED
      BY <3>1 DEF IndexTold
  <2>2. CASE a.doing = s
    <3>1. /\ a # Nil /\ b.pc = a.pc + 1 /\ a.pc \in 1..Len(Program[s]) /\ a.pc \in Nat
          /\ Now(s, k) = Program[s][a.pc]
      BY <1>4, <2>2, AgentAt
    <3>2. CASE a.pc = 2
      <4>1. Now(s, k).do = "read" /\ Now(s, k).on = "index"
        <5>1. s # "rejection"
          BY DEF Stage
        <5>2. Program[s][a.pc] = Op("read", "index")
          BY <3>1, <3>2, <5>1, DoIs
        <5> QED
          BY <3>1, <5>2 DEF Op
      <4>2. "index" \in DOMAIN b.seen /\ b.seen["index"] = config
        BY <1>4, <4>1, KnownStep
      <4> QED
        BY <4>2 DEF IndexTold
    <3>3. CASE a.pc > 2
      <4>1. "index" \in DOMAIN a.seen /\ a.seen["index"] = config
        BY <2>2, <3>1, <3>3 DEF IndexTold
      <4>2. ~(Now(s, k).do \in {"read", "write"} /\ Now(s, k).on = "index")
        BY <3>1, <3>3, DoIs
      <4>3. "index" \in DOMAIN b.seen /\ b.seen["index"] = config
        BY <1>4, <4>1, <4>2, KnownStep
      <4> QED
        BY <4>3 DEF IndexTold
    <3>4. CASE a.pc < 2
      <4>1. ~(b.pc > 2)
        BY <3>1, <3>4
      <4> QED
        BY <4>1 DEF IndexTold
    <3> QED
      BY <3>1, <3>2, <3>3, <3>4
  <2> QED
    BY <2>1, <2>2
<1> QED
  BY <1>1, <1>2, <1>3, <1>4, SlotStep

\* What the build verifier, and what the trace analyst, lets pass.
LEMMA BuildToldStep ==
  ASSUME LaneShape, LaneNext, config' = config, NEW k \in Number,
         IndexTold("build", k), BuildTold(k)
  PROVE  BuildTold(k)'
<1> DEFINE a == attempt["build"][k]
<1> DEFINE b == attempt'["build"][k]
<1>0. "build" \in Stage
  BY DEF Stage
<1>1. CASE b \in {Nil, Fresh("build")}
  BY <1>0, <1>1, FreshShape DEF BuildTold
<1>2. CASE b = a /\ a # Nil
  BY <1>2 DEF BuildTold
<1>3. CASE Advances("build", k)
  <2>1. /\ a # Nil /\ a.doing = "build" /\ b.pc = a.pc + 1 /\ a.pc \in 1..4
        /\ Now("build", k) = Program["build"][a.pc]
    BY <1>0, <1>3, AgentAt, BuildOps
  <2>2. CASE a.pc = 3
    <3>1. Now("build", k).do = "gate" /\ Now("build", k).on = "intake"
      BY <2>1, <2>2, BuildOps DEF Op
    <3>2. Passes("intake", a)
      BY <1>3, <3>1 DEF Advances
    <3>3. Intake(a.seen["index"]) /\ a.seen["index"] = config
      BY <2>1, <2>2, <3>2 DEF Passes, IndexTold
    <3> QED
      BY <3>3 DEF BuildTold
  <2>3. CASE a.pc = 4
    BY <2>1, <2>3 DEF BuildTold
  <2>4. CASE a.pc < 3
    <3>1. ~(b.pc > 3)
      BY <2>1, <2>4
    <3> QED
      BY <3>1 DEF BuildTold
  <2> QED
    BY <2>1, <2>2, <2>3, <2>4
<1> QED
  BY <1>0, <1>1, <1>2, <1>3, SlotStep

LEMMA TraceToldStep ==
  ASSUME LaneShape, LaneNext, config' = config, NEW k \in Number,
         IndexTold("trace", k), TraceTold(k)
  PROVE  TraceTold(k)'
<1> DEFINE a == attempt["trace"][k]
<1> DEFINE b == attempt'["trace"][k]
<1>0. "trace" \in Stage
  BY DEF Stage
<1>1. CASE b \in {Nil, Fresh("trace")}
  BY <1>0, <1>1, FreshShape DEF TraceTold
<1>2. CASE b = a /\ a # Nil
  BY <1>2 DEF TraceTold
<1>3. CASE Advances("trace", k)
  <2>1. /\ a # Nil /\ a.doing = "trace" /\ b.pc = a.pc + 1 /\ a.pc \in 1..7
        /\ Now("trace", k) = Program["trace"][a.pc]
    BY <1>0, <1>3, AgentAt, TraceOps
  <2>2. CASE a.pc = 5
    <3>1. Now("trace", k).do = "write" /\ Now("trace", k).on = "trace-policy"
      BY <2>1, <2>2, TraceOps DEF Op
    <3>2. "trace-policy" \in DOMAIN b.seen /\ b.seen["trace-policy"] = Written("trace-policy", a, k)
      BY <1>0, <1>3, <3>1, KnownStep
    <3>3. a.seen["index"] = config
      BY <2>1, <2>2 DEF IndexTold
    <3>4. Written("trace-policy", a, k).failures = Failures(Result[config])
      BY <3>3 DEF Written
    <3> QED
      BY <2>1, <2>2, <3>2, <3>4 DEF TraceTold
  <2>3. CASE a.pc = 6
    <3>1. Now("trace", k).do = "gate" /\ Now("trace", k).on = "policy"
      BY <2>1, <2>3, TraceOps DEF Op
    <3>2. Passes("policy", a) /\ b.seen = a.seen
      BY <1>3, <3>1 DEF Advances
    <3>3. a.seen["trace-policy"].failures = {}
      BY <3>2 DEF Passes
    <3> QED
      BY <2>1, <2>3, <3>2, <3>3 DEF TraceTold
  <2>4. CASE a.pc = 7
    <3>1. Now("trace", k).do = "digest"
      BY <2>1, <2>4, TraceOps DEF Op
    <3>2. b.seen = a.seen
      BY <1>3, <3>1 DEF Advances
    <3> QED
      BY <2>1, <2>4, <3>2 DEF TraceTold
  <2>5. CASE a.pc < 5
    <3>1. ~(b.pc > 5) /\ ~(b.pc > 6)
      BY <2>1, <2>5
    <3> QED
      BY <3>1 DEF TraceTold
  <2> QED
    BY <2>1, <2>2, <2>3, <2>4, <2>5
<1> QED
  BY <1>0, <1>1, <1>2, <1>3, SlotStep

\* A manifest that is written is about the run's build result.
LEMMA DiskTold ==
  ASSUME LaneShape, LaneNext, \A k \in Number : IndexTold("attestation", k),
         disk["manifest"].input = config \/ disk'["manifest"] # disk["manifest"]
  PROVE  disk'["manifest"].input = config
<1>1. ASSUME NEW k \in Number, Advances("attestation", k),
             attempt["attestation"][k].pc = 12,
             disk'["manifest"].input = attempt["attestation"][k].seen["index"]
      PROVE  disk'["manifest"].input = config
  <2>1. attempt["attestation"][k] # Nil /\ attempt["attestation"][k].doing = "attestation"
    BY <1>1, AgentAt, LaneFiles
  <2> QED
    BY <1>1, <2>1 DEF IndexTold
<1> QED
  BY <1>1, ManifestStep

LEMMA AttestationToldStep ==
  ASSUME LaneShape, LaneNext, config' = config, NEW k \in Number,
         \A j \in Number : IndexTold("attestation", j), AttestationTold(k)
  PROVE  AttestationTold(k)'
<1> DEFINE a == attempt["attestation"][k]
<1> DEFINE b == attempt'["attestation"][k]
<1>0. "attestation" \in Stage
  BY DEF Stage
<1>1. CASE b \in {Nil, Fresh("attestation")}
  BY <1>0, <1>1, FreshShape DEF AttestationTold
<1>2. CASE b = a /\ a # Nil
  <2>1. a.pc > 12 => disk'["manifest"].input = config
    BY <1>2, DiskTold DEF AttestationTold
  <2> QED
    BY <1>2, <2>1 DEF AttestationTold
<1>3. CASE Advances("attestation", k)
  <2>1. /\ a # Nil /\ a.doing = "attestation" /\ b.pc = a.pc + 1 /\ a.pc \in 1..19
        /\ Now("attestation", k) = Program["attestation"][a.pc]
    BY <1>0, <1>3, AgentAt, AttestationOps
  <2>2. a.pc > 11 => disk'["manifest"].input = config
    <3>1. CASE a.pc = 12
      <4>1. Now("attestation", k).do = "write" /\ Now("attestation", k).on = "manifest"
        BY <2>1, <3>1, AttestationOps DEF Op
      <4>2. disk'["manifest"] = Written("manifest", a, k)
        BY <1>3, <4>1, LaneFiles DEF Advances
      <4>3. a.seen["index"] = config
        BY <2>1, <3>1 DEF IndexTold
      <4> QED
        BY <4>2, <4>3 DEF Written
    <3>2. CASE a.pc > 12
      BY <2>1, <3>2, DiskTold DEF AttestationTold
    <3> QED
      BY <2>1, <3>1, <3>2
  <2>3. a.pc > 17 => "manifest" \in DOMAIN b.ref /\ b.ref["manifest"].input = config
    <3>1. CASE a.pc = 18
      <4>1. Now("attestation", k).do = "digest" /\ Now("attestation", k).on = "manifest"
        BY <2>1, <3>1, AttestationOps DEF Op
      <4>2. "manifest" \in DOMAIN b.ref /\ b.ref["manifest"] = disk["manifest"]
        BY <1>0, <1>3, <4>1, KnownStep
      <4> QED
        BY <2>1, <3>1, <4>2 DEF AttestationTold
    <3>2. CASE a.pc = 19
      <4>1. Now("attestation", k).on # "manifest"
        BY <2>1, <3>2, AttestationOps DEF Op
      <4>2. "manifest" \in DOMAIN a.ref /\ a.ref["manifest"].input = config
        BY <2>1, <3>2 DEF AttestationTold
      <4>3. "manifest" \in DOMAIN b.ref /\ b.ref["manifest"] = a.ref["manifest"]
        BY <1>0, <1>3, <4>1, <4>2, KnownStep
      <4> QED
        BY <4>2, <4>3
    <3> QED
      BY <2>1, <3>1, <3>2
  <2>4. b.pc = a.pc + 1 /\ a.pc \in Nat
    BY <2>1
  <2> QED
    BY <2>2, <2>3, <2>4 DEF AttestationTold
<1> QED
  BY <1>0, <1>1, <1>2, <1>3, SlotStep

\* What the verifier accepts and records is the run's build result.
LEMMA EvidenceOf ==
  ASSUME NEW m
  PROVE  Evidence(m) = [project |-> Result[m.input].project,
                        artifacts |-> Entries(Result[m.input].artifacts),
                        sboms |-> Result[m.input].sboms,
                        bundles |-> Result[m.input].bundles]
BY DEF Evidence

LEMMA VerifierToldStep ==
  ASSUME LaneShape, LaneNext, config' = config, NEW k \in Number,
         IndexTold("verifier", k), VerifierTold(k), disk["manifest"].input = config
  PROVE  VerifierTold(k)'
<1> DEFINE a == attempt["verifier"][k]
<1> DEFINE b == attempt'["verifier"][k]
<1>0. "verifier" \in Stage
  BY DEF Stage
<1>1. CASE b \in {Nil, Fresh("verifier")}
  BY <1>0, <1>1, FreshShape DEF VerifierTold
<1>2. CASE b = a /\ a # Nil
  BY <1>2 DEF VerifierTold
<1>3. CASE b = Rejecting(k)
  BY <1>0, <1>3, FreshShape DEF VerifierTold
<1>4. CASE Advances("verifier", k) /\ a.doing # "verifier"
  BY <1>4, VerifierAt DEF VerifierTold
<1>5. CASE Advances("verifier", k) /\ a.doing = "verifier"
  <2>1. /\ a # Nil /\ a.doing = "verifier" /\ b.pc = a.pc + 1 /\ a.pc \in 1..13
        /\ Now("verifier", k) = Program["verifier"][a.pc]
    BY <1>0, <1>5, AgentAt, VerifierOps
  <2>2. a.pc > 3 => "manifest" \in DOMAIN b.seen /\ b.seen["manifest"].input = config
    <3>1. CASE a.pc \in {4, 9}
      <4>1. Now("verifier", k).do = "read" /\ Now("verifier", k).on = "manifest"
        BY <2>1, <3>1, VerifierOps DEF Op
      <4>2. "manifest" \in DOMAIN b.seen /\ b.seen["manifest"] = disk["manifest"]
        BY <1>0, <1>5, <4>1, KnownStep
      <4> QED
        BY <4>2
    <3>2. CASE a.pc > 4 /\ a.pc # 9
      <4>1. ~(Now("verifier", k).do \in {"read", "write"} /\ Now("verifier", k).on = "manifest")
        BY <2>1, <3>2, VerifierOps DEF Op
      <4>2. "manifest" \in DOMAIN a.seen /\ a.seen["manifest"].input = config
        BY <2>1, <3>2 DEF VerifierTold
      <4>3. "manifest" \in DOMAIN b.seen /\ b.seen["manifest"] = a.seen["manifest"]
        BY <1>0, <1>5, <4>1, <4>2, KnownStep
      <4> QED
        BY <4>2, <4>3
    <3> QED
      BY <2>1, <3>1, <3>2
  <2>3. a.pc > 4 => "manifest" \in DOMAIN a.seen /\ a.seen["manifest"].input = config
    BY <2>1 DEF VerifierTold
  <2>4. a.pc > 2 => a.seen["index"] = config
    BY <2>1 DEF IndexTold
  <2>5. a.pc > 7 => Accepted(config)
    <3>1. CASE a.pc = 8
      <4>1. Now("verifier", k).do = "require" /\ Now("verifier", k).on = "release"
        BY <2>1, <3>1, VerifierOps DEF Op
      <4>2. Passes("release", a)
        BY <1>5, <4>1 DEF Advances
      <4>3. Accepts(Evidence(a.seen["manifest"]), Result[a.seen["index"]].policy)
        BY <4>2 DEF Passes
      <4>4. a.seen["manifest"].input = config /\ a.seen["index"] = config
        BY <2>3, <2>4, <3>1
      <4>5. Evidence(a.seen["manifest"])
              = [project |-> Result[config].project,
                 artifacts |-> Entries(Result[config].artifacts),
                 sboms |-> Result[config].sboms, bundles |-> Result[config].bundles]
        BY <4>4, EvidenceOf
      <4> QED
        BY <4>3, <4>4, <4>5 DEF Accepted
    <3>2. CASE a.pc > 8
      BY <2>1, <3>2 DEF VerifierTold
    <3> QED
      BY <2>1, <3>1, <3>2
  <2>6. a.pc > 10 => Recorded(config)
    <3>1. CASE a.pc = 11
      <4>1. Now("verifier", k).do = "require" /\ Now("verifier", k).on = "record"
        BY <2>1, <3>1, VerifierOps DEF Op
      <4>2. Passes("record", a)
        BY <1>5, <4>1 DEF Advances
      <4>3. ValidRecord(a)
        BY <4>2 DEF Passes
      <4>4. a.seen["manifest"].input = config /\ a.seen["index"] = config
        BY <2>3, <2>4, <3>1
      <4>5. Evidence(a.seen["manifest"]).artifacts = Entries(Result[config].artifacts)
        BY <4>4, EvidenceOf
      <4> QED
        BY <4>3, <4>4, <4>5 DEF ValidRecord, Recorded
    <3>2. CASE a.pc > 11
      BY <2>1, <3>2 DEF VerifierTold
    <3> QED
      BY <2>1, <3>1, <3>2
  <2>7. b.pc = a.pc + 1 /\ a.pc \in Nat
    BY <2>1
  <2>8. Accepted(config)' = Accepted(config) /\ Recorded(config)' = Recorded(config)
    BY DEF Accepted, Recorded
  <2> QED
    BY <2>2, <2>5, <2>6, <2>7, <2>8 DEF VerifierTold
<1> QED
  BY <1>0, <1>1, <1>2, <1>3, <1>4, <1>5, SlotStep

\* What the governor evaluates is the run's build result.
LEMMA GovernorToldStep ==
  ASSUME LaneShape, LaneNext, config' = config, NEW k \in Number,
         IndexTold("governor", k), GovernorTold(k)
  PROVE  GovernorTold(k)'
<1> DEFINE a == attempt["governor"][k]
<1> DEFINE b == attempt'["governor"][k]
<1>0. "governor" \in Stage
  BY DEF Stage
<1>1. CASE b \in {Nil, Fresh("governor")}
  BY <1>0, <1>1, FreshShape DEF GovernorTold
<1>2. CASE b = a /\ a # Nil
  BY <1>2 DEF GovernorTold
<1>3. CASE Advances("governor", k)
  <2>1. /\ a # Nil /\ a.doing = "governor" /\ b.pc = a.pc + 1 /\ a.pc \in 1..13
        /\ Now("governor", k) = Program["governor"][a.pc]
    BY <1>0, <1>3, AgentAt, GovernorOps
  <2>2. CASE a.pc = 11
    <3>1. Now("governor", k).do = "write" /\ Now("governor", k).on = "evaluation"
      BY <2>1, <2>2, GovernorOps DEF Op
    <3>2. "evaluation" \in DOMAIN b.seen /\ b.seen["evaluation"] = Written("evaluation", a, k)
      BY <1>0, <1>3, <3>1, KnownStep
    <3>3. a.seen["index"] = config
      BY <2>1, <2>2 DEF IndexTold
    <3>4. Written("evaluation", a, k).passed = CandidateShape(a.seen)
      BY DEF Written
    <3>5. CandidateShape(a.seen) => Result[config].tooling /\ Result[config].risk
      BY <3>3 DEF CandidateShape
    <3> QED
      BY <2>1, <2>2, <3>2, <3>4, <3>5 DEF GovernorTold
  <2>3. CASE a.pc = 12
    <3>1. Now("governor", k).do = "gate" /\ Now("governor", k).on = "candidate"
      BY <2>1, <2>3, GovernorOps DEF Op
    <3>2. Passes("candidate", a) /\ b.seen = a.seen
      BY <1>3, <3>1 DEF Advances
    <3>3. a.seen["evaluation"].passed
      BY <3>2 DEF Passes
    <3> QED
      BY <2>1, <2>3, <3>2, <3>3 DEF GovernorTold
  <2>4. CASE a.pc = 13
    <3>1. Now("governor", k).do = "digest"
      BY <2>1, <2>4, GovernorOps DEF Op
    <3>2. b.seen = a.seen
      BY <1>3, <3>1 DEF Advances
    <3> QED
      BY <2>1, <2>4, <3>2 DEF GovernorTold
  <2>5. CASE a.pc < 11
    <3>1. ~(b.pc > 11) /\ ~(b.pc > 12)
      BY <2>1, <2>5
    <3> QED
      BY <3>1 DEF GovernorTold
  <2> QED
    BY <2>1, <2>2, <2>3, <2>4, <2>5
<1> QED
  BY <1>0, <1>1, <1>2, <1>3, SlotStep

\* An item that is opened comes with what the agent before it has found out.
LEMMA OpenedStep ==
  ASSUME LaneShape, LaneNext, NEW t \in Stage \ {"build"},
         item'[t].at # "none", item[t].at = "none"
  PROVE  \E s \in Stage, k \in Number : Hands(s, k) /\ After[s] = t
BY PayloadStep

LEMMA HandsAt ==
  ASSUME LaneShape, NEW s \in Stage, NEW k \in Number, Hands(s, k)
  PROVE  /\ attempt[s][k] # Nil /\ attempt[s][k].doing = s
         /\ attempt[s][k].pc \in Nat /\ attempt[s][k].pc > Len(Program[s])
         /\ item[s].at = "open" /\ s \in DOMAIN After
BY AttemptNumbers DEF Hands, Current

LEMMA EventsTellStep ==
  ASSUME LaneShape, LaneNext, ManifestsAreSpent, config' = config,
         AttemptsTell, EventsTell
  PROVE  EventsTell'
<1>0. {"trace", "attestation", "verifier", "governor"} \subseteq Stage \ {"build"}
      /\ "build" \in Stage
  BY DEF Stage
<1>1. item'["trace"].at # "none" => Intake(config)
  <2>1. ASSUME NEW s \in Stage, NEW k \in Number, Hands(s, k), After[s] = "trace"
        PROVE  Intake(config)
    <3>1. s = "build"
      BY <2>1, HandsAt, HandsOver
    <3>2. attempt["build"][k] # Nil /\ attempt["build"][k].pc > 3
      BY <2>1, <3>1, HandsAt, BuildOps
    <3> QED
      BY <3>2 DEF AttemptsTell, BuildTold
  <2> QED
    BY <1>0, <2>1, OpenedStep DEF EventsTell
<1>2. item'["attestation"].at # "none" => Failures(Result[config]) = {}
  <2>1. ASSUME NEW s \in Stage, NEW k \in Number, Hands(s, k), After[s] = "attestation"
        PROVE  Failures(Result[config]) = {}
    <3>1. s = "trace"
      BY <2>1, HandsAt, HandsOver
    <3>2. attempt["trace"][k] # Nil /\ attempt["trace"][k].pc > 6
      BY <2>1, <3>1, HandsAt, TraceOps
    <3> QED
      BY <3>2 DEF AttemptsTell, TraceTold
  <2> QED
    BY <1>0, <2>1, OpenedStep DEF EventsTell
<1>3. item'["verifier"].at # "none" =>
        disk'["manifest"].input = config /\ Handed("verifier")'.input = config
  <2>1. ASSUME NEW s \in Stage, NEW k \in Number, Hands(s, k), After[s] = "verifier"
        PROVE  disk["manifest"].input = config /\ Handed("verifier")'.input = config
    <3>1. s = "attestation"
      BY <2>1, HandsAt, HandsOver
    <3>2. /\ attempt["attestation"][k] # Nil /\ attempt["attestation"][k].pc \in Nat
          /\ attempt["attestation"][k].pc > 19
      BY <2>1, <3>1, HandsAt, AttestationOps
    <3>3. /\ disk["manifest"].input = config
          /\ attempt["attestation"][k].ref["manifest"].input = config
      BY <3>2 DEF AttemptsTell, AttestationTold
    <3>4. "manifest" \in Outputs["attestation"]
      BY HandsOver, StageAfter, <3>1, <2>1, HandsAt
    <3>5. Handed("verifier")' = attempt["attestation"][k].ref["manifest"]
      BY <2>1, <3>1, <3>4 DEF Hands, Handed
    <3> QED
      BY <3>3, <3>5
  <2>2. item'["verifier"].at # "none" /\ item["verifier"].at # "none" =>
          disk["manifest"].input = config /\ Handed("verifier")'.input = config
    BY VerifierEvent DEF EventsTell
  <2>3. item'["verifier"].at # "none" =>
          disk["manifest"].input = config /\ Handed("verifier")'.input = config
    BY <1>0, <2>1, <2>2, OpenedStep
  <2> QED
    BY <2>3, DiskTold, LaneFiles DEF AttemptsTell
<1>4. item'["governor"].at # "none" => Accepted(config) /\ Recorded(config)
  <2>1. ASSUME NEW s \in Stage, NEW k \in Number, Hands(s, k), After[s] = "governor"
        PROVE  Accepted(config) /\ Recorded(config)
    <3>1. s = "verifier"
      BY <2>1, HandsAt, HandsOver
    <3>2. /\ attempt["verifier"][k] # Nil /\ attempt["verifier"][k].pc \in Nat
          /\ attempt["verifier"][k].pc > 13 /\ attempt["verifier"][k].doing = "verifier"
      BY <2>1, <3>1, HandsAt, VerifierOps
    <3> QED
      BY <3>2 DEF AttemptsTell, VerifierTold
  <2> QED
    BY <1>0, <2>1, OpenedStep DEF EventsTell
<1> QED
  BY <1>1, <1>2, <1>3, <1>4 DEF EventsTell, Handed, Accepted, Recorded

\* An agent works once all before it are done.
LEMMA AllBefore ==
  ASSUME LaneShape, item["governor"].at # "none"
  PROVE  \A s \in Stage : item[s].at # "none"
<1>1. /\ After["verifier"] = "governor" /\ After["attestation"] = "verifier"
      /\ After["trace"] = "attestation" /\ After["build"] = "trace"
      /\ {"verifier", "attestation", "trace", "build"} \subseteq DOMAIN After
  BY DEF After
<1>2. \A s \in DOMAIN After : item[After[s]].at # "none" => item[s].at = "done"
  BY DEF LaneShape
<1>3. item["verifier"].at = "done"
  BY <1>1, <1>2
<1>4. item["attestation"].at = "done"
  BY <1>1, <1>2, <1>3
<1>5. item["trace"].at = "done"
  BY <1>1, <1>2, <1>4
<1>6. item["build"].at = "done"
  BY <1>1, <1>2, <1>5
<1> QED
  BY <1>3, <1>4, <1>5, <1>6 DEF Stage

LEMMA AttemptsTellStep ==
  ASSUME LaneShape, LaneNext, disk["index"] = config, config' = config,
         AttemptsTell, EventsTell
  PROVE  AttemptsTell'
<1> SUFFICES ASSUME NEW k \in Number
             PROVE  /\ \A s \in Stage : IndexTold(s, k)'
                    /\ BuildTold(k)' /\ TraceTold(k)' /\ AttestationTold(k)'
                    /\ VerifierTold(k)' /\ GovernorTold(k)'
  BY DEF AttemptsTell
<1>1. \A s \in Stage : IndexTold(s, k)'
  BY IndexToldStep DEF AttemptsTell
<1>2. {"build", "trace", "attestation", "verifier", "governor"} \subseteq Stage
  BY DEF Stage
<1>3. BuildTold(k)' /\ TraceTold(k)'
  BY <1>2, BuildToldStep, TraceToldStep DEF AttemptsTell
<1>4. AttestationTold(k)' /\ GovernorTold(k)'
  BY <1>2, AttestationToldStep, GovernorToldStep DEF AttemptsTell
<1>5. VerifierTold(k)'
  <2>1. CASE item["verifier"].at # "none"
    BY <1>2, <2>1, VerifierToldStep DEF AttemptsTell, EventsTell
  <2>2. CASE item["verifier"].at = "none"
    <3>1. attempt["verifier"][k] = Nil
      BY <1>2, <2>2, AttemptNumbers
    <3>2. attempt'["verifier"][k] \in {Nil, Fresh("verifier"), Rejecting(k)}
      BY <1>2, <3>1, SlotStep DEF Advances
    <3> QED
      BY <1>2, <3>2, FreshShape DEF VerifierTold
  <2> QED
    BY <2>1, <2>2
<1> QED
  BY <1>1, <1>3, <1>4, <1>5

\* A candidate is of the run's build result, which has everything it takes.
LEMMA NamedIsFit ==
  ASSUME LaneShape, ManifestsAreSpent, AttemptsTell, EventsTell,
         NEW k \in Number, Names(k)
  PROVE  candidate'.input = config /\ Fit(config)
<1> DEFINE a == attempt["governor"][k]
<1>1. /\ a # Nil /\ a.pc > Len(Program[a.doing])
      /\ candidate' = Handed("governor") /\ item["governor"].at # "none"
  BY DEF Names, Done, Working, Handed
<1>2. a.doing = "governor" /\ a.pc \in Nat
  BY <1>1, LaneFiles DEF LaneShape, AttemptShape
<1>3. Result[config].tooling /\ Result[config].risk
  BY <1>1, <1>2, GovernorOps DEF AttemptsTell, GovernorTold
<1>4. /\ item["trace"].at # "none" /\ item["attestation"].at # "none"
      /\ item["verifier"].at # "none"
  BY <1>1, AllBefore DEF Stage
<1>5. /\ Intake(config) /\ Failures(Result[config]) = {}
      /\ Accepted(config) /\ Recorded(config) /\ Handed("verifier").input = config
  BY <1>1, <1>4 DEF EventsTell
<1>6. Handed("governor") = Handed("verifier")
  BY <1>1 DEF ManifestsAreSpent
<1>7. Result[config].mode # "fixture"
  BY <1>5 DEF Intake, Recorded
<1> QED
  BY <1>1, <1>3, <1>5, <1>6, <1>7 DEF Fit, Accepted, Recorded

LEMMA DecisionStep ==
  ASSUME LaneShape, LaneNext, ManifestsAreSpent, DecisionInvariant
  PROVE  DecisionInvariant'
<1>1. candidate' # Nil => item'["governor"].at # "none"
  <2>1. "governor" \in Stage \ {"build"}
    BY DEF Stage
  <2>2. item["governor"].at # "none" => item'["governor"].at # "none"
    <3>1. ASSUME NEW s \in Stage, NEW k \in Number, Hands(s, k), After[s] = "governor"
          PROVE  item'["governor"].at # "none"
      BY <3>1 DEF Hands
    <3> QED
      BY <2>1, <3>1, PayloadStep
  <2>3. candidate' = candidate \/ item["governor"].at # "none"
    BY StepIs DEF Advances, Hands, Names
  <2> QED
    BY <2>2, <2>3 DEF DecisionInvariant
<1> SUFFICES ASSUME Calm'
             PROVE  /\ disk'["index"] = config'
                    /\ AttemptsTell' /\ EventsTell'
                    /\ candidate' # Nil => candidate'.input = config' /\ Fit(config')
  BY <1>1 DEF DecisionInvariant
<1>2. CASE /\ config # Nil /\ config' = config /\ Calm
           /\ disk'["index"] = disk["index"] \/ disk'["index"] = config
  <2>1. /\ disk["index"] = config /\ AttemptsTell /\ EventsTell
        /\ candidate # Nil => candidate.input = config /\ Fit(config)
    BY <1>2 DEF DecisionInvariant
  <2>2. AttemptsTell' /\ EventsTell'
    BY <1>2, <2>1, AttemptsTellStep, EventsTellStep
  <2>3. candidate' # Nil => candidate'.input = config /\ Fit(config)
    <3>1. candidate' = candidate \/ \E k \in Number : Names(k)
      BY StepIs DEF Advances, Hands
    <3> QED
      BY <2>1, <3>1, NamedIsFit
  <2> QED
    BY <1>2, <2>1, <2>2, <2>3
<1>3. ASSUME config = Nil, config' = disk["index"], disk' = disk,
             NEW c \in Starter, Pin(c)
      PROVE  /\ disk'["index"] = config'
             /\ AttemptsTell' /\ EventsTell'
             /\ candidate' # Nil => candidate'.input = config' /\ Fit(config')
  <2>1. /\ candidate' = candidate
        /\ \A s \in Stage \ {"build"} : item'[s].at = "none"
        /\ \A s \in Stage, k \in Number : attempt'[s][k] \in {Nil, Fresh(s)}
    BY <1>3, BeginsIs
  <2>2. {"trace", "attestation", "verifier", "governor"} \subseteq Stage \ {"build"}
        /\ "build" \in Stage
    BY DEF Stage
  <2>3. candidate' = Nil
    <3>1. item["governor"].at = "none"
      BY <1>3, <2>2 DEF LaneShape
    <3> QED
      BY <2>1, <3>1 DEF DecisionInvariant
  <2>4. EventsTell'
    BY <2>1, <2>2 DEF EventsTell
  <2>5. \A k \in Number, s \in Stage : IndexTold(s, k)'
    BY <2>1, FreshShape DEF IndexTold
  <2>6. \A k \in Number : BuildTold(k)' /\ TraceTold(k)'
    BY <2>1, <2>2, FreshShape DEF BuildTold, TraceTold
  <2>7. \A k \in Number : AttestationTold(k)' /\ GovernorTold(k)'
    BY <2>1, <2>2, FreshShape DEF AttestationTold, GovernorTold
  <2>8. \A k \in Number : VerifierTold(k)'
    BY <2>1, <2>2, FreshShape DEF VerifierTold
  <2> QED
    BY <1>3, <2>3, <2>4, <2>5, <2>6, <2>7, <2>8 DEF AttemptsTell
<1> QED
  BY <1>2, <1>3, CalmStep

LEMMA DecisionInit == LaneInit => DecisionInvariant
BY DEF LaneInit, DecisionInvariant, Calm

LEMMA DecisionStutter == DecisionInvariant /\ UNCHANGED laneVars => DecisionInvariant'
<1> SUFFICES ASSUME DecisionInvariant, UNCHANGED laneVars PROVE DecisionInvariant'
  OBVIOUS
<1>1. UNCHANGED <<starter, config, disk, item, attempt, candidate>>
  BY DEF laneVars
<1>2. Calm' = Calm /\ EventsTell' = EventsTell
  BY <1>1 DEF Calm, Alone, EventsTell, Handed
<1>3. AttemptsTell' = AttemptsTell
  BY <1>1 DEF AttemptsTell, IndexTold, BuildTold, TraceTold, AttestationTold,
              VerifierTold, GovernorTold, Accepted, Recorded
<1> QED
  BY <1>1, <1>2, <1>3 DEF DecisionInvariant

-----------------------------------------------------------------------------
\* One agent works at a time.
LEMMA OneOpen ==
  ASSUME LaneShape, NEW s \in Stage, NEW t \in Stage,
         item[s].at = "open", item[t].at = "open"
  PROVE  s = t
<1>1. /\ item["governor"].at # "none" => item["verifier"].at = "done"
      /\ item["verifier"].at # "none" => item["attestation"].at = "done"
      /\ item["attestation"].at # "none" => item["trace"].at = "done"
      /\ item["trace"].at # "none" => item["build"].at = "done"
  <2>1. /\ After["verifier"] = "governor" /\ After["attestation"] = "verifier"
        /\ After["trace"] = "attestation" /\ After["build"] = "trace"
        /\ {"verifier", "attestation", "trace", "build"} \subseteq DOMAIN After
    BY DEF After
  <2> QED
    BY <2>1 DEF LaneShape
<1> QED
  BY <1>1 DEF Stage

LEMMA SeenHolds ==
  ASSUME LaneShape, NEW s \in Stage, NEW k \in Number, NEW g \in LaneFile,
         Advances(s, k),
         \/ Holds(attempt[s][k].seen, g)
         \/ Now(s, k).do \in {"read", "write"} /\ Now(s, k).on = g,
         g # "availability" \/ Now(s, k).do # "require"
  PROVE  Holds(attempt[s][k].seen, g)'
<1>1. disk'[g] = IF Now(s, k).do = "write" /\ g = Now(s, k).on
                 THEN Written(Now(s, k).on, attempt[s][k], k) ELSE disk[g]
  BY DEF Advances
<1> QED
  BY <1>1, KnownStep DEF Holds

LEMMA RefHolds ==
  ASSUME LaneShape, NEW s \in Stage, NEW k \in Number, NEW g \in LaneFile,
         Advances(s, k),
         \/ Holds(attempt[s][k].ref, g)
         \/ Now(s, k).do = "digest" /\ Now(s, k).on = g,
         ~(Now(s, k).do = "write" /\ Now(s, k).on = g)
  PROVE  Holds(attempt[s][k].ref, g)'
<1>1. disk'[g] = disk[g]
  BY DEF Advances
<1> QED
  BY <1>1, KnownStep DEF Holds

\* What an agent does not write.
LEMMA DiskStep ==
  ASSUME LaneShape, NEW s \in Stage, NEW k \in Number, Advances(s, k),
         attempt[s][k].doing = s
  PROVE  LET n == attempt[s][k].pc
         IN  /\ disk'["index"] = disk["index"]
             /\ s # "trace" \/ n # 3 => disk'["normalized"] = disk["normalized"]
             /\ s # "trace" \/ n # 5 => disk'["trace-policy"] = disk["trace-policy"]
             /\ s # "attestation" \/ n # 8 => disk'["statement"] = disk["statement"]
             /\ s # "attestation" \/ n # 12 => disk'["manifest"] = disk["manifest"]
             /\ s # "attestation" \/ n # 16 =>
                  disk'["verification"] = disk["verification"]
             /\ s # "verifier" \/ n # 12 =>
                  disk'["availability"] = disk["availability"]
<1> DEFINE n == attempt[s][k].pc
<1> DEFINE f == Now(s, k).on
<1>1. \A g \in LaneFile : disk'[g] # disk[g] => Now(s, k).do = "write" /\ f = g
  BY DEF Advances
<1>2. /\ n \in 1..Len(Program[s]) /\ Now(s, k) = Program[s][n]
  BY AgentAt
<1>3. Now(s, k).do = "write" =>
        /\ f # "index"
        /\ f = "manifest" => s = "attestation" /\ n = 12
        /\ f = "availability" => s = "verifier" /\ n = 12
        /\ f = "normalized" => s = "trace" /\ n = 3
        /\ f = "trace-policy" => s = "trace" /\ n = 5
        /\ f = "statement" => s = "attestation" /\ n = 8
        /\ f = "verification" => s = "attestation" /\ n = 16
  <2>1. s # "rejection"
    BY DEF Stage
  <2> QED
    BY <1>2, <2>1, WritesIs
<1> HIDE DEF n, f
<1>4. \A g \in {"index", "normalized", "trace-policy", "statement", "manifest",
                "verification", "availability"} : g \in LaneFile
  BY DEF LaneFile
<1> QED
  BY <1>1, <1>3, <1>4 DEF n

\* An agent compares what its event names.
LEMMA ComparesCarried ==
  ASSUME NEW s \in Stage, NEW n \in 1..Len(Program[s]),
         Program[s][n].do = "compare"
  PROVE  Program[s][n].on \in Carried[s]
<1>1. CASE s = "build"
  <2>1. n \in 1..4
    BY <1>1, BuildOps
  <2> QED
    BY <1>1, <2>1, BuildOps DEF Op, Carried
<1>2. CASE s = "trace"
  <2>1. n \in 1..7
    BY <1>2, TraceOps
  <2> QED
    BY <1>2, <2>1, TraceOps DEF Op, Carried
<1>3. CASE s = "attestation"
  <2>1. n \in 1..19
    BY <1>3, AttestationOps
  <2>2. n = 1 \/ n = 3 \/ n = 6
    BY <1>3, <2>1, AttestationOps DEF Op
  <2> QED
    BY <1>3, <2>2, AttestationOps DEF Op, Carried
<1>4. CASE s = "verifier"
  <2>1. n \in 1..13
    BY <1>4, VerifierOps
  <2>2. n = 1 \/ n = 3
    BY <1>4, <2>1, VerifierOps DEF Op
  <2> QED
    BY <1>4, <2>2, VerifierOps DEF Op, Carried
<1>5. CASE s = "governor"
  <2>1. n \in 1..13
    BY <1>5, GovernorOps
  <2>2. n = 1 \/ n = 3 \/ n = 5 \/ n = 7 \/ n = 9
    BY <1>5, <2>1, GovernorOps DEF Op
  <2> QED
    BY <1>5, <2>2, GovernorOps DEF Op, Carried
<1> QED
  BY <1>1, <1>2, <1>3, <1>4, <1>5 DEF Stage

\* Which decisions there are.
LEMMA DecisionsAre ==
  ASSUME NEW s \in Stage, NEW n \in 1..Len(Program[s]),
         Program[s][n].do \in {"gate", "require"}
  PROVE  \/ s = "build" /\ n = 3 /\ Program[s][n].on = "intake"
         \/ s = "trace" /\ n = 6 /\ Program[s][n].on = "policy"
         \/ s = "attestation" /\ n = 5 /\ Program[s][n].on = "policy"
         \/ s = "attestation" /\ n = 17 /\ Program[s][n].on = "manifest"
         \/ s = "verifier" /\ n = 8 /\ Program[s][n].on = "release"
         \/ s = "verifier" /\ n = 11 /\ Program[s][n].on = "record"
         \/ s = "governor" /\ n = 12 /\ Program[s][n].on = "candidate"
<1>1. CASE s = "build"
  <2>1. n \in 1..4
    BY <1>1, BuildOps
  <2> QED
    BY <1>1, <2>1, BuildOps DEF Op
<1>2. CASE s = "trace"
  <2>1. n \in 1..7
    BY <1>2, TraceOps
  <2> QED
    BY <1>2, <2>1, TraceOps DEF Op
<1>3. CASE s = "attestation"
  <2>1. n \in 1..19
    BY <1>3, AttestationOps
  <2>2. n = 5 \/ n = 17
    BY <1>3, <2>1, AttestationOps DEF Op
  <2> QED
    BY <1>3, <2>2, AttestationOps DEF Op
<1>4. CASE s = "verifier"
  <2>1. n \in 1..13
    BY <1>4, VerifierOps
  <2>2. n = 8 \/ n = 11
    BY <1>4, <2>1, VerifierOps DEF Op
  <2> QED
    BY <1>4, <2>2, VerifierOps DEF Op
<1>5. CASE s = "governor"
  <2>1. n \in 1..13
    BY <1>5, GovernorOps
  <2> QED
    BY <1>5, <2>1, GovernorOps DEF Op
<1> QED
  BY <1>1, <1>2, <1>3, <1>4, <1>5 DEF Stage

-----------------------------------------------------------------------------
\* A fit build result passes every decision of an undisturbed lane.
LEMMA FilesOf ==
  {"index", "normalized", "trace-policy", "statement", "manifest", "verification",
   "availability", "evaluation"} \subseteq LaneFile
BY DEF LaneFile

LEMMA IntakePasses ==
  ASSUME LaneShape, NEW k \in Number, NEW n, n = 3, Fit(config), IndexTold("build", k),
         attempt["build"][k] # Nil, attempt["build"][k].doing = "build",
         attempt["build"][k].pc = n
  PROVE  Passes("intake", attempt["build"][k])
BY DEF IndexTold, Fit, Passes

LEMMA TracePolicyPasses ==
  ASSUME NEW k \in Number, NEW n, n = 6, Fit(config), TraceTold(k),
         attempt["trace"][k] # Nil, attempt["trace"][k].pc = n
  PROVE  Passes("policy", attempt["trace"][k])
BY DEF TraceTold, Fit, Passes

LEMMA RetainedPolicyPasses ==
  ASSUME NEW a, AttestationSteady(a), a.pc = 5, disk["trace-policy"].failures = {}
  PROVE  Passes("policy", a)
BY DEF AttestationSteady, Holds, Passes

LEMMA ManifestPasses ==
  ASSUME NEW a, AttestationSteady(a), a.pc = 17
  PROVE  Passes("manifest", a)
BY DEF AttestationSteady, Holds, Passes

LEMMA ReleasePasses ==
  ASSUME NEW k \in Number, NEW a, a = attempt["verifier"][k], a # Nil,
         a.doing = "verifier", a.pc = 8, Fit(config),
         IndexTold("verifier", k), VerifierTold(k), VerifierSteady(a), Listed
  PROVE  Passes("release", a)
<1>1. a.seen["index"] = config /\ a.seen["manifest"].input = config
  BY DEF IndexTold, VerifierTold
<1>2. /\ a.seen["manifest"] = disk["manifest"] /\ a.ref["statement"] = disk["statement"]
      /\ a.ref["normalized"] = disk["normalized"]
      /\ a.ref["trace-policy"] = disk["trace-policy"]
  BY DEF VerifierSteady, Holds
<1>3. Unchanged(a.seen["manifest"], a.ref)
  BY <1>2 DEF Unchanged, Listed
<1>4. Accepted(config)
  BY DEF Fit, Accepted
<1>5. Evidence(a.seen["manifest"])
        = [project |-> Result[config].project,
           artifacts |-> Entries(Result[config].artifacts),
           sboms |-> Result[config].sboms, bundles |-> Result[config].bundles]
  BY <1>1, EvidenceOf
<1>6. Accepts(Evidence(a.seen["manifest"]), Result[a.seen["index"]].policy)
  BY <1>1, <1>4, <1>5 DEF Accepted
<1> QED
  BY <1>3, <1>6 DEF Passes

LEMMA RecordPasses ==
  ASSUME NEW k \in Number, NEW a, a = attempt["verifier"][k], a # Nil,
         a.doing = "verifier", a.pc = 11, Fit(config),
         IndexTold("verifier", k), VerifierTold(k), VerifierSteady(a)
  PROVE  Passes("record", a)
<1>1. a.seen["index"] = config /\ a.seen["manifest"].input = config
  BY DEF IndexTold, VerifierTold
<1>2. /\ a.seen["manifest"] = disk["manifest"] /\ a.ref["manifest"] = disk["manifest"]
      /\ a.seen["availability"] = Verification(disk["manifest"], 1)
  BY DEF VerifierSteady, Holds
<1>3. Evidence(a.seen["manifest"]).artifacts = Entries(Result[config].artifacts)
  BY <1>1, EvidenceOf
<1>4. /\ a.seen["availability"].evidence = a.ref["manifest"]
      /\ a.seen["availability"].project = Result[config].project
      /\ a.seen["availability"].subjects
           = {e.digest : e \in ToSet(Entries(Result[config].artifacts))}
  BY <1>1, <1>2 DEF Verification
<1>5. /\ Entries(Result[config].artifacts) # <<>>
      /\ Cardinality({e.digest : e \in ToSet(Entries(Result[config].artifacts))})
           = Len(Entries(Result[config].artifacts))
      /\ Result[config].mode # "fixture"
  BY DEF Fit, Accepts
<1>6. ValidRecord(a)
  BY <1>1, <1>3, <1>4, <1>5 DEF ValidRecord
<1> QED
  BY <1>6 DEF Passes

LEMMA CandidatePasses ==
  ASSUME NEW a, GovernorSteady(a), a.pc = 12
  PROVE  Passes("candidate", a)
BY DEF GovernorSteady, Passes

\* What the governor writes of a fit build result.
LEMMA EvaluationPasses ==
  ASSUME NEW k \in Number, NEW a, a = attempt["governor"][k], a # Nil,
         a.doing = "governor", a.pc = 11, Fit(config),
         IndexTold("governor", k), GovernorSteady(a), disk["manifest"].input = config,
         disk["verification"].ok,
         disk["availability"] = Verification(disk["manifest"], 1)
  PROVE  CandidateShape(a.seen)
<1>1. a.seen["index"] = config
  BY DEF IndexTold
<1>2. /\ a.seen["manifest"] = disk["manifest"] /\ a.seen["verification"].ok
      /\ a.seen["availability"] = Verification(disk["manifest"], 1)
  BY DEF GovernorSteady, Holds
<1> DEFINE e == Evidence(a.seen["manifest"])
<1>3. /\ e.artifacts = Entries(Result[config].artifacts)
      /\ e.sboms = Result[config].sboms /\ e.bundles = Result[config].bundles
  BY <1>2, EvidenceOf
<1>4. /\ a.seen["availability"].status = "verified"
      /\ a.seen["availability"].subjects
           = {d.digest : d \in ToSet(Entries(Result[config].artifacts))}
  BY <1>2 DEF Verification
<1>5. /\ Entries(Result[config].artifacts) # <<>>
      /\ Result[config].sboms # <<>> /\ Result[config].bundles # <<>>
      /\ Result[config].tooling /\ Result[config].risk
  BY DEF Fit, Accepts, Intake
<1> HIDE DEF e
<1>6. {d.digest : d \in ToSet(e.artifacts)} \subseteq a.seen["availability"].subjects
  BY <1>3, <1>4
<1> QED
  BY <1>1, <1>2, <1>3, <1>4, <1>5, <1>6 DEF CandidateShape, e

-----------------------------------------------------------------------------
(* Each agent leaves the files as its attempt knows them.                   *)

LEMMA BuildSteadyStep ==
  ASSUME LaneShape, NEW k \in Number, Advances("build", k),
         attempt["build"][k].doing = "build"
  PROVE  attempt'["build"][k].pc > 4 => Holds(attempt["build"][k].ref, "index")'
<1>0. "build" \in Stage /\ "index" \in LaneFile
  BY DEF Stage, LaneFile
<1> DEFINE a == attempt["build"][k]
<1>1. /\ attempt'["build"][k].pc = a.pc + 1 /\ a.pc \in 1..4
      /\ Now("build", k) = Program["build"][a.pc]
  BY <1>0, AgentAt, BuildOps
<1>2. CASE a.pc = 4
  <2>1. Now("build", k).do = "digest" /\ Now("build", k).on = "index"
    BY <1>1, <1>2, BuildOps DEF Op
  <2> QED
    BY <1>0, <2>1, RefHolds
<1> QED
  BY <1>1, <1>2

LEMMA TraceSteadyStep ==
  ASSUME LaneShape, NEW k \in Number, Advances("trace", k),
         attempt["trace"][k].doing = "trace", TraceSteady(attempt["trace"][k]),
         IndexTold("trace", k), Fit(config)
  PROVE  TraceSteady(attempt["trace"][k])'
<1>0. "trace" \in Stage
  BY DEF Stage
<1> DEFINE a == attempt["trace"][k]
<1> DEFINE b == attempt'["trace"][k]
<1> DEFINE do == Now("trace", k).do
<1> DEFINE f == Now("trace", k).on
<1>1. /\ a # Nil /\ b.pc = a.pc + 1 /\ a.pc \in 1..7
      /\ Now("trace", k) = Program["trace"][a.pc]
  BY <1>0, AgentAt, TraceOps
<1>2. /\ a.pc = 4 => do = "digest" /\ f = "normalized"
      /\ a.pc = 5 => do = "write" /\ f = "trace-policy"
      /\ a.pc = 7 => do = "digest" /\ f = "trace-policy"
      /\ do = "write" /\ f = "normalized" => a.pc = 3
  BY <1>1, TraceOps DEF Op
<1>3. a.pc > 3 => Holds(a.ref, "normalized")'
  <2>1. a.pc > 4 => Holds(a.ref, "normalized")
    BY DEF TraceSteady
  <2> QED
    BY <1>0, <1>1, <1>2, <2>1, FilesOf, RefHolds
<1>4. a.pc > 4 => disk'["trace-policy"].failures = {}
  <2>1. CASE a.pc = 5
    <3>1. disk'["trace-policy"] = Written("trace-policy", a, k)
      BY <1>2, <2>1, FilesOf DEF Advances
    <3>2. Written("trace-policy", a, k).failures = Failures(Result[config])
      BY <1>1, <2>1 DEF Written, IndexTold
    <3> QED
      BY <3>1, <3>2 DEF Fit
  <2>2. CASE a.pc > 5
    BY <1>0, <2>2, DiskStep DEF TraceSteady
  <2> QED
    BY <1>1, <2>1, <2>2
<1>5. a.pc > 6 => Holds(a.ref, "trace-policy")'
  <2>1. CASE a.pc = 7
    BY <1>0, <1>2, <2>1, FilesOf, RefHolds
  <2> QED
    BY <1>1, <2>1
<1>6. b.pc = a.pc + 1 /\ a.pc \in Nat
  BY <1>1
<1> QED
  BY <1>3, <1>4, <1>5, <1>6 DEF TraceSteady

LEMMA AttestationSteadyStep ==
  ASSUME LaneShape, NEW k \in Number, Advances("attestation", k),
         attempt["attestation"][k].doing = "attestation",
         AttestationSteady(attempt["attestation"][k])
  PROVE  AttestationSteady(attempt["attestation"][k])'
<1>0. "attestation" \in Stage
  BY DEF Stage
<1> DEFINE a == attempt["attestation"][k]
<1> DEFINE b == attempt'["attestation"][k]
<1> DEFINE do == Now("attestation", k).do
<1> DEFINE f == Now("attestation", k).on
<1>1. /\ a # Nil /\ b.pc = a.pc + 1 /\ a.pc \in 1..19
      /\ Now("attestation", k) = Program["attestation"][a.pc]
  BY <1>0, AgentAt, AttestationOps
<1>2. /\ a.pc = 4 => do = "read" /\ f = "trace-policy"
      /\ a.pc = 9 => do = "digest" /\ f = "statement"
      /\ a.pc = 10 => do = "digest" /\ f = "normalized"
      /\ a.pc = 11 => do = "digest" /\ f = "trace-policy"
      /\ a.pc = 12 => do = "write" /\ f = "manifest"
      /\ a.pc = 16 => do = "write" /\ f = "verification"
      /\ a.pc = 18 => do = "digest" /\ f = "manifest"
      /\ a.pc = 19 => do = "digest" /\ f = "verification"
  BY <1>1, AttestationOps DEF Op
<1>3. do = "write" => /\ f \notin {"index", "normalized", "trace-policy"}
                      /\ f = "statement" => a.pc = 8
                      /\ f = "manifest" => a.pc = 12
                      /\ f = "verification" => a.pc = 16
  <2>1. do = "write" => a.pc = 8 \/ a.pc = 12 \/ a.pc = 16
    BY <1>1, AttestationOps DEF Op
  <2>2. /\ a.pc = 8 => f = "statement"
        /\ a.pc = 12 => f = "manifest"
        /\ a.pc = 16 => f = "verification"
    BY <1>1, AttestationOps DEF Op
  <2> QED
    BY <2>1, <2>2
<1>4. /\ a.pc > 4 => Holds(a.seen, "trace-policy")
      /\ a.pc > 9 => Holds(a.ref, "statement")
      /\ a.pc > 10 => Holds(a.ref, "normalized")
      /\ a.pc > 11 => Holds(a.ref, "trace-policy")
      /\ a.pc > 12 => Listed /\ Holds(a.seen, "manifest")
      /\ a.pc > 16 => Holds(a.seen, "verification") /\ disk["verification"].ok
      /\ a.pc > 18 => Holds(a.ref, "manifest")
      /\ a.pc > 19 => Holds(a.ref, "verification")
  BY DEF AttestationSteady
<1>5. a.pc > 3 => Holds(a.seen, "trace-policy")'
  <2>1. CASE a.pc = 4
    BY <1>0, <1>2, <2>1, FilesOf, SeenHolds
  <2>2. CASE a.pc > 4
    BY <1>0, <1>4, <2>2, FilesOf, SeenHolds
  <2> QED
    BY <1>1, <2>1, <2>2
<1>6. a.pc > 8 => Holds(a.ref, "statement")'
  <2>1. CASE a.pc = 9
    BY <1>0, <1>2, <2>1, FilesOf, RefHolds
  <2>2. CASE a.pc > 9
    BY <1>0, <1>3, <1>4, <2>2, FilesOf, RefHolds
  <2> QED
    BY <1>1, <2>1, <2>2
<1>7. a.pc > 9 => Holds(a.ref, "normalized")'
  <2>1. CASE a.pc = 10
    BY <1>0, <1>2, <2>1, FilesOf, RefHolds
  <2>2. CASE a.pc > 10
    BY <1>0, <1>3, <1>4, <2>2, FilesOf, RefHolds
  <2> QED
    BY <1>1, <2>1, <2>2
<1>8. a.pc > 10 => Holds(a.ref, "trace-policy")'
  <2>1. CASE a.pc = 11
    BY <1>0, <1>2, <2>1, FilesOf, RefHolds
  <2>2. CASE a.pc > 11
    BY <1>0, <1>3, <1>4, <2>2, FilesOf, RefHolds
  <2> QED
    BY <1>1, <2>1, <2>2
<1>9. a.pc > 11 => Listed' /\ Holds(a.seen, "manifest")'
  <2>1. a.pc > 11 => /\ disk'["statement"] = disk["statement"]
                     /\ disk'["normalized"] = disk["normalized"]
                     /\ disk'["trace-policy"] = disk["trace-policy"]
    BY <1>0, <1>1, DiskStep
  <2>2. CASE a.pc = 12
    <3> DEFINE w == Written("manifest", a, k)
    <3>1. disk'["manifest"] = w
      BY <1>2, <2>2, FilesOf DEF Advances
    <3>2. /\ w.statement = a.ref["statement"] /\ w.normalized = a.ref["normalized"]
          /\ w.tracePolicy = a.ref["trace-policy"]
      BY DEF Written
    <3>3. /\ a.ref["statement"] = disk["statement"]
          /\ a.ref["normalized"] = disk["normalized"]
          /\ a.ref["trace-policy"] = disk["trace-policy"]
      BY <1>4, <2>2 DEF Holds
    <3> HIDE DEF w
    <3>4. Listed'
      BY <2>1, <2>2, <3>1, <3>2, <3>3 DEF Listed
    <3>5. Holds(a.seen, "manifest")'
      BY <1>0, <1>2, <2>2, FilesOf, SeenHolds
    <3> QED
      BY <3>4, <3>5
  <2>3. CASE a.pc > 12
    <3>1. disk'["manifest"] = disk["manifest"]
      BY <1>0, <1>1, <2>3, DiskStep
    <3>2. Listed
      BY <1>4, <2>3
    <3>3. /\ disk'["statement"] = disk["statement"]
          /\ disk'["normalized"] = disk["normalized"]
          /\ disk'["trace-policy"] = disk["trace-policy"]
      BY <1>1, <2>1, <2>3
    <3>4. Listed'
      BY <3>1, <3>2, <3>3 DEF Listed
    <3>5. Holds(a.seen, "manifest")'
      BY <1>0, <1>4, <2>3, FilesOf, SeenHolds
    <3> QED
      BY <3>4, <3>5
  <2> QED
    BY <1>1, <2>2, <2>3
<1>10. a.pc > 15 => Holds(a.seen, "verification")' /\ disk'["verification"].ok
  <2>1. CASE a.pc = 16
    <3> DEFINE w == Written("verification", a, k)
    <3>1. disk'["verification"] = w
      BY <1>2, <2>1, FilesOf DEF Advances
    <3>2. w.ok = Unchanged(a.seen["manifest"], a.ref)
      BY DEF Written
    <3>3. Unchanged(a.seen["manifest"], a.ref)
      BY <1>4, <2>1 DEF Holds, Listed, Unchanged
    <3>4. Holds(a.seen, "verification")'
      BY <1>0, <1>2, <2>1, FilesOf, SeenHolds
    <3> QED
      BY <3>1, <3>2, <3>3, <3>4
  <2>2. CASE a.pc > 16
    <3>1. disk'["verification"] = disk["verification"]
      BY <1>0, <1>1, <2>2, DiskStep
    <3>2. Holds(a.seen, "verification")'
      BY <1>0, <1>4, <2>2, FilesOf, SeenHolds
    <3> QED
      BY <1>4, <2>2, <3>1, <3>2
  <2> QED
    BY <1>1, <2>1, <2>2
<1>11. a.pc > 17 => Holds(a.ref, "manifest")'
  <2>1. CASE a.pc = 18
    BY <1>0, <1>2, <2>1, FilesOf, RefHolds
  <2>2. CASE a.pc > 18
    BY <1>0, <1>3, <1>4, <2>2, FilesOf, RefHolds
  <2> QED
    BY <1>1, <2>1, <2>2
<1>12. a.pc > 18 => Holds(a.ref, "verification")'
  <2>1. CASE a.pc = 19
    BY <1>0, <1>2, <2>1, FilesOf, RefHolds
  <2> QED
    BY <1>1, <2>1
<1>13. b.pc = a.pc + 1 /\ a.pc \in Nat
  BY <1>1
<1> QED
  BY <1>5, <1>6, <1>7, <1>8, <1>9, <1>10, <1>11, <1>12, <1>13 DEF AttestationSteady

LEMMA VerifierSteadyStep ==
  ASSUME LaneShape, NEW k \in Number, k = 1, Advances("verifier", k),
         attempt["verifier"][k].doing = "verifier",
         VerifierSteady(attempt["verifier"][k])
  PROVE  VerifierSteady(attempt["verifier"][k])'
<1>0. "verifier" \in Stage
  BY DEF Stage
<1> DEFINE a == attempt["verifier"][k]
<1> DEFINE b == attempt'["verifier"][k]
<1> DEFINE do == Now("verifier", k).do
<1> DEFINE f == Now("verifier", k).on
<1>1. /\ a # Nil /\ b.pc = a.pc + 1 /\ a.pc \in 1..13
      /\ Now("verifier", k) = Program["verifier"][a.pc]
  BY <1>0, AgentAt, VerifierOps
<1>2. /\ a.pc = 4 => do = "read" /\ f = "manifest"
      /\ a.pc = 5 => do = "digest" /\ f = "statement"
      /\ a.pc = 6 => do = "digest" /\ f = "normalized"
      /\ a.pc = 7 => do = "digest" /\ f = "trace-policy"
      /\ a.pc = 8 => do = "require" /\ f = "release"
      /\ a.pc = 9 => do = "read" /\ f = "manifest"
      /\ a.pc = 10 => do = "digest" /\ f = "manifest"
      /\ a.pc = 12 => do = "write" /\ f = "availability"
      /\ a.pc = 13 => do = "digest" /\ f = "availability"
  BY <1>1, VerifierOps DEF Op
<1>3. /\ do = "write" => f = "availability" /\ a.pc = 12
      /\ do = "read" => f # "availability"
      /\ do = "require" /\ f = "release" => a.pc = 8
  BY <1>1, VerifierOps DEF Op
<1>4. /\ a.pc > 4 => Holds(a.seen, "manifest")
      /\ a.pc > 5 => Holds(a.ref, "statement")
      /\ a.pc > 6 => Holds(a.ref, "normalized")
      /\ a.pc > 7 => Holds(a.ref, "trace-policy")
      /\ a.pc > 8 => /\ "availability" \in DOMAIN a.seen
                     /\ a.seen["availability"] = Verification(disk["manifest"], 1)
      /\ a.pc > 10 => Holds(a.ref, "manifest")
      /\ a.pc > 12 => disk["availability"] = Verification(disk["manifest"], 1)
      /\ a.pc > 13 => Holds(a.ref, "availability")
  BY DEF VerifierSteady
<1>5. a.pc > 3 => Holds(a.seen, "manifest")'
  <2>1. CASE a.pc = 4
    BY <1>0, <1>2, <2>1, FilesOf, SeenHolds
  <2>2. CASE a.pc > 4
    BY <1>0, <1>4, <2>2, FilesOf, SeenHolds
  <2> QED
    BY <1>1, <2>1, <2>2
<1>6. a.pc > 4 => Holds(a.ref, "statement")'
  <2>1. CASE a.pc = 5
    BY <1>0, <1>2, <2>1, FilesOf, RefHolds
  <2>2. CASE a.pc > 5
    BY <1>0, <1>3, <1>4, <2>2, FilesOf, RefHolds
  <2> QED
    BY <1>1, <2>1, <2>2
<1>7. a.pc > 5 => Holds(a.ref, "normalized")'
  <2>1. CASE a.pc = 6
    BY <1>0, <1>2, <2>1, FilesOf, RefHolds
  <2>2. CASE a.pc > 6
    BY <1>0, <1>3, <1>4, <2>2, FilesOf, RefHolds
  <2> QED
    BY <1>1, <2>1, <2>2
<1>8. a.pc > 6 => Holds(a.ref, "trace-policy")'
  <2>1. CASE a.pc = 7
    BY <1>0, <1>2, <2>1, FilesOf, RefHolds
  <2>2. CASE a.pc > 7
    BY <1>0, <1>3, <1>4, <2>2, FilesOf, RefHolds
  <2> QED
    BY <1>1, <2>1, <2>2
<1>9. disk'["manifest"] = disk["manifest"]
  BY <1>0, DiskStep
<1>10. a.pc > 7 => /\ "availability" \in DOMAIN b.seen
                   /\ b.seen["availability"] = Verification(disk["manifest"], 1)
  <2>1. CASE a.pc = 8
    <3>1. b.seen = With(a.seen, "availability", Verification(a.seen["manifest"], k))
      BY <1>2, <2>1 DEF Advances
    <3>2. a.seen["manifest"] = disk["manifest"]
      BY <1>4, <2>1 DEF Holds
    <3> QED
      BY <3>1, <3>2 DEF With
  <2>2. CASE a.pc = 12
    <3>1. /\ "availability" \in DOMAIN b.seen
          /\ b.seen["availability"] = Written("availability", a, k)
      BY <1>0, <1>2, <2>2, KnownStep
    <3> QED
      BY <1>4, <2>2, <3>1 DEF Written
  <2>3. CASE a.pc > 8 /\ a.pc # 12
    BY <1>0, <1>3, <1>4, <2>3, KnownStep
  <2> QED
    BY <1>1, <2>1, <2>2, <2>3
<1>11. a.pc > 9 => Holds(a.ref, "manifest")'
  <2>1. CASE a.pc = 10
    BY <1>0, <1>2, <2>1, FilesOf, RefHolds
  <2>2. CASE a.pc > 10
    BY <1>0, <1>3, <1>4, <2>2, FilesOf, RefHolds
  <2> QED
    BY <1>1, <2>1, <2>2
<1>12. a.pc > 11 => disk'["availability"] = Verification(disk["manifest"], 1)
  <2>1. CASE a.pc = 12
    <3>1. disk'["availability"] = Written("availability", a, k)
      BY <1>2, <2>1, FilesOf DEF Advances
    <3> QED
      BY <1>4, <2>1, <3>1 DEF Written
  <2>2. CASE a.pc > 12
    BY <1>0, <1>1, <1>4, <2>2, DiskStep
  <2> QED
    BY <1>1, <2>1, <2>2
<1>13. a.pc > 12 => Holds(a.ref, "availability")'
  <2>1. CASE a.pc = 13
    BY <1>0, <1>2, <2>1, FilesOf, RefHolds
  <2> QED
    BY <1>1, <2>1
<1>14. b.pc = a.pc + 1 /\ a.pc \in Nat
  BY <1>1
<1>15. Verification(disk["manifest"], 1)' = Verification(disk["manifest"], 1)
  BY <1>9 DEF Verification
<1> QED
  BY <1>5, <1>6, <1>7, <1>8, <1>10, <1>11, <1>12, <1>13, <1>14, <1>15
     DEF VerifierSteady

LEMMA GovernorSteadyStep ==
  ASSUME LaneShape, NEW k \in Number, Advances("governor", k),
         attempt["governor"][k].doing = "governor",
         GovernorSteady(attempt["governor"][k]), IndexTold("governor", k),
         Fit(config), disk["manifest"].input = config, disk["verification"].ok,
         disk["availability"] = Verification(disk["manifest"], 1)
  PROVE  GovernorSteady(attempt["governor"][k])'
<1>0. "governor" \in Stage
  BY DEF Stage
<1> DEFINE a == attempt["governor"][k]
<1> DEFINE b == attempt'["governor"][k]
<1> DEFINE do == Now("governor", k).do
<1> DEFINE f == Now("governor", k).on
<1>1. /\ a # Nil /\ b.pc = a.pc + 1 /\ a.pc \in 1..13
      /\ Now("governor", k) = Program["governor"][a.pc]
  BY <1>0, AgentAt, GovernorOps
<1>2. /\ a.pc = 4 => do = "read" /\ f = "manifest"
      /\ a.pc = 6 => do = "read" /\ f = "verification"
      /\ a.pc = 8 => do = "read" /\ f = "availability"
      /\ a.pc = 11 => do = "write" /\ f = "evaluation"
      /\ do # "require"
      /\ do \in {"read", "write"} /\ f = "evaluation" => a.pc = 11
  BY <1>1, GovernorOps DEF Op
<1>3. /\ a.pc > 4 => Holds(a.seen, "manifest")
      /\ a.pc > 6 => Holds(a.seen, "verification")
      /\ a.pc > 8 => Holds(a.seen, "availability")
      /\ a.pc > 11 => "evaluation" \in DOMAIN a.seen /\ a.seen["evaluation"].passed
  BY DEF GovernorSteady
<1>4. a.pc > 3 => Holds(a.seen, "manifest")'
  <2>1. CASE a.pc = 4
    BY <1>0, <1>2, <2>1, FilesOf, SeenHolds
  <2>2. CASE a.pc > 4
    BY <1>0, <1>3, <2>2, FilesOf, SeenHolds
  <2> QED
    BY <1>1, <2>1, <2>2
<1>5. a.pc > 5 => Holds(a.seen, "verification")'
  <2>1. CASE a.pc = 6
    BY <1>0, <1>2, <2>1, FilesOf, SeenHolds
  <2>2. CASE a.pc > 6
    BY <1>0, <1>3, <2>2, FilesOf, SeenHolds
  <2> QED
    BY <1>1, <2>1, <2>2
<1>6. a.pc > 7 => Holds(a.seen, "availability")'
  <2>1. CASE a.pc = 8
    BY <1>0, <1>2, <2>1, FilesOf, SeenHolds
  <2>2. CASE a.pc > 8
    BY <1>0, <1>2, <1>3, <2>2, FilesOf, SeenHolds
  <2> QED
    BY <1>1, <2>1, <2>2
<1>7. a.pc > 10 => "evaluation" \in DOMAIN b.seen /\ b.seen["evaluation"].passed
  <2>1. CASE a.pc = 11
    <3>1. /\ "evaluation" \in DOMAIN b.seen
          /\ b.seen["evaluation"] = Written("evaluation", a, k)
      BY <1>0, <1>2, <2>1, KnownStep
    <3>2. Written("evaluation", a, k).passed = CandidateShape(a.seen)
      BY DEF Written
    <3>3. CandidateShape(a.seen)
      BY <1>1, <2>1, EvaluationPasses
    <3> QED
      BY <3>1, <3>2, <3>3
  <2>2. CASE a.pc > 11
    BY <1>0, <1>2, <1>3, <2>2, KnownStep
  <2> QED
    BY <1>1, <2>1, <2>2
<1>8. b.pc = a.pc + 1 /\ a.pc \in Nat
  BY <1>1
<1> QED
  BY <1>4, <1>5, <1>6, <1>7, <1>8 DEF GovernorSteady

-----------------------------------------------------------------------------
\* The agents work one after the other.
LEMMA DoneBefore ==
  ASSUME LaneShape
  PROVE  /\ item["governor"].at # "none" => item["verifier"].at = "done"
         /\ item["verifier"].at # "none" => item["attestation"].at = "done"
         /\ item["attestation"].at # "none" => item["trace"].at = "done"
         /\ item["trace"].at # "none" => item["build"].at = "done"
<1>1. /\ After["verifier"] = "governor" /\ After["attestation"] = "verifier"
      /\ After["trace"] = "attestation" /\ After["build"] = "trace"
      /\ {"verifier", "attestation", "trace", "build"} \subseteq DOMAIN After
  BY DEF After
<1> QED
  BY <1>1 DEF LaneShape

\* Where an attempt at work is in its program.
LEMMA WorkingAt ==
  ASSUME LaneShape, NEW s \in Stage, NEW k \in Number, attempt[s][k] # Nil,
         attempt[s][k].doing = s, ~Done(s, k)
  PROVE  /\ attempt[s][k].pc \in 1..Len(Program[s])
         /\ Now(s, k) = Program[s][attempt[s][k].pc]
<1>1. attempt[s][k].pc \in Nat \ {0}
  BY DEF LaneShape, AttemptShape
<1>2. Len(Program[s]) \in Nat
  BY ProgramLength DEF Stage
<1>3. ~(attempt[s][k].pc > Len(Program[s]))
  BY DEF Done, Working
<1> QED
  BY <1>1, <1>2, <1>3 DEF Now

\* Every comparison holds and every decision passes.
LEMMA SteadyWorks ==
  ASSUME LaneShape, AttemptsTell, Steady, Fit(config),
         NEW s \in Stage, NEW k \in Number, Works(s, k)
  PROVE  Advances(s, k)
<1> DEFINE a == attempt[s][k]
<1> DEFINE f == Now(s, k).on
<1>1. /\ a # Nil /\ a.doing = s /\ ~Done(s, k) /\ k = 1
      /\ item[s].at = "open" /\ item[s].at # "none"
  BY DEF Works, Working, Steady, Current
<1>2. a.pc \in 1..Len(Program[s]) /\ Now(s, k) = Program[s][a.pc]
  BY <1>1, WorkingAt
<1>3. IndexTold(s, k) /\ TraceTold(k) /\ VerifierTold(k)
  BY DEF AttemptsTell
<1>4. Now(s, k).do = "compare" => disk[f] = item[s].payload[f]
  BY <1>1, <1>2, ComparesCarried DEF Steady, Holds
<1>5. Now(s, k).do \in {"gate", "require"} => Passes(f, a)
  <2> SUFFICES ASSUME Now(s, k).do \in {"gate", "require"} PROVE Passes(f, a)
    OBVIOUS
  <2>1. CASE s = "build" /\ a.pc = 3 /\ f = "intake"
    BY <1>1, <1>3, <2>1, IntakePasses
  <2>2. CASE s = "trace" /\ a.pc = 6 /\ f = "policy"
    BY <1>1, <1>3, <2>2, TracePolicyPasses
  <2>3. CASE s = "attestation" /\ a.pc = 5 /\ f = "policy"
    <3>1. AttestationSteady(a) /\ disk["trace-policy"].failures = {}
      BY <1>1, <2>3 DEF Steady
    <3> QED
      BY <2>3, <3>1, RetainedPolicyPasses
  <2>4. CASE s = "attestation" /\ a.pc = 17 /\ f = "manifest"
    <3>1. AttestationSteady(a)
      BY <1>1, <2>4 DEF Steady
    <3> QED
      BY <2>4, <3>1, ManifestPasses
  <2>5. CASE s = "verifier" /\ a.pc = 8 /\ f = "release"
    <3>1. VerifierSteady(a) /\ Listed
      BY <1>1, <2>5 DEF Steady
    <3> QED
      BY <1>1, <1>3, <2>5, <3>1, ReleasePasses
  <2>6. CASE s = "verifier" /\ a.pc = 11 /\ f = "record"
    <3>1. VerifierSteady(a)
      BY <1>1, <2>6 DEF Steady
    <3> QED
      BY <1>1, <1>3, <2>6, <3>1, RecordPasses
  <2>7. CASE s = "governor" /\ a.pc = 12 /\ f = "candidate"
    <3>1. GovernorSteady(a)
      BY <1>1, <2>7 DEF Steady
    <3> QED
      BY <2>7, <3>1, CandidatePasses
  <2> QED
    BY <1>2, <2>1, <2>2, <2>3, <2>4, <2>5, <2>6, <2>7, DecisionsAre
<1> QED
  BY <1>4, <1>5, WorksIs

\* The steps of an undisturbed lane.
LEMMA SteadyStepIs ==
  ASSUME LaneShape, LaneNext, AttemptsTell, Steady, Fit(config),
         config # Nil, expiries = 0, expiries' = 0, 1 \in Number
  PROVE  \/ \E s \in Stage : Advances(s, 1) /\ attempt[s][1].doing = s /\ Current(s, 1)
         \/ \E s \in Stage : Succeed(s, 1) /\ Current(s, 1)
         \/ Announce(1) /\ Current("governor", 1)
         \/ /\ UNCHANGED <<item, attempt>>
            /\ \A g \in LaneFile \ {"index"} : disk'[g] = disk[g]
<1> DEFINE Goal ==
         \/ \E s \in Stage : Advances(s, 1) /\ attempt[s][1].doing = s /\ Current(s, 1)
         \/ \E s \in Stage : Succeed(s, 1) /\ Current(s, 1)
         \/ Announce(1) /\ Current("governor", 1)
         \/ /\ UNCHANGED <<item, attempt>>
            /\ \A g \in LaneFile \ {"index"} : disk'[g] = disk[g]
<1> SUFFICES Goal
  OBVIOUS
<1>0. \A s \in Stage, k \in Number :
        attempt[s][k] # Nil => k = 1 /\ Current(s, k) /\ attempt[s][k].doing = s
  BY DEF Steady
<1>1. ASSUME NEW c \in Starter, Pin(c) PROVE Goal
  BY <1>1 DEF Pin
<1>2. ASSUME NEW c \in Starter, NEW i \in Input, Prepare(c, i) PROVE Goal
  <2>1. UNCHANGED <<item, attempt>> /\ disk' = [disk EXCEPT !["index"] = i]
    BY <1>2 DEF Prepare
  <2>2. \A g \in LaneFile \ {"index"} : disk'[g] = disk[g]
    BY <2>1 DEF LaneShape
  <2> QED
    BY <2>1, <2>2
<1>3. ASSUME NEW s \in Stage, NEW k \in Number, Works(s, k) PROVE Goal
  <2>1. Advances(s, k) /\ attempt[s][k] # Nil
    BY <1>3, SteadyWorks DEF Works, Working
  <2>2. k = 1 /\ Current(s, k) /\ attempt[s][k].doing = s
    BY <1>0, <2>1
  <2> QED
    BY <2>1, <2>2
<1>4. ASSUME NEW s \in Stage, NEW k \in Number, Succeed(s, k) PROVE Goal
  <2>1. k = 1 /\ Current(s, k)
    BY <1>0, <1>4 DEF Succeed, Done, Working
  <2> QED
    BY <1>4, <2>1
<1>5. ASSUME NEW s \in Stage, NEW k \in Number, Expire(s, k) PROVE FALSE
  BY <1>5 DEF Expire
<1>6. ASSUME NEW k \in Number, Reject(k) PROVE FALSE
  BY <1>0, <1>6, FilesOf DEF Reject, Done, Working, Stage
<1>7. ASSUME NEW k \in Number, Announce(k) PROVE Goal
  <2>1. k = 1 /\ Current("governor", k)
    BY <1>0, <1>7 DEF Announce, Done, Working, Stage
  <2> QED
    BY <1>7, <2>1
<1> QED
  BY <1>1, <1>2, <1>3, <1>4, <1>5, <1>6, <1>7 DEF LaneNext, Number

-----------------------------------------------------------------------------
\* An agent does not write what it was handed.
LEMMA CarriedKept ==
  ASSUME LaneShape, NEW s \in Stage, NEW k \in Number, Advances(s, k),
         attempt[s][k].doing = s, NEW f \in Carried[s]
  PROVE  disk'[f] = disk[f]
<1>1. CASE s = "build" \/ s = "trace"
  <2>1. f = "index"
    BY <1>1 DEF Carried
  <2> QED
    BY <2>1, DiskStep
<1>2. CASE s = "attestation"
  <2>1. f = "index" \/ f = "normalized" \/ f = "trace-policy"
    BY <1>2 DEF Carried
  <2> QED
    BY <1>2, <2>1, DiskStep
<1>3. CASE s = "verifier"
  <2>1. \/ f = "index" \/ f = "normalized" \/ f = "trace-policy"
        \/ f = "manifest" \/ f = "verification"
    BY <1>3 DEF Carried
  <2> QED
    BY <1>3, <2>1, DiskStep
<1>4. CASE s = "governor"
  <2>1. \/ f = "index" \/ f = "normalized" \/ f = "trace-policy"
        \/ f = "manifest" \/ f = "verification" \/ f = "availability"
    BY <1>4 DEF Carried
  <2> QED
    BY <1>4, <2>1, DiskStep
<1> QED
  BY <1>1, <1>2, <1>3, <1>4 DEF Stage

LEMMA SteadyAdvances ==
  ASSUME LaneShape, AttemptsTell, EventsTell, Steady, Fit(config), 1 \in Number,
         NEW s \in Stage, Advances(s, 1), attempt[s][1].doing = s, Current(s, 1)
  PROVE  Steady'
<1>0. /\ attempt[s][1] # Nil /\ item[s].at = "open"
      /\ \A t \in Stage : item[t].at = "open" => t = s
      /\ \A t \in Stage, k \in Number : attempt[t][k] # Nil => t = s /\ k = 1
  <2>1. attempt[s][1] # Nil /\ item[s].at = "open"
    BY DEF Advances, Current
  <2>2. \A t \in Stage : item[t].at = "open" => t = s
    BY <2>1, OneOpen
  <2> QED
    BY <2>1, <2>2 DEF Steady, Current
<1>1. /\ item' = item
      /\ attempt'[s][1].doing = s
      /\ \A t \in Stage, k \in Number :
           t # s \/ k # 1 => attempt'[t][k] = Nil
  BY <1>0 DEF Advances
<1>2. \A t \in Stage :
        /\ item'[t].at \in {"none", "open", "done"}
        /\ item'[t].at = "open" => \A f \in Carried[t] : Holds(item[t].payload, f)'
        /\ \A k \in Number :
             attempt'[t][k] # Nil =>
               k = 1 /\ Current(t, k)' /\ attempt'[t][k].doing = t
  <2> SUFFICES ASSUME NEW t \in Stage
               PROVE  /\ item'[t].at \in {"none", "open", "done"}
                      /\ item'[t].at = "open" =>
                           \A f \in Carried[t] : Holds(item[t].payload, f)'
                      /\ \A k \in Number :
                           attempt'[t][k] # Nil =>
                             k = 1 /\ Current(t, k)' /\ attempt'[t][k].doing = t
    OBVIOUS
  <2>1. item'[t].at \in {"none", "open", "done"}
    BY <1>1 DEF Steady
  <2>2. ASSUME item'[t].at = "open", NEW f \in Carried[t]
        PROVE  Holds(item[t].payload, f)'
    <3>1. t = s /\ Holds(item[t].payload, f)
      BY <1>0, <1>1, <2>2 DEF Steady
    <3>2. disk'[f] = disk[f]
      BY <2>2, <3>1, CarriedKept
    <3> QED
      BY <1>1, <3>1, <3>2 DEF Holds
  <2>3. ASSUME NEW k \in Number, attempt'[t][k] # Nil
        PROVE  k = 1 /\ Current(t, k)' /\ attempt'[t][k].doing = t
    BY <1>1, <2>3 DEF Current
  <2> QED
    BY <2>1, <2>2, <2>3
<1>3. {"build", "trace", "attestation", "verifier", "governor"} \subseteq Stage
  BY DEF Stage
<1>4. IndexTold(s, 1)
  BY DEF AttemptsTell
<1>5. attempt'["build"][1] # Nil /\ attempt'["build"][1].pc > 4 =>
        Holds(attempt["build"][1].ref, "index")'
  BY <1>1, <1>3, BuildSteadyStep
<1>6. attempt'["trace"][1] # Nil => TraceSteady(attempt["trace"][1])'
  BY <1>0, <1>1, <1>3, <1>4, TraceSteadyStep DEF Steady
<1>7. attempt'["attestation"][1] # Nil => AttestationSteady(attempt["attestation"][1])'
  BY <1>0, <1>1, <1>3, AttestationSteadyStep DEF Steady
<1>8. attempt'["verifier"][1] # Nil => VerifierSteady(attempt["verifier"][1])'
  BY <1>0, <1>1, <1>3, VerifierSteadyStep DEF Steady
<1>9. attempt'["governor"][1] # Nil => GovernorSteady(attempt["governor"][1])'
  <2> SUFFICES ASSUME s = "governor" PROVE GovernorSteady(attempt["governor"][1])'
    BY <1>1, <1>3
  <2>1. /\ disk["verification"].ok /\ disk["manifest"].input = config
        /\ disk["availability"] = Verification(disk["manifest"], 1)
    BY <1>0, DoneBefore DEF Steady, EventsTell
  <2> QED
    BY <1>0, <1>4, <2>1, GovernorSteadyStep DEF Steady
<1>10. item'["attestation"].at # "none" => disk'["trace-policy"].failures = {}
  <2>1. item["attestation"].at # "none" => s # "trace"
    BY <1>0, DoneBefore
  <2>2. s # "trace" => disk'["trace-policy"] = disk["trace-policy"]
    BY DiskStep
  <2> QED
    BY <1>1, <2>1, <2>2 DEF Steady
<1>11. item'["verifier"].at # "none" => Listed' /\ disk'["verification"].ok
  <2> SUFFICES ASSUME item["verifier"].at # "none"
               PROVE  Listed' /\ disk'["verification"].ok
    BY <1>1
  <2>1. s # "trace" /\ s # "attestation"
    BY <1>0, DoneBefore
  <2>2. /\ disk'["trace-policy"] = disk["trace-policy"]
        /\ disk'["normalized"] = disk["normalized"]
        /\ disk'["statement"] = disk["statement"]
        /\ disk'["manifest"] = disk["manifest"]
        /\ disk'["verification"] = disk["verification"]
    BY <2>1, DiskStep
  <2>3. Listed /\ disk["verification"].ok
    BY DEF Steady
  <2> QED
    BY <2>2, <2>3 DEF Listed
<1>12. item'["governor"].at # "none" =>
         disk'["availability"] = Verification(disk["manifest"], 1)'
  <2> SUFFICES ASSUME item["governor"].at # "none"
               PROVE  disk'["availability"] = Verification(disk["manifest"], 1)'
    BY <1>1
  <2>1. s # "attestation" /\ s # "verifier"
    BY <1>0, DoneBefore
  <2>2. /\ disk'["manifest"] = disk["manifest"]
        /\ disk'["availability"] = disk["availability"]
    BY <2>1, DiskStep
  <2>3. disk["availability"] = Verification(disk["manifest"], 1)
    BY DEF Steady
  <2> QED
    BY <2>2, <2>3 DEF Verification
<1> QED
  BY <1>2, <1>5, <1>6, <1>7, <1>8, <1>9, <1>10, <1>11, <1>12 DEF Steady

LEMMA HandedOn ==
  /\ Carried["trace"] = Carried["build"] \cup Outputs["build"]
  /\ Carried["attestation"] = Carried["trace"] \cup Outputs["trace"]
  /\ Carried["verifier"] = Carried["attestation"] \cup Outputs["attestation"]
  /\ Carried["governor"] = Carried["verifier"] \cup Outputs["verifier"]
BY DEF Carried, Outputs

\* An agent that is done has the digest of every file that its event names.
LEMMA OutputsHold ==
  ASSUME LaneShape, Steady, 1 \in Number, NEW s \in DOMAIN After,
         attempt[s][1] # Nil, attempt[s][1].pc > Len(Program[s]),
         NEW f \in Outputs[s]
  PROVE  Holds(attempt[s][1].ref, f)
<1>0. {"build", "trace", "attestation", "verifier"} = DOMAIN After
      /\ s \in Stage
  BY DEF After, Stage
<1>1. attempt[s][1].pc \in Nat
  BY <1>0, AttemptNumbers
<1>2. CASE s = "build"
  BY <1>1, <1>2, HandsOver, ProgramLength DEF Steady
<1>3. CASE s = "trace"
  BY <1>1, <1>3, HandsOver, ProgramLength DEF Steady, TraceSteady
<1>4. CASE s = "attestation"
  BY <1>1, <1>4, HandsOver, ProgramLength DEF Steady, AttestationSteady
<1>5. CASE s = "verifier"
  BY <1>1, <1>5, HandsOver, ProgramLength DEF Steady, VerifierSteady
<1> QED
  BY <1>0, <1>2, <1>3, <1>4, <1>5

LEMMA SteadySucceeds ==
  ASSUME LaneShape, Steady, 1 \in Number,
         NEW s \in Stage, Succeed(s, 1), Current(s, 1)
  PROVE  Steady'
<1> DEFINE n == After[s]
<1> DEFINE a == attempt[s][1]
<1>0. /\ s \in DOMAIN After /\ n \in Stage /\ n # s
      /\ a # Nil /\ a.doing = s /\ a.pc > Len(Program[s]) /\ a.pc \in Nat
      /\ item[s].at = "open" /\ disk' = disk
      /\ \A t \in Stage : item[t].at = "open" => t = s
      /\ \A t \in Stage, k \in Number : attempt[t][k] # Nil => t = s /\ k = 1
  <2>1. s \in DOMAIN After /\ n \in Stage /\ n # s /\ disk' = disk
    BY SucceedIs, StageAfter
  <2>2. item[s].at = "open"
    BY DEF Current
  <2>3. a # Nil /\ a.doing = s /\ a.pc > Len(Program[s])
    BY DEF Succeed, Done, Working
  <2>4. \A t \in Stage : item[t].at = "open" => t = s
    BY <2>2, OneOpen
  <2>5. \A t \in Stage, k \in Number : attempt[t][k] # Nil => t = s /\ k = 1
    BY <2>4 DEF Steady, Current
  <2>6. a.pc \in Nat
    BY <2>3, AttemptNumbers
  <2> QED
    BY <2>1, <2>2, <2>3, <2>4, <2>5, <2>6
<1>1. /\ Hands(s, 1)
      /\ \A t \in Stage \ {s, n} : item'[t] = item[t]
      /\ item'[s].at = "done"
      /\ item'[n].at = "open" /\ item'[n].attempts = 1
      /\ \A t \in Stage, j \in Number :
           attempt'[t][j] = IF t = s /\ j = 1 THEN Nil
                            ELSE IF t = n /\ j = 1 THEN Fresh(t)
                            ELSE attempt[t][j]
  BY SucceedIs
<1>2. /\ \A t \in Stage \ {n}, j \in Number : attempt'[t][j] = Nil
      /\ \A j \in Number : attempt'[n][j] # Nil => j = 1
      /\ attempt'[n][1] = Fresh(n)
  BY <1>0, <1>1
<1>3. \A t \in Stage : /\ t # n => item'[t].at # "open"
                       /\ item'[t].at \in {"none", "open", "done"}
                       /\ t # n => (item'[t].at = "none" <=> item[t].at = "none")
  <2> SUFFICES ASSUME NEW t \in Stage
               PROVE  /\ t # n => item'[t].at # "open"
                      /\ item'[t].at \in {"none", "open", "done"}
                      /\ t # n => (item'[t].at = "none" <=> item[t].at = "none")
    OBVIOUS
  <2>1. CASE t = s
    BY <1>0, <1>1, <2>1
  <2>2. CASE t = n
    BY <1>0, <1>1, <2>2
  <2>3. CASE t # s /\ t # n
    <3>1. item'[t] = item[t] /\ item[t].at # "open"
      BY <1>0, <1>1, <2>3
    <3>2. item[t].at \in {"none", "open", "done"}
      BY DEF Steady
    <3> QED
      BY <2>3, <3>1, <3>2
  <2> QED
    BY <2>1, <2>2, <2>3
<1>4. ASSUME NEW f \in Carried[n] PROVE Holds(item[n].payload, f)'
  <2> DEFINE payload == item'[n].payload
  <2>1. /\ DOMAIN payload = Outputs[s] \cup DOMAIN item[s].payload
        /\ \A g \in Outputs[s] : payload[g] = a.ref[g]
        /\ \A g \in DOMAIN item[s].payload \ Outputs[s] :
             payload[g] = item[s].payload[g]
    BY <1>1 DEF Hands
  <2>2. Carried[n] = Carried[s] \cup Outputs[s]
    BY <1>0, HandedOn DEF After
  <2>3. CASE f \in Outputs[s]
    <3>1. Holds(a.ref, f)
      BY <1>0, <2>3, OutputsHold
    <3> QED
      BY <1>0, <2>1, <2>3, <3>1 DEF Holds
  <2>4. CASE f \in Carried[s] /\ f \notin Outputs[s]
    <3>1. Holds(item[s].payload, f)
      BY <1>0, <2>4 DEF Steady
    <3> QED
      BY <1>0, <2>1, <2>4, <3>1 DEF Holds
  <2> QED
    BY <2>2, <2>3, <2>4
<1>5. \A t \in Stage :
        /\ item'[t].at \in {"none", "open", "done"}
        /\ item'[t].at = "open" => \A f \in Carried[t] : Holds(item[t].payload, f)'
        /\ \A k \in Number :
             attempt'[t][k] # Nil =>
               k = 1 /\ Current(t, k)' /\ attempt'[t][k].doing = t
  <2>1. ASSUME NEW t \in Stage, item'[t].at = "open", NEW f \in Carried[t]
        PROVE  Holds(item[t].payload, f)'
    BY <1>3, <1>4, <2>1
  <2>2. ASSUME NEW t \in Stage, NEW k \in Number, attempt'[t][k] # Nil
        PROVE  k = 1 /\ Current(t, k)' /\ attempt'[t][k].doing = t
    <3>1. t = n /\ k = 1 /\ attempt'[t][k] = Fresh(t)
      BY <1>2, <2>2
    <3> QED
      BY <1>1, <3>1, FreshShape DEF Current
  <2> QED
    BY <1>3, <2>1, <2>2
<1>6. \A t \in Stage : attempt'[t][1] # Nil => attempt'[t][1].pc = 1
  BY <1>2, FreshShape
<1>7. {"build", "trace", "attestation", "verifier", "governor"} \subseteq Stage
  BY DEF Stage
<1>8. attempt'["build"][1] # Nil /\ attempt'["build"][1].pc > 4 =>
        Holds(attempt["build"][1].ref, "index")'
  BY <1>6, <1>7
<1>9. attempt'["trace"][1] # Nil => TraceSteady(attempt["trace"][1])'
  BY <1>6, <1>7 DEF TraceSteady
<1>10. attempt'["attestation"][1] # Nil => AttestationSteady(attempt["attestation"][1])'
  BY <1>6, <1>7 DEF AttestationSteady
<1>11. attempt'["verifier"][1] # Nil => VerifierSteady(attempt["verifier"][1])'
  BY <1>6, <1>7 DEF VerifierSteady
<1>12. attempt'["governor"][1] # Nil => GovernorSteady(attempt["governor"][1])'
  BY <1>6, <1>7 DEF GovernorSteady
<1>13. item'["attestation"].at # "none" => disk'["trace-policy"].failures = {}
  <2>1. CASE n = "attestation"
    <3>1. s = "trace"
      BY <1>0, <2>1, HandsOver
    <3>2. TraceSteady(a) /\ a.pc > 7
      BY <1>0, <3>1, ProgramLength DEF Steady
    <3> QED
      BY <1>0, <3>2 DEF TraceSteady
  <2> QED
    BY <1>0, <1>3, <1>7, <2>1 DEF Steady
<1>14. item'["verifier"].at # "none" => Listed' /\ disk'["verification"].ok
  <2>1. Listed' = Listed
    BY <1>0 DEF Listed
  <2>2. CASE n = "verifier"
    <3>1. s = "attestation"
      BY <1>0, <2>2, HandsOver
    <3>2. AttestationSteady(a) /\ a.pc > 19
      BY <1>0, <3>1, ProgramLength DEF Steady
    <3>3. Listed /\ disk["verification"].ok
      BY <1>0, <3>2 DEF AttestationSteady
    <3> QED
      BY <1>0, <2>1, <3>3
  <2>3. CASE n # "verifier"
    <3>1. item["verifier"].at # "none" => Listed /\ disk["verification"].ok
      BY DEF Steady
    <3> QED
      BY <1>0, <1>3, <1>7, <2>1, <2>3, <3>1
  <2> QED
    BY <2>2, <2>3
<1>15. item'["governor"].at # "none" =>
         disk'["availability"] = Verification(disk["manifest"], 1)'
  <2>1. Verification(disk["manifest"], 1)' = Verification(disk["manifest"], 1)
    BY <1>0
  <2>2. CASE n = "governor"
    <3>1. s = "verifier"
      BY <1>0, <2>2, HandsOver
    <3>2. VerifierSteady(a) /\ a.pc > 13
      BY <1>0, <3>1, ProgramLength DEF Steady
    <3>3. disk["availability"] = Verification(disk["manifest"], 1)
      BY <1>0, <3>2 DEF VerifierSteady
    <3> QED
      BY <1>0, <2>1, <3>3
  <2>3. CASE n # "governor"
    BY <1>0, <1>3, <1>7, <2>1, <2>3 DEF Steady
  <2> QED
    BY <2>2, <2>3
<1> QED
  BY <1>5, <1>8, <1>9, <1>10, <1>11, <1>12, <1>13, <1>14, <1>15 DEF Steady

\* Nothing but the end of an attempt, and of its item, disturbs nothing.
LEMMA SteadyKept ==
  ASSUME Steady, 1 \in Number, \A g \in LaneFile : disk'[g] = disk[g],
         \A s \in Stage :
           /\ item'[s].at \in {"none", "open", "done"}
           /\ item'[s].at = "none" <=> item[s].at = "none"
           /\ item'[s].at = "open" => item'[s] = item[s],
         \A s \in Stage, k \in Number :
           /\ attempt'[s][k] # Nil => attempt'[s][k] = attempt[s][k]
           /\ attempt'[s][k] # Nil => item'[s] = item[s]
  PROVE  Steady'
<1>1. \A s \in Stage : \A f \in Carried[s] : disk'[f] = disk[f]
  BY FilesOf DEF Stage, Carried
<1>2. \A s \in Stage :
        /\ item'[s].at \in {"none", "open", "done"}
        /\ item'[s].at = "open" => \A f \in Carried[s] : Holds(item[s].payload, f)'
        /\ \A k \in Number :
             attempt'[s][k] # Nil =>
               k = 1 /\ Current(s, k)' /\ attempt'[s][k].doing = s
  <2>1. ASSUME NEW s \in Stage, item'[s].at = "open", NEW f \in Carried[s]
        PROVE  Holds(item[s].payload, f)'
    <3>1. item'[s] = item[s]
      BY <2>1
    <3>2. Holds(item[s].payload, f)
      BY <2>1, <3>1 DEF Steady
    <3>3. disk'[f] = disk[f]
      BY <1>1
    <3> QED
      BY <3>1, <3>2, <3>3 DEF Holds
  <2>2. ASSUME NEW s \in Stage, NEW k \in Number, attempt'[s][k] # Nil
        PROVE  k = 1 /\ Current(s, k)' /\ attempt'[s][k].doing = s
    <3>1. attempt'[s][k] = attempt[s][k] /\ item'[s] = item[s]
      BY <2>2
    <3>2. k = 1 /\ Current(s, k) /\ attempt[s][k].doing = s
      BY <2>2, <3>1 DEF Steady
    <3> QED
      BY <3>1, <3>2 DEF Current
  <2> QED
    BY <2>1, <2>2
<1>3. {"build", "trace", "attestation", "verifier", "governor"} \subseteq Stage
  BY DEF Stage
<1>4. /\ disk'["index"] = disk["index"] /\ disk'["normalized"] = disk["normalized"]
      /\ disk'["trace-policy"] = disk["trace-policy"]
      /\ disk'["statement"] = disk["statement"] /\ disk'["manifest"] = disk["manifest"]
      /\ disk'["verification"] = disk["verification"]
      /\ disk'["availability"] = disk["availability"]
  BY FilesOf
<1>5. \A s \in Stage : attempt'[s][1] # Nil => attempt'[s][1] = attempt[s][1]
  OBVIOUS
<1>6. /\ Listed' = Listed
      /\ Verification(disk["manifest"], 1)' = Verification(disk["manifest"], 1)
  BY <1>4 DEF Listed, Verification
<1>7. attempt'["build"][1] # Nil /\ attempt'["build"][1].pc > 4 =>
        Holds(attempt["build"][1].ref, "index")'
  <2>1. attempt["build"][1] # Nil /\ attempt["build"][1].pc > 4 =>
          Holds(attempt["build"][1].ref, "index")
    BY DEF Steady
  <2> QED
    BY <1>3, <1>4, <1>5, <2>1 DEF Holds
<1>8. attempt'["trace"][1] # Nil => TraceSteady(attempt["trace"][1])'
  <2>1. attempt["trace"][1] # Nil => TraceSteady(attempt["trace"][1])
    BY DEF Steady
  <2> QED
    BY <1>3, <1>4, <1>5, <2>1 DEF Holds, TraceSteady
<1>9. attempt'["attestation"][1] # Nil => AttestationSteady(attempt["attestation"][1])'
  <2>1. attempt["attestation"][1] # Nil => AttestationSteady(attempt["attestation"][1])
    BY DEF Steady
  <2> QED
    BY <1>3, <1>4, <1>5, <1>6, <2>1 DEF Holds, AttestationSteady
<1>10. attempt'["verifier"][1] # Nil => VerifierSteady(attempt["verifier"][1])'
  <2>1. attempt["verifier"][1] # Nil => VerifierSteady(attempt["verifier"][1])
    BY DEF Steady
  <2> QED
    BY <1>3, <1>4, <1>5, <1>6, <2>1 DEF Holds, VerifierSteady
<1>11. attempt'["governor"][1] # Nil => GovernorSteady(attempt["governor"][1])'
  <2>1. attempt["governor"][1] # Nil => GovernorSteady(attempt["governor"][1])
    BY DEF Steady
  <2> QED
    BY <1>3, <1>4, <1>5, <2>1 DEF Holds, GovernorSteady
<1>12. /\ item'["attestation"].at # "none" => disk'["trace-policy"].failures = {}
       /\ item'["verifier"].at # "none" => Listed' /\ disk'["verification"].ok
       /\ item'["governor"].at # "none" =>
            disk'["availability"] = Verification(disk["manifest"], 1)'
  <2>1. /\ item["attestation"].at # "none" => disk["trace-policy"].failures = {}
        /\ item["verifier"].at # "none" => Listed /\ disk["verification"].ok
        /\ item["governor"].at # "none" =>
             disk["availability"] = Verification(disk["manifest"], 1)
    BY DEF Steady
  <2> QED
    BY <1>3, <1>4, <1>6, <2>1
<1> QED
  BY <1>2, <1>7, <1>8, <1>9, <1>10, <1>11, <1>12 DEF Steady

LEMMA SteadyAnnounces ==
  ASSUME LaneShape, Steady, 1 \in Number, Announce(1), Current("governor", 1)
  PROVE  Steady'
<1>0. "governor" \in Stage
  BY DEF Stage
<1>1. /\ Ends("governor", 1) /\ Close("governor", 1, "done") /\ disk' = disk
      /\ item["governor"].at = "open"
  BY DEF Announce, Current
<1>2. /\ \A t \in Stage \ {"governor"} : item'[t] = item[t]
      /\ item'["governor"].at = "done"
      /\ \A t \in Stage, j \in Number :
           attempt'[t][j] = IF t = "governor" /\ j = 1 THEN Nil ELSE attempt[t][j]
  BY <1>0, <1>1, CloseIs, EndsIs
<1>3. \A s \in Stage :
        /\ item'[s].at \in {"none", "open", "done"}
        /\ item'[s].at = "none" <=> item[s].at = "none"
        /\ item'[s].at = "open" => item'[s] = item[s]
  BY <1>1, <1>2 DEF Steady
<1>4. \A s \in Stage, k \in Number :
        /\ attempt'[s][k] # Nil => attempt'[s][k] = attempt[s][k]
        /\ attempt'[s][k] # Nil => item'[s] = item[s]
  BY <1>2 DEF Steady
<1> QED
  BY <1>1, <1>3, <1>4, SteadyKept

LEMMA SteadyBegins ==
  ASSUME LaneShape, 1 \in Number, NEW c \in Starter, Pin(c), config = Nil
  PROVE  Steady'
<1>0. {"build", "trace", "attestation", "verifier", "governor"} \subseteq Stage
  BY DEF Stage
<1>1. /\ disk' = disk
      /\ \A s \in Stage \ {"build"} : item'[s].at = "none"
      /\ item'["build"].at = "open" /\ item'["build"].attempts = 1
      /\ item'["build"].payload = With(Nothing, "index", disk["index"])
      /\ \A s \in Stage, k \in Number :
           attempt'[s][k] = IF s = "build" /\ k = 1 THEN Fresh(s) ELSE Nil
  BY BeginsIs
<1>2. Holds(item["build"].payload, "index")'
  BY <1>1 DEF Holds, With
<1>3. \A s \in Stage :
        /\ item'[s].at \in {"none", "open", "done"}
        /\ item'[s].at = "open" => \A f \in Carried[s] : Holds(item[s].payload, f)'
        /\ \A k \in Number :
             attempt'[s][k] # Nil =>
               k = 1 /\ Current(s, k)' /\ attempt'[s][k].doing = s
  <2>1. ASSUME NEW s \in Stage, item'[s].at = "open", NEW f \in Carried[s]
        PROVE  Holds(item[s].payload, f)'
    <3>1. s = "build" /\ f = "index"
      BY <1>1, <2>1 DEF Carried
    <3> QED
      BY <1>2, <3>1
  <2>2. ASSUME NEW s \in Stage, NEW k \in Number, attempt'[s][k] # Nil
        PROVE  k = 1 /\ Current(s, k)' /\ attempt'[s][k].doing = s
    <3>1. s = "build" /\ k = 1 /\ attempt'[s][k] = Fresh(s)
      BY <1>1, <2>2
    <3> QED
      BY <1>1, <3>1, FreshShape DEF Current
  <2> QED
    BY <1>1, <2>1, <2>2
<1>4. /\ attempt'["build"][1].pc = 1
      /\ attempt'["trace"][1] = Nil /\ attempt'["attestation"][1] = Nil
      /\ attempt'["verifier"][1] = Nil /\ attempt'["governor"][1] = Nil
  BY <1>0, <1>1, FreshShape
<1>5. /\ item'["attestation"].at = "none" /\ item'["verifier"].at = "none"
      /\ item'["governor"].at = "none"
  BY <1>0, <1>1
<1> QED
  BY <1>3, <1>4, <1>5 DEF Steady

LEMMA ExpiriesStep ==
  ASSUME LaneNext, expiries \in Nat
  PROVE  expiries' \in Nat /\ (expiries' = 0 => expiries = 0)
<1>1. ASSUME NEW c \in Starter, Pin(c) \/ \E i \in Input : Prepare(c, i)
      PROVE  expiries' = expiries
  BY <1>1 DEF Pin, Prepare
<1>2. ASSUME NEW s \in Stage, NEW k \in 1..MaxAttempts, Works(s, k) \/ Succeed(s, k)
      PROVE  expiries' = expiries
  BY <1>2 DEF Works, CheckDigest, Read, Digest, Write, Decide, Require, Succeed
<1>3. ASSUME NEW s \in Stage, NEW k \in 1..MaxAttempts, Expire(s, k)
      PROVE  expiries' = expiries + 1
  BY <1>3 DEF Expire
<1>4. ASSUME NEW k \in 1..MaxAttempts, Reject(k) \/ Announce(k)
      PROVE  expiries' = expiries
  BY <1>4 DEF Reject, Announce
<1> QED
  BY <1>1, <1>2, <1>3, <1>4 DEF LaneNext

LEMMA SteadyStep ==
  ASSUME LaneShape, LaneNext, DecisionInvariant, SteadyInvariant, expiries \in Nat
  PROVE  SteadyInvariant'
<1> SUFFICES ASSUME Calm', expiries' = 0, Fit(config)' PROVE Steady'
  BY DEF SteadyInvariant
<1>0. 1 \in Number /\ expiries = 0
  BY LaneAssumption, ExpiriesStep DEF Number
<1>1. CASE /\ config # Nil /\ config' = config /\ Calm
           /\ disk'["index"] = disk["index"] \/ disk'["index"] = config
  <2>1. /\ disk["index"] = config /\ AttemptsTell /\ EventsTell
    BY <1>1 DEF DecisionInvariant
  <2>2. Fit(config)
    BY <1>1 DEF Fit, Intake, Failures
  <2>3. Steady
    BY <1>0, <1>1, <2>2 DEF SteadyInvariant
  <2>4. ASSUME NEW s \in Stage, Advances(s, 1), attempt[s][1].doing = s, Current(s, 1)
        PROVE  Steady'
    BY <1>0, <2>1, <2>2, <2>3, <2>4, SteadyAdvances
  <2>5. ASSUME NEW s \in Stage, Succeed(s, 1), Current(s, 1) PROVE Steady'
    BY <1>0, <2>3, <2>5, SteadySucceeds
  <2>6. CASE Announce(1) /\ Current("governor", 1)
    BY <1>0, <2>3, <2>6, SteadyAnnounces
  <2>7. CASE /\ UNCHANGED <<item, attempt>>
             /\ \A g \in LaneFile \ {"index"} : disk'[g] = disk[g]
    <3>1. \A g \in LaneFile : disk'[g] = disk[g]
      BY <1>1, <2>1, <2>7
    <3>2. \A s \in Stage : item[s].at \in {"none", "open", "done"}
      BY <2>3 DEF Steady
    <3> QED
      BY <1>0, <2>3, <2>7, <3>1, <3>2, SteadyKept
  <2> QED
    BY <1>0, <1>1, <2>1, <2>2, <2>3, <2>4, <2>5, <2>6, <2>7, SteadyStepIs
<1>2. ASSUME config = Nil, NEW c \in Starter, Pin(c) PROVE Steady'
  BY <1>0, <1>2, SteadyBegins
<1> QED
  BY <1>1, <1>2, CalmStep

LEMMA SteadyInit == LaneInit => SteadyInvariant /\ expiries \in Nat
BY DEF LaneInit, SteadyInvariant, Calm

LEMMA SteadyStutter == SteadyInvariant /\ UNCHANGED laneVars => SteadyInvariant'
<1> SUFFICES ASSUME SteadyInvariant, UNCHANGED laneVars PROVE SteadyInvariant'
  OBVIOUS
<1>1. UNCHANGED <<starter, config, disk, item, attempt, expiries>>
  BY DEF laneVars
<1>2. Calm' = Calm /\ Fit(config)' = Fit(config)
  BY <1>1 DEF Calm, Alone
<1>3. Steady' = Steady
  BY <1>1 DEF Steady, Holds, Current, Listed, TraceSteady, AttestationSteady,
              VerifierSteady, GovernorSteady
<1> QED
  BY <1>1, <1>2, <1>3 DEF SteadyInvariant

\* Of an undisturbed run of a fit build result nothing is refused, and what is
\* named is of the build result.
LEMMA DecidesRight ==
  ASSUME LaneShape, DecisionInvariant, SteadyInvariant
  PROVE  LaneDecidesRight
<1> SUFFICES ASSUME Alone
             PROVE  /\ candidate # Nil => candidate.input = config /\ Fit(config)
                    /\ (Refused /\ expiries = 0) => ~Fit(config)
  BY DEF LaneDecidesRight
<1>1. CASE config = Nil
  <2>1. \A s \in Stage : item[s].at = "none"
    BY <1>1 DEF LaneShape
  <2>2. candidate = Nil
    BY <2>1 DEF DecisionInvariant, Stage
  <2>3. ~Refused
    BY <2>1 DEF Refused, Refusals
  <2> QED
    BY <2>2, <2>3
<1>2. CASE config # Nil
  <2>1. Calm
    BY <1>2 DEF Calm
  <2>2. candidate # Nil => candidate.input = config /\ Fit(config)
    BY <2>1 DEF DecisionInvariant
  <2>3. ASSUME Refused, expiries = 0, Fit(config) PROVE FALSE
    <3>1. Steady
      BY <2>1, <2>3 DEF SteadyInvariant
    <3> QED
      BY <2>3, <3>1 DEF Steady, Refused, Refusals
  <2> QED
    BY <2>2, <2>3
<1> QED
  BY <1>1, <1>2

\* Unless another build result was prepared in the directory, a candidate is of
\* the build result that the run was created for, and that is fit; and as long as
\* no lease runs out, a fit one is never refused: for any number of starts,
\* attempts and build results.
THEOREM LaneDecidesAsItShould == LaneSpec => []LaneDecidesRight
<1> DEFINE Inv == /\ LaneShape /\ CandidateInvariant /\ DecisionInvariant
                  /\ SteadyInvariant /\ expiries \in Nat
<1>1. LaneInit => Inv
  BY LaneShapeInit, CandidateInit, DecisionInit, SteadyInit
<1>2. Inv /\ [LaneNext]_laneVars => Inv'
  <2>1. ASSUME Inv, LaneNext PROVE Inv'
    <3>1. ManifestsAreSpent
      BY <2>1 DEF CandidateInvariant
    <3> QED
      BY <2>1, <3>1, LaneShapeStep, CandidateStep, DecisionStep, SteadyStep,
         ExpiriesStep
  <2>2. ASSUME Inv, UNCHANGED laneVars PROVE Inv'
    <3>1. expiries' = expiries
      BY <2>2 DEF laneVars
    <3> QED
      BY <2>2, <3>1, LaneShapeStutter, CandidateStutter, DecisionStutter, SteadyStutter
  <2> QED
    BY <2>1, <2>2
<1>3. Inv => LaneDecidesRight
  BY DecidesRight
<1> QED
  BY <1>1, <1>2, <1>3, PTL DEF LaneSpec

-----------------------------------------------------------------------------
(* The lane implements the decision about a candidate.                      *)

\* How a run with these items has been decided.
OutcomeOf(it) ==
  IF it["governor"].at = "done" THEN "candidate"
  ELSE IF \E s \in Stage : it[s].at \in Refusals
       THEN CHOOSE r \in Refusals : \E s \in Stage : it[s].at = r
  ELSE "open"

\* Agents work one after the other.
Chained(it) ==
  \A s \in DOMAIN After : it[After[s]].at # "none" => it[s].at = "done"

LEMMA OutcomeIsOf ==
  /\ LaneOutcome = OutcomeOf(item) /\ LaneOutcome' = OutcomeOf(item')
  /\ LaneShape => Chained(item) /\ (LaneShape' => Chained(item'))
BY DEF LaneOutcome, Refused, OutcomeOf, LaneShape, Chained

LEMMA ChainedIs ==
  ASSUME NEW it, Chained(it)
  PROVE  /\ it["governor"].at # "none" => it["verifier"].at = "done"
         /\ it["verifier"].at # "none" => it["attestation"].at = "done"
         /\ it["attestation"].at # "none" => it["trace"].at = "done"
         /\ it["trace"].at # "none" => it["build"].at = "done"
<1>1. /\ After["verifier"] = "governor" /\ After["attestation"] = "verifier"
      /\ After["trace"] = "attestation" /\ After["build"] = "trace"
      /\ {"verifier", "attestation", "trace", "build"} \subseteq DOMAIN After
  BY DEF After
<1> QED
  BY <1>1 DEF Chained

\* At most one agent is neither done nor still to come.
LEMMA OneAtWork ==
  ASSUME NEW it, Chained(it), NEW s \in Stage, NEW t \in Stage,
         it[s].at \notin {"none", "done"}, s # t
  PROVE  it[t].at \in {"none", "done"} /\ (t = "governor" => it[t].at = "none")
BY ChainedIs DEF Stage

LEMMA OpenOutcome ==
  ASSUME NEW it, Chained(it), NEW s \in Stage, it[s].at = "open"
  PROVE  OutcomeOf(it) = "open"
<1>1. \A t \in Stage : it[t].at \in {"none", "done", "open"}
  BY OneAtWork
<1>2. it["governor"].at # "done"
  BY OneAtWork DEF Stage
<1> QED
  BY <1>1, <1>2 DEF OutcomeOf, Refusals

LEMMA RefusedOutcome ==
  ASSUME NEW it, Chained(it), NEW s \in Stage, it[s].at \in Refusals
  PROVE  OutcomeOf(it) = it[s].at
<1>1. it[s].at \notin {"none", "done"}
  BY DEF Refusals
<1>2. \A t \in Stage : it[t].at \in Refusals => it[t].at = it[s].at
  BY <1>1, OneAtWork DEF Refusals
<1>3. it["governor"].at # "done"
  BY <1>1, OneAtWork DEF Stage
<1>4. (CHOOSE r \in Refusals : \E t \in Stage : it[t].at = r) = it[s].at
  <2>1. \A r \in Refusals : (\E t \in Stage : it[t].at = r) <=> r = it[s].at
    BY <1>2
  <2> QED
    BY <2>1
<1> QED
  BY <1>3, <1>4 DEF OutcomeOf

\* A run is created.
Creates ==
  /\ config = Nil /\ config' # Nil /\ candidate' = candidate
  /\ item'["build"].at = "open"
  /\ \A t \in Stage \ {"build"} : item'[t].at = item[t].at

\* An agent is done, and the next one begins.
HandsOn(s) ==
  /\ UNCHANGED <<config, candidate>>
  /\ item[s].at = "open" /\ item'[After[s]].at = "open" /\ After[s] \in Stage

\* An agent ends the run.
Stops(s) ==
  /\ UNCHANGED <<config, candidate>>
  /\ item[s].at = "open" /\ item'[s].at \in Refusals

\* The governor names the candidate.
Concludes ==
  /\ config' = config
  /\ item["governor"].at = "open" /\ item'["governor"].at = "done"
  /\ \E k \in Number : Names(k)

Stays ==
  /\ UNCHANGED <<config, candidate>>
  /\ \A t \in Stage : item'[t].at = item[t].at

\* What a step does to the run: an attempt whose lease has run out does nothing.
LEMMA ItemsMove ==
  ASSUME LaneShape, LaneNext
  PROVE  \/ Stays \/ Creates \/ Concludes
         \/ \E s \in Stage : HandsOn(s) \/ Stops(s)
<1> DEFINE Goal == \/ Stays \/ Creates \/ Concludes
                   \/ \E s \in Stage : HandsOn(s) \/ Stops(s)
<1> SUFFICES Goal
  OBVIOUS
<1>1. ASSUME NEW c \in Starter, Pin(c) PROVE Goal
  <2>1. CASE config = Nil
    <3>1. /\ item' = [item EXCEPT
               !["build"] = Opened("build", With(Nothing, "index", disk["index"]))]
          /\ config' = disk["index"] /\ candidate' = candidate
      BY <1>1, <2>1 DEF Pin
    <3>2. config' # Nil
      <4>1. starter[c].at # "idle"
        BY <1>1 DEF Pin
      <4>2. disk["index"] \in Input
        BY <4>1 DEF LaneShape
      <4> QED
        BY <3>1, <4>2, LaneAssumption
    <3>3. /\ item'["build"].at = "open"
          /\ \A s \in Stage \ {"build"} : item'[s] = item[s]
      BY <3>1 DEF LaneShape, Stage, Opened
    <3> QED
      BY <2>1, <3>1, <3>2, <3>3 DEF Creates
  <2>2. CASE config # Nil
    BY <1>1, <2>2 DEF Pin, Stays
  <2> QED
    BY <2>1, <2>2
<1>2. ASSUME NEW c \in Starter, NEW i \in Input, Prepare(c, i) PROVE Goal
  BY <1>2 DEF Prepare, Stays
<1>3. ASSUME NEW s \in Stage, NEW k \in Number, Works(s, k) PROVE Goal
  <2>1. CASE Advances(s, k)
    BY <2>1 DEF Advances, Stays
  <2>2. ASSUME UNCHANGED <<config, candidate>>, Raises(s, k) PROVE Goal
    <3>1. /\ \A t \in Stage \ {s} : item'[t] = item[t]
          /\ \/ item'[s].at = item[s].at
             \/ item[s].at = "open" /\ item'[s].at = "dead"
      BY <1>3, <2>2, RaisesIs DEF Works
    <3> QED
      BY <2>2, <3>1 DEF Stays, Stops, Refusals
  <2>3. ASSUME UNCHANGED <<config, candidate>>, Close(s, k, "blocked") PROVE Goal
    <3>1. /\ \A t \in Stage \ {s} : item'[t] = item[t]
          /\ item'[s].at = IF Current(s, k) THEN "blocked" ELSE item[s].at
      BY <2>3, CloseIs
    <3> QED
      BY <2>3, <3>1 DEF Stays, Stops, Refusals, Current
  <2> QED
    BY <1>3, <2>1, <2>2, <2>3, WorksIs
<1>4. ASSUME NEW s \in Stage, NEW k \in Number, Succeed(s, k) PROVE Goal
  <2>1. UNCHANGED <<config, candidate>>
    BY <1>4, SucceedIs
  <2>2. CASE item' = item
    BY <2>1, <2>2 DEF Stays
  <2>3. CASE Hands(s, k)
    BY <2>1, <2>3, StageAfter DEF Hands, HandsOn, Current
  <2> QED
    BY <1>4, <2>2, <2>3, SucceedIs
<1>5. ASSUME NEW s \in Stage, NEW k \in Number, Expire(s, k) PROVE Goal
  <2>1. /\ Current(s, k) /\ Again(s, k, attempt[s][k])
        /\ UNCHANGED <<config, candidate>>
    BY <1>5 DEF Expire
  <2>2. /\ \A t \in Stage \ {s} : item'[t] = item[t]
        /\ item[s].at = "open" /\ item'[s].at \in {"open", "dead"}
    BY <2>1, AgainIs DEF Current
  <2> QED
    BY <2>1, <2>2 DEF Stays, Stops, Refusals
<1>6. ASSUME NEW k \in Number, Reject(k) PROVE Goal
  <2>1. Close("verifier", k, "rejected") /\ UNCHANGED <<config, candidate>>
    BY <1>6 DEF Reject
  <2>2. /\ \A t \in Stage \ {"verifier"} : item'[t] = item[t]
        /\ item'["verifier"].at =
             IF Current("verifier", k) THEN "rejected" ELSE item["verifier"].at
    BY <2>1, CloseIs, LaneFiles
  <2> QED
    BY <2>1, <2>2, LaneFiles DEF Stays, Stops, Refusals, Current
<1>7. ASSUME NEW k \in Number, Announce(k) PROVE Goal
  <2>1. /\ Close("governor", k, "done") /\ config' = config /\ Done("governor", k)
        /\ candidate' = IF Current("governor", k)
                        THEN item["governor"].payload["manifest"] ELSE candidate
    BY <1>7 DEF Announce
  <2>2. /\ \A t \in Stage \ {"governor"} : item'[t] = item[t]
        /\ item'["governor"].at =
             IF Current("governor", k) THEN "done" ELSE item["governor"].at
    BY <2>1, CloseIs, LaneFiles
  <2>3. CASE Current("governor", k)
    BY <2>1, <2>2, <2>3 DEF Concludes, Names, Current
  <2>4. CASE ~Current("governor", k)
    BY <2>1, <2>2, <2>4 DEF Stays
  <2> QED
    BY <2>3, <2>4
<1> QED
  BY <1>1, <1>2, <1>3, <1>4, <1>5, <1>6, <1>7 DEF LaneNext, Number

LEMMA DecisionRefined ==
  ASSUME LaneShape, LaneShape', CandidateInvariant, LaneNext
  PROVE  Decision!Next \/ UNCHANGED <<config, LaneOutcome, candidate>>
<1>1. /\ LaneOutcome = OutcomeOf(item) /\ LaneOutcome' = OutcomeOf(item')
      /\ Chained(item) /\ Chained(item')
  BY OutcomeIsOf
<1>2. \A s \in Stage : item[s].at # "none" => config # Nil
  BY DEF LaneShape
<1>3. CASE Stays
  <2>1. OutcomeOf(item') = OutcomeOf(item)
    BY <1>3, LaneFiles DEF Stays, OutcomeOf
  <2> QED
    BY <1>1, <1>3, <2>1 DEF Stays
<1>4. CASE Creates
  <2>1. OutcomeOf(item) = "open"
    BY <1>2, <1>4, LaneFiles DEF Creates, OutcomeOf, Refusals
  <2>2. OutcomeOf(item') = "open"
    BY <1>1, <1>4, OpenOutcome DEF Creates, Stage
  <2> QED
    BY <1>1, <1>4, <2>1, <2>2 DEF Creates, Decision!Next, Decision!Create
<1>5. ASSUME NEW s \in Stage, HandsOn(s) PROVE UNCHANGED <<config, LaneOutcome, candidate>>
  BY <1>1, <1>5, OpenOutcome DEF HandsOn
<1>6. ASSUME NEW s \in Stage, Stops(s) PROVE Decision!Refuse
  <2>1. OutcomeOf(item) = "open" /\ OutcomeOf(item') = item'[s].at
    BY <1>1, <1>6, OpenOutcome, RefusedOutcome DEF Stops
  <2>2. config # Nil
    BY <1>2, <1>6 DEF Stops
  <2> QED
    BY <1>1, <1>6, <2>1, <2>2 DEF Stops, Decision!Refuse
<1>7. CASE Concludes
  <2>1. OutcomeOf(item) = "open"
    BY <1>1, <1>7, OpenOutcome, LaneFiles DEF Concludes
  <2>2. OutcomeOf(item') = "candidate"
    BY <1>7 DEF Concludes, OutcomeOf
  <2>3. config # Nil /\ Signed(candidate')
    BY <1>2, <1>7, NamedIsVerified, LaneFiles DEF Concludes, CandidateInvariant
  <2> QED
    BY <1>1, <1>7, <2>1, <2>2, <2>3
    DEF Concludes, Decision!Next, Decision!Name, SignedFor
<1> QED
  BY <1>3, <1>4, <1>5, <1>6, <1>7, ItemsMove DEF Decision!Next

LEMMA DecisionBegins == LaneInit => Decision!Init
<1> SUFFICES ASSUME LaneInit PROVE Decision!Init
  OBVIOUS
<1>1. config = Nil /\ candidate = Nil /\ \A s \in Stage : item[s].at = "none"
  BY DEF LaneInit
<1>2. LaneOutcome = "open"
  BY <1>1, LaneFiles DEF LaneOutcome, Refused, Refusals
<1> QED
  BY <1>1, <1>2 DEF Decision!Init

\* Whatever starts, retries and lost leases do to a run, its decision is made once
\* and for good, by the agent that holds the lease; and a candidate is signed.
THEOREM LaneImplementsDecision == LaneSpec => ImplementsDecision
<1>1. LaneInit => Decision!Init /\ CandidateInvariant
  BY DecisionBegins, CandidateInit
<1>2. LaneShape /\ CandidateInvariant /\ [LaneNext]_laneVars => CandidateInvariant'
  BY CandidateStep, CandidateStutter
<1>3. LaneShape /\ LaneShape' /\ CandidateInvariant /\ [LaneNext]_laneVars
        => [Decision!Next]_<<config, LaneOutcome, candidate>>
  <2>1. ASSUME UNCHANGED laneVars PROVE UNCHANGED <<config, LaneOutcome, candidate>>
    BY <2>1 DEF laneVars, LaneOutcome, Refused
  <2> QED
    BY <2>1, DecisionRefined
<1> QED
  BY <1>1, <1>2, <1>3, LaneHasShape, PTL DEF LaneSpec, ImplementsDecision, Decision!Spec

-----------------------------------------------------------------------------
(* The verifier on its own.                                                 *)

\* The bundle that is looked up for a role has that role, and is of the manifest.
LEMMA BundleOfRole ==
  ASSUME NEW B, IdentifiedBundles(B), NEW role \in Role
  PROVE  BundleFor(B, role) \in ToSet(B) /\ BundleFor(B, role).role = role
<1>1. \E b \in ToSet(B) : b.role = role
  BY DEF IdentifiedBundles
<1> QED
  BY <1>1 DEF BundleFor

LEMMA AcceptedStatements ==
  ASSUME NEW e, NEW policy, Accepts(e, policy), NEW role \in Role
  PROVE  LET b == BundleFor(e.bundles, role)
         IN  /\ ToSet(b.subjects) = ToSet(e.artifacts)
             /\ b.certificate = CertificateOf(e.project)
             /\ role = "sbom" => b.predicate = e.sboms[1]
             /\ role = "policy" => b.predicate = PolicyPredicate(e.project)
<1>1. ValidVerificationOutput(BundleFor(e.bundles, role), role, ToSet(e.artifacts),
                              e.sboms[1], e.project)
  BY DEF Accepts
<1> QED
  BY <1>1 DEF ValidVerificationOutput, StatementSubjects

LEMMA EntryOfList ==
  ASSUME NEW T, NEW s \in Seq(T), NEW a \in ToSet(s)
  PROVE  a \in T
<1>1. PICK i \in DOMAIN s : a = s[i]
  BY DEF ToSet
<1>2. DOMAIN s = 1..Len(s)
  OBVIOUS
<1> QED
  BY <1>1, <1>2

\* The retained bundles say which release they are of: what is accepted with the
\* same three bundles is the same project at the same commit and tag, with the
\* same artifacts and the same SBOM, whatever the manifests say, and so evidence
\* cannot be carried over from one release to another (release_verification.py).
THEOREM BundlesBindTheirRelease ==
  ASSUME NEW e, NEW f, NEW policy, NEW other,
         Accepts(e, policy), Accepts(f, other), e.bundles = f.bundles
  PROVE  /\ e.project = f.project
         /\ ToSet(e.artifacts) = ToSet(f.artifacts)
         /\ e.sboms[1] = f.sboms[1]
<1> DEFINE policyBundle == BundleFor(e.bundles, "policy")
           sbomBundle == BundleFor(e.bundles, "sbom")
<1>1. /\ PolicyPredicate(e.project) = policyBundle.predicate
      /\ PolicyPredicate(f.project) = policyBundle.predicate
      /\ ToSet(e.artifacts) = ToSet(policyBundle.subjects)
      /\ ToSet(f.artifacts) = ToSet(policyBundle.subjects)
  BY AcceptedStatements DEF Role
<1>2. e.sboms[1] = sbomBundle.predicate /\ f.sboms[1] = sbomBundle.predicate
  BY AcceptedStatements DEF Role
<1>3. PolicyPredicate(e.project).project = PolicyPredicate(f.project).project
  BY <1>1
<1> QED
  BY <1>1, <1>2, <1>3 DEF PolicyPredicate

\* What the generated workflow uploads is accepted: for every project that the
\* policy allows and every list of different artifacts.
THEOREM WorkflowEvidenceIsAccepted ==
  ASSUME NEW policy, ValidPolicy(policy), policy.gh = Gh,
         NEW p, ValidProject(p, policy),
         NEW FileNames, NEW FileDigests,
         NEW artifacts \in Seq([name : FileNames, digest : FileDigests]),
         artifacts # <<>>, Distinct(artifacts)
  PROVE  Accepts(WorkflowManifest(p, artifacts), policy)
<1> DEFINE m == WorkflowManifest(p, artifacts)
           B == SignedBundles(p, artifacts)
<1>1. /\ m.project = p /\ m.artifacts = artifacts
      /\ m.sboms = << BoundSbom(artifacts) >> /\ m.bundles = B
  BY DEF WorkflowManifest
<1>2. Len(m.sboms) = 1 /\ m.sboms[1] = BoundSbom(artifacts)
  BY <1>1
<1>3. BoundSbom(artifacts).spdx23
  BY DEF BoundSbom
<1>4. ToSet(B) = {SignedBundle(p, artifacts, role) : role \in Role}
  <2>1. DOMAIN B = 1..3 /\ B[1] = SignedBundle(p, artifacts, "policy")
        /\ B[2] = SignedBundle(p, artifacts, "provenance")
        /\ B[3] = SignedBundle(p, artifacts, "sbom")
    BY DEF SignedBundles
  <2> HIDE DEF B
  <2>2. ToSet(B) = {B[1], B[2], B[3]}
    BY <2>1 DEF ToSet
  <2> QED
    BY <2>1, <2>2 DEF Role
<1>5. ASSUME NEW role \in Role
      PROVE  SignedBundle(p, artifacts, role).role = role
  BY DEF SignedBundle
<1>6. IdentifiedBundles(B)
  <2>1. Len(B) = 3
    BY DEF SignedBundles
  <2> HIDE DEF B
  <2>2. {b.role : b \in ToSet(B)} = Role
    BY <1>4, <1>5
  <2> QED
    BY <2>1, <2>2 DEF IdentifiedBundles
<1>7. ASSUME NEW role \in Role
      PROVE  BundleFor(B, role) = SignedBundle(p, artifacts, role)
  <2> HIDE DEF B
  <2>1. BundleFor(B, role) \in ToSet(B) /\ BundleFor(B, role).role = role
    BY <1>6, BundleOfRole
  <2>2. PICK other \in Role : BundleFor(B, role) = SignedBundle(p, artifacts, other)
    BY <1>4, <2>1
  <2>3. other = role
    BY <1>5, <2>1, <2>2
  <2> QED
    BY <2>2, <2>3
<1>8. ValidSpdxSubjectBinding(BoundSbom(artifacts), ToSet(artifacts))
  <2>1. ASSUME NEW a \in ToSet(artifacts)
        PROVE  a \in ReferencedSubjects(BoundSbom(artifacts))
    <3>1. a \in [name : FileNames, digest : FileDigests]
      BY <2>1, EntryOfList
    <3>2. a = [name |-> a.name, digest |-> a.digest]
      BY <3>1
    <3> DEFINE f == [described |-> TRUE, name |-> a.name, digest |-> a.digest]
    <3>3. f \in BoundSbom(artifacts).files
      BY DEF BoundSbom
    <3>4. f.described /\ f.name = a.name /\ f.digest = a.digest
      OBVIOUS
    <3> HIDE DEF f
    <3> QED
      BY <3>2, <3>3, <3>4 DEF ReferencedSubjects
  <2> QED
    BY <2>1 DEF ValidSpdxSubjectBinding
<1>9. artifacts[1] \in ToSet(artifacts) /\ Len(artifacts) > 0
  BY DEF ToSet
<1>10. ASSUME NEW role \in Role
       PROVE  /\ GhVerifies(SignedBundle(p, artifacts, role), artifacts[1],
                            ApprovedTypes[role], p)
              /\ ValidVerificationOutput(SignedBundle(p, artifacts, role), role,
                                         ToSet(artifacts), BoundSbom(artifacts), p)
  <2> DEFINE b == SignedBundle(p, artifacts, role)
  <2>1. /\ b.signed /\ b.logged
    BY DEF SignedBundle
  <2>2. /\ b.type = ApprovedTypes[role] /\ b.subjects = artifacts
        /\ b.certificate = CertificateOf(p)
    BY DEF SignedBundle
  <2>3. /\ role = "provenance" => b.predicate = ProvenanceOf(p)
        /\ role = "sbom" => b.predicate = BoundSbom(artifacts)
        /\ role = "policy" => b.predicate = PolicyPredicate(p)
    BY DEF SignedBundle
  <2>4. ValidProvenance(ProvenanceOf(p), p)
    BY DEF ValidProvenance, ProvenanceOf
  <2> HIDE DEF b
  <2>5. GhVerifies(b, artifacts[1], ApprovedTypes[role], p)
    BY <1>9, <2>1, <2>2 DEF GhVerifies
  <2>6. StatementSubjects(b, ToSet(artifacts))
    BY <2>2 DEF StatementSubjects
  <2>7. CASE role = "provenance"
    BY <2>1, <2>2, <2>3, <2>4, <2>5, <2>6, <2>7 DEF ValidVerificationOutput, b
  <2>8. CASE role = "sbom"
    BY <2>1, <2>2, <2>3, <2>5, <2>6, <2>8 DEF ValidVerificationOutput, b
  <2>9. CASE role = "policy"
    BY <2>1, <2>2, <2>3, <2>5, <2>6, <2>9 DEF ValidVerificationOutput, b
  <2> QED
    BY <2>7, <2>8, <2>9 DEF Role
<1> HIDE DEF B, m
<1>11. /\ ValidProject(m.project, policy) /\ m.artifacts # <<>> /\ Distinct(m.artifacts)
       /\ Len(m.sboms) = 1 /\ m.sboms[1].spdx23
       /\ IdentifiedBundles(m.bundles)
       /\ ValidSpdxSubjectBinding(m.sboms[1], ToSet(m.artifacts))
  <2>1. ValidProject(m.project, policy) /\ m.artifacts # <<>> /\ Distinct(m.artifacts)
    BY <1>1
  <2>2. Len(m.sboms) = 1 /\ m.sboms[1].spdx23 /\ IdentifiedBundles(m.bundles)
    BY <1>1, <1>2, <1>3, <1>6
  <2>3. ValidSpdxSubjectBinding(m.sboms[1], ToSet(m.artifacts))
    BY <1>1, <1>2, <1>8
  <2> QED
    BY <2>1, <2>2, <2>3
<1>12. \A role \in Role :
         LET b == BundleFor(m.bundles, role)
         IN  /\ GhVerifies(b, m.artifacts[1], ApprovedTypes[role], m.project)
             /\ ValidVerificationOutput(b, role, ToSet(m.artifacts), m.sboms[1],
                                        m.project)
  BY <1>1, <1>2, <1>7, <1>10
<1>13. Accepts(m, policy)
  BY <1>11, <1>12 DEF Accepts
<1> QED
  BY <1>13 DEF m
=============================================================================
