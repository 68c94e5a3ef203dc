------------------------- MODULE PublicationProofs -------------------------
(***************************************************************************)
(* Proofs about Publication for any number of requests, items, attempts    *)
(* and foreign pushes: one item per authorization, pushes within their     *)
(* window, and the refinement of OneTimeAuthorization.                     *)
(***************************************************************************)
EXTENDS Publication, TLAPS

\* Where only an item that executes can be, and only with the reservation.
Holding == {"inspect", "look", "push", "pushing", "verify", "mark"}
Executing == {"reserve", "look", "push", "pushing", "verify", "mark"}
Success == {"published", "already-published"}

Owns(i) ==
  /\ ledger[RequestOf[i]] # NULL
  /\ ledger[RequestOf[i]].item = i

Recorded(i) == Owns(i) /\ ledger[RequestOf[i]].status = "published"

\* What holds of an attempt, from its place and its push.
RowInv(i, row) ==
  /\ i \notin Executes => row.at \notin Executing /\ row.push = "none"
  /\ row.push # "none" => Owns(i)
  /\ i \in Executes /\ row.at \in Holding => Owns(i)
  /\ row.at = "complete" /\ row.result \in Success => Recorded(i)
  /\ row.at = "pushing" =>
       /\ clock <= row.deadline
       /\ row.deadline <= row.lease
       /\ row.deadline <= Expires[RequestOf[i]]

\* The inductive invariant.
PInv ==
  /\ TypeOK
  /\ \A i \in Item, n \in Number : RowInv(i, attempt[i][n])
  /\ \A i \in Item : item[i].status \in Success => Recorded(i)

\* Who owns a request does so for good, and a mark stays.
LedgerGrows ==
  \A i \in Item : (Owns(i) => Owns(i)') /\ (Recorded(i) => Recorded(i)')

LEMMA InitPInv == Init => PInv
<1> SUFFICES ASSUME Init PROVE PInv
  OBVIOUS
<1> USE DEF Init
<1>1. TypeOK
  <2>1. AttemptAt("absent", 0) \in AttemptRow
    BY BoundsAssumption
    DEF AttemptAt, AttemptRow, Place, Outcome, PushState
  <2>2. remote \in Sha
    BY RequestAssumption DEF Sha
  <2>3. item \in [Item -> ItemRow]
    BY BoundsAssumption DEF ItemRow, ItemStatus
  <2> QED
    BY <2>1, <2>2, <2>3, BoundsAssumption DEF TypeOK
<1>2. \A i \in Item, n \in Number : RowInv(i, attempt[i][n])
  BY DEF RowInv, AttemptAt, Executing, Holding
<1>3. \A i \in Item : item[i].status \notin Success
  BY DEF Success
<1> QED
  BY <1>1, <1>2, <1>3 DEF PInv

\* A step that changes one attempt keeps the invariant, if it does for that
\* attempt and its item.
LEMMA AttemptStep ==
  ASSUME PInv, NEW i \in Item, NEW n \in Number, NEW row \in AttemptRow,
         attempt' = [attempt EXCEPT ![i][n] = row],
         LedgerGrows, UNCHANGED <<clock, foreign>>,
         crashes' \in 0..MaxCrashes, remote' \in Sha, writer' \in Item \cup {NULL},
         ledger' \in [Request -> LedgerRow \cup {NULL}],
         item' \in [Item -> ItemRow],
         RowInv(i, attempt[i][n])',
         \A j \in Item : item'[j].status \in Success =>
           item'[j].status = item[j].status \/ Recorded(j)'
  PROVE  PInv'
<1>1. attempt' \in [Item -> [Number -> AttemptRow]]
  BY DEF PInv, TypeOK
<1>2. TypeOK'
  BY <1>1 DEF PInv, TypeOK
<1>3. ASSUME NEW j \in Item, NEW m \in Number PROVE RowInv(j, attempt[j][m])'
  <2>1. CASE j = i /\ m = n
    BY <2>1
  <2>2. CASE ~(j = i /\ m = n)
    <3>1. attempt'[j][m] = attempt[j][m]
      BY <2>2 DEF PInv, TypeOK
    <3>2. RowInv(j, attempt[j][m]) /\ UNCHANGED clock
      BY DEF PInv
    <3> QED
      BY <3>1, <3>2 DEF RowInv, LedgerGrows
  <2> QED
    BY <2>1, <2>2
<1>4. \A j \in Item : item'[j].status \in Success => Recorded(j)'
  BY DEF PInv, LedgerGrows
<1> QED
  BY <1>2, <1>3, <1>4 DEF PInv

\* The usual case: the step changes nothing but the attempt.
LEMMA LocalStep ==
  ASSUME PInv, NEW i \in Item, NEW n \in Number, NEW row \in AttemptRow,
         attempt' = [attempt EXCEPT ![i][n] = row], KeepShared,
         RowInv(i, row)
  PROVE  PInv'
<1>1. attempt'[i][n] = row
  BY DEF PInv, TypeOK
<1>2. LedgerGrows
  BY DEF KeepShared, LedgerGrows, Owns, Recorded
<1>3. RowInv(i, attempt[i][n])'
  BY <1>1 DEF KeepShared, RowInv, Owns, Recorded
<1>4. /\ UNCHANGED <<clock, foreign, item>>
      /\ crashes' \in 0..MaxCrashes
      /\ remote' \in Sha /\ writer' \in Item \cup {NULL}
      /\ ledger' \in [Request -> LedgerRow \cup {NULL}]
      /\ item' \in [Item -> ItemRow]
  BY DEF KeepShared, PInv, TypeOK
<1> QED
  BY <1>2, <1>3, <1>4, AttemptStep

\* Where an attempt is, and what it is going to report, keep it well typed.
LEMMA RowType ==
  ASSUME PInv, NEW i \in Item, NEW n \in Number
  PROVE  attempt[i][n] \in AttemptRow
BY DEF PInv, TypeOK

LEMMA RowChanges ==
  ASSUME PInv, NEW i \in Item, NEW n \in Number, NEW l \in Place
  PROVE  /\ attempt[i][n] \in AttemptRow
         /\ [attempt[i][n] EXCEPT !.at = l] \in AttemptRow
BY RowType DEF AttemptRow

LEMMA ResultChanges ==
  ASSUME PInv, NEW i \in Item, NEW n \in Number, NEW l \in Place,
         NEW result \in Outcome
  PROVE  /\ attempt[i][n] \in AttemptRow
         /\ [attempt[i][n] EXCEPT !.at = l, !.result = result] \in AttemptRow
BY RowType DEF AttemptRow

LEMMA GotoIs ==
  ASSUME PInv, NEW i \in Item, NEW n \in Number, NEW l \in Place
  PROVE  Goto(i, n, l) <=>
           attempt' = [attempt EXCEPT
             ![i][n] = [attempt[i][n] EXCEPT !.at = l]]
BY DEF Goto, PInv, TypeOK, AttemptRow

LEMMA ReturnIs ==
  ASSUME PInv, NEW i \in Item, NEW n \in Number, NEW result \in Outcome
  PROVE  Return(i, n, result) <=>
           attempt' = [attempt EXCEPT
             ![i][n] = [attempt[i][n] EXCEPT !.at = "complete",
                                             !.result = result]]
BY DEF Return, PInv, TypeOK, AttemptRow

\* An exception at any place of the handler.
LEMMA RaiseStep ==
  ASSUME PInv, NEW i \in Item, NEW n \in Number, Raise(i, n), KeepShared
  PROVE  PInv'
<1> DEFINE old == attempt[i][n]
<1>1. RowInv(i, old)
  BY DEF PInv
<1>2. "raised" \in Place /\ "complete" \in Place /\ "blocked" \in Outcome
  BY DEF Place, Outcome
<1>3. CASE Goto(i, n, "raised")
  <2> DEFINE row == [old EXCEPT !.at = "raised"]
  <2>1. row \in AttemptRow /\ old \in AttemptRow
    BY <1>2, RowChanges
  <2>2. RowInv(i, row)
    BY <1>1, <2>1 DEF RowInv, Executing, Holding, AttemptRow
  <2>3. attempt' = [attempt EXCEPT ![i][n] = row]
    BY <1>2, <1>3, GotoIs
  <2> QED
    BY <2>1, <2>2, <2>3, LocalStep
<1>4. CASE Return(i, n, "blocked")
  <2> DEFINE row == [old EXCEPT !.at = "complete", !.result = "blocked"]
  <2>1. row \in AttemptRow /\ old \in AttemptRow
    BY <1>2, ResultChanges
  <2>2. RowInv(i, row)
    BY <1>1, <2>1 DEF RowInv, Executing, Holding, Success, AttemptRow
  <2>3. attempt' = [attempt EXCEPT ![i][n] = row]
    BY <1>4 DEF Return, PInv, TypeOK, AttemptRow
  <2> QED
    BY <2>1, <2>2, <2>3, LocalStep
<1> QED
  BY <1>3, <1>4 DEF Raise

-----------------------------------------------------------------------------
(* The steps that change one attempt.                                       *)

LEMMA ValidateStep ==
  ASSUME PInv, NEW i \in Item, NEW n \in Number, Validate(i, n)
  PROVE  PInv'
<1> DEFINE old == attempt[i][n]
           l == IF i \in Executes THEN "reserve" ELSE "inspect"
           row == [old EXCEPT !.at = l]
<1>1. KeepShared /\ old.at = "validate" /\ RowInv(i, old)
  BY DEF Validate, PInv
<1>2. CASE Goto(i, n, l)
  <2>1. l \in Place
    BY DEF Place
  <2>2. row \in AttemptRow /\ old \in AttemptRow
    BY <2>1, RowChanges
  <2>3. RowInv(i, row)
    BY <1>1, <2>2 DEF RowInv, Executing, Holding, AttemptRow
  <2>4. attempt' = [attempt EXCEPT ![i][n] = row]
    BY <1>2, <2>1, GotoIs
  <2> QED
    BY <1>1, <2>2, <2>3, <2>4, LocalStep
<1>3. CASE Raise(i, n)
  BY <1>1, <1>3, RaiseStep
<1> QED
  BY <1>2, <1>3 DEF Validate

\* The ledger changes in one row, which was absent or the item's own.
LEMMA ReserveStep ==
  ASSUME PInv, NEW i \in Item, NEW n \in Number, Reserve(i, n)
  PROVE  PInv'
<1> DEFINE r == RequestOf[i]
           old == attempt[i][n]
           row(l) == [old EXCEPT !.at = l]
<1>1. /\ RowInv(i, old) /\ old.at = "reserve" /\ r \in Request
      /\ UNCHANGED <<clock, remote, writer, item, foreign, crashes>>
  BY RequestAssumption DEF Reserve, PInv
<1>2. ASSUME NEW l \in Place
      PROVE  row(l) \in AttemptRow /\ old \in AttemptRow
  BY RowChanges
<1>3. "inspect" \in Place /\ "raised" \in Place
  BY DEF Place
<1>4. CASE /\ Reservable(r, i)
           /\ ledger' = [ledger EXCEPT ![r] =
                IF ledger[r] = NULL THEN [item |-> i, status |-> "reserved"]
                ELSE ledger[r]]
           /\ Goto(i, n, "inspect")
  <2>1. /\ attempt' = [attempt EXCEPT ![i][n] = row("inspect")]
        /\ attempt'[i][n] = row("inspect")
    <3>1. attempt' = [attempt EXCEPT ![i][n] = row("inspect")]
      BY <1>3, <1>4, GotoIs
    <3> QED
      BY <3>1 DEF PInv, TypeOK
  <2>2. ledger' \in [Request -> LedgerRow \cup {NULL}]
    BY <1>4 DEF PInv, TypeOK, LedgerRow
  <2>3. LedgerGrows /\ Owns(i)'
    <3>1. \A q \in Request : q # r => ledger'[q] = ledger[q]
      BY <1>4 DEF PInv, TypeOK
    <3>2. ledger[r] # NULL => ledger'[r] = ledger[r]
      BY <1>1, <1>4 DEF PInv, TypeOK
    <3>3. LedgerGrows
      BY <3>1, <3>2, RequestAssumption DEF LedgerGrows, Owns, Recorded
    <3>4. CASE ledger[r] # NULL
      BY <3>2, <3>3, <3>4, <1>4 DEF Owns, Reservable
    <3>5. CASE ledger[r] = NULL
      <4>1. ledger'[r] = [item |-> i, status |-> "reserved"]
        BY <1>1, <1>4, <3>5 DEF PInv, TypeOK
      <4>2. [item |-> i, status |-> "reserved"] # NULL
        BY RequestAssumption DEF LedgerRow
      <4> QED
        BY <3>3, <4>1, <4>2 DEF Owns
    <3> QED
      BY <3>3, <3>4, <3>5
  <2>4. RowInv(i, attempt[i][n])'
    BY <1>1, <1>2, <1>3, <2>1, <2>3
    DEF RowInv, Executing, Holding, AttemptRow
  <2> QED
    BY <1>1, <1>2, <1>3, <2>1, <2>2, <2>3, <2>4, AttemptStep
    DEF PInv, TypeOK
<1>5. CASE Raise(i, n) /\ UNCHANGED ledger
  BY <1>1, <1>5, RaiseStep DEF KeepShared
<1>6. CASE Goto(i, n, "raised") /\ UNCHANGED ledger
  <2>1. RowInv(i, row("raised"))
    BY <1>1, <1>2, <1>3 DEF RowInv, Executing, Holding, AttemptRow
  <2>2. attempt' = [attempt EXCEPT ![i][n] = row("raised")]
    BY <1>3, <1>6, GotoIs
  <2> QED
    BY <1>1, <1>2, <1>3, <1>6, <2>1, <2>2, LocalStep DEF KeepShared
<1> QED
  BY <1>4, <1>5, <1>6 DEF Reserve

LEMMA InspectStep ==
  ASSUME PInv, NEW i \in Item, NEW n \in Number, Inspect(i, n)
  PROVE  PInv'
<1> DEFINE old == attempt[i][n]
<1>1. KeepShared /\ old.at = "inspect" /\ RowInv(i, old)
  BY DEF Inspect, PInv
<1>2. "look" \in Place /\ "complete" \in Place /\ "planned" \in Outcome
  BY DEF Place, Outcome
<1>3. CASE i \in Executes /\ Goto(i, n, "look")
  <2> DEFINE row == [old EXCEPT !.at = "look"]
  <2>1. row \in AttemptRow /\ old \in AttemptRow
    BY <1>2, RowChanges
  <2>2. RowInv(i, row)
    BY <1>1, <1>3, <2>1 DEF RowInv, Executing, Holding, AttemptRow
  <2>3. attempt' = [attempt EXCEPT ![i][n] = row]
    BY <1>2, <1>3, GotoIs
  <2> QED
    BY <1>1, <2>1, <2>2, <2>3, LocalStep
<1>4. CASE Return(i, n, "planned")
  <2> DEFINE row == [old EXCEPT !.at = "complete", !.result = "planned"]
  <2>1. row \in AttemptRow /\ old \in AttemptRow
    BY <1>2, ResultChanges
  <2>2. RowInv(i, row)
    BY <1>1, <2>1 DEF RowInv, Executing, Holding, Success, AttemptRow
  <2>3. attempt' = [attempt EXCEPT ![i][n] = row]
    BY <1>4 DEF Return, PInv, TypeOK, AttemptRow
  <2> QED
    BY <1>1, <2>1, <2>2, <2>3, LocalStep
<1>5. CASE Raise(i, n)
  BY <1>1, <1>5, RaiseStep
<1> QED
  BY <1>3, <1>4, <1>5 DEF Inspect

\* A step from one place of a reservation's holder to another.
LEMMA HeldStep ==
  ASSUME PInv, NEW i \in Item, NEW n \in Number, KeepShared,
         NEW l \in {"push", "verify", "mark", "raised"},
         NEW result \in Outcome, NEW push \in PushState,
         attempt[i][n].at \in {"look", "push", "pushing", "verify", "mark"},
         attempt' = [attempt EXCEPT
           ![i][n] = [attempt[i][n] EXCEPT !.at = l, !.result = result,
                                           !.push = push]]
  PROVE  PInv'
<1> DEFINE old == attempt[i][n]
           row == [old EXCEPT !.at = l, !.result = result, !.push = push]
<1>1. old \in AttemptRow /\ RowInv(i, old)
  BY RowType DEF PInv
<1>2. row \in AttemptRow
  BY <1>1 DEF AttemptRow, Place
<1>3. RowInv(i, row)
  BY <1>1, <1>2 DEF RowInv, Executing, Holding, AttemptRow
<1> QED
  BY <1>2, <1>3, LocalStep

LEMMA LookStep ==
  ASSUME PInv, NEW i \in Item, NEW n \in Number, Look(i, n)
  PROVE  PInv'
<1> DEFINE old == attempt[i][n]
<1>1. KeepShared /\ old.at = "look" /\ old \in AttemptRow
  BY RowType DEF Look
<1>2. old.result \in Outcome /\ old.push \in PushState
      /\ "already-published" \in Outcome
  BY <1>1 DEF AttemptRow, Outcome
<1>3. CASE attempt' = [attempt EXCEPT ![i][n].at = "mark",
                                      ![i][n].result = "already-published"]
  <2>1. attempt' = [attempt EXCEPT
          ![i][n] = [old EXCEPT !.at = "mark", !.result = "already-published",
                                !.push = old.push]]
    BY <1>1, <1>3 DEF PInv, TypeOK, AttemptRow
  <2> QED
    BY <1>1, <1>2, <2>1, HeldStep
<1>4. CASE Goto(i, n, "push")
  <2>1. attempt' = [attempt EXCEPT
          ![i][n] = [old EXCEPT !.at = "push", !.result = old.result,
                                !.push = old.push]]
    BY <1>1, <1>4 DEF Goto, PInv, TypeOK, AttemptRow
  <2> QED
    BY <1>1, <1>2, <2>1, HeldStep
<1>5. CASE Raise(i, n)
  BY <1>1, <1>5, RaiseStep
<1> QED
  BY <1>3, <1>4, <1>5 DEF Look

\* The deadline of a push lies within its lease and its authorization.
LEMMA PushStep ==
  ASSUME PInv, NEW i \in Item, NEW n \in Number, Push(i, n)
  PROVE  PInv'
<1> DEFINE old == attempt[i][n]
           d == clock + Minimum(Window(i, n), MaxPush)
           row == [old EXCEPT !.at = "pushing", !.push = "sent", !.deadline = d]
<1>1. KeepShared /\ old.at = "push" /\ old \in AttemptRow /\ RowInv(i, old)
  BY RowType DEF Push, PInv
<1>2. CASE /\ Window(i, n) >= MinWindow
           /\ attempt' = [attempt EXCEPT ![i][n].at = "pushing",
                                         ![i][n].push = "sent",
                                         ![i][n].deadline = d]
  <2>1. /\ old.lease \in Int /\ Expires[RequestOf[i]] \in Int
        /\ clock \in Int /\ MaxPush \in Nat \ {0} /\ MinWindow \in Nat \ {0}
    BY <1>1, RequestAssumption, BoundsAssumption
    DEF AttemptRow, PInv, TypeOK
  <2>2. Window(i, n) \in Int /\ Window(i, n) >= MinWindow
        /\ clock + Window(i, n) <= old.lease
        /\ clock + Window(i, n) <= Expires[RequestOf[i]]
    BY <1>2, <2>1 DEF Window, Minimum
  <2>3. /\ d \in Int /\ clock <= d
        /\ d <= old.lease /\ d <= Expires[RequestOf[i]]
    BY <2>1, <2>2 DEF Minimum
  <2> HIDE DEF d
  <2>4. row \in AttemptRow
    BY <1>1, <2>3 DEF AttemptRow, Place, PushState
  <2>5. RowInv(i, row)
    BY <1>1, <2>3, <2>4 DEF RowInv, Executing, Holding, AttemptRow
  <2>6. attempt' = [attempt EXCEPT ![i][n] = row]
    BY <1>2 DEF PInv, TypeOK, AttemptRow
  <2> QED
    BY <1>1, <2>4, <2>5, <2>6, LocalStep
<1>3. CASE Raise(i, n)
  BY <1>1, <1>3, RaiseStep
<1> QED
  BY <1>2, <1>3 DEF Push

LEMMA LandStep ==
  ASSUME PInv, NEW i \in Item, NEW n \in Number, Land(i, n)
  PROVE  PInv'
<1> DEFINE old == attempt[i][n]
           row == [old EXCEPT !.push = "landed"]
<1>1. /\ old \in AttemptRow /\ old.push = "sent" /\ RowInv(i, old)
      /\ UNCHANGED <<clock, ledger, item, foreign, crashes>>
  BY RowType DEF Land, PInv
<1>2. row \in AttemptRow
  BY <1>1 DEF AttemptRow, PushState
<1>3. attempt' = [attempt EXCEPT ![i][n] = row] /\ attempt'[i][n] = row
  BY DEF Land, PInv, TypeOK, AttemptRow
<1>4. LedgerGrows
  BY <1>1 DEF LedgerGrows, Owns, Recorded
<1>5. RowInv(i, attempt[i][n])'
  BY <1>1, <1>2, <1>3 DEF RowInv, Owns, Recorded, AttemptRow
<1>6. remote' \in Sha /\ writer' \in Item \cup {NULL}
  BY RequestAssumption DEF Land, Sha
<1> QED
  BY <1>1, <1>2, <1>3, <1>4, <1>5, <1>6, AttemptStep DEF PInv, TypeOK

LEMMA PushReturnsStep ==
  ASSUME PInv, NEW i \in Item, NEW n \in Number, PushReturns(i, n)
  PROVE  PInv'
<1> DEFINE old == attempt[i][n]
           gone == IF old.push = "landed" THEN "landed" ELSE "none"
<1>1. KeepShared /\ old.at = "pushing" /\ old \in AttemptRow
  BY RowType DEF PushReturns
<1>2. old.result \in Outcome /\ {gone, old.push} \subseteq PushState
  BY <1>1 DEF AttemptRow, PushState
<1>3. PICK l \in {"verify", "raised"}, push \in {gone, old.push} :
        attempt' = [attempt EXCEPT ![i][n].at = l, ![i][n].push = push]
  BY DEF PushReturns
<1>4. attempt' = [attempt EXCEPT
        ![i][n] = [old EXCEPT !.at = l, !.result = old.result, !.push = push]]
  BY <1>1, <1>3 DEF PInv, TypeOK, AttemptRow
<1> QED
  BY <1>1, <1>2, <1>4, HeldStep

LEMMA VerifyStep ==
  ASSUME PInv, NEW i \in Item, NEW n \in Number, Verify(i, n)
  PROVE  PInv'
<1> DEFINE old == attempt[i][n]
<1>1. KeepShared /\ old.at = "verify" /\ old \in AttemptRow
  BY RowType DEF Verify
<1>2. CASE attempt' = [attempt EXCEPT ![i][n].at = "mark",
                                      ![i][n].result = "published"]
  <2>1. attempt' = [attempt EXCEPT
          ![i][n] = [old EXCEPT !.at = "mark", !.result = "published",
                                !.push = old.push]]
    BY <1>1, <1>2 DEF PInv, TypeOK, AttemptRow
  <2>2. old.push \in PushState /\ "published" \in Outcome
    BY <1>1 DEF AttemptRow, Outcome
  <2> QED
    BY <1>1, <2>1, <2>2, HeldStep
<1>3. CASE Raise(i, n)
  BY <1>1, <1>3, RaiseStep
<1> QED
  BY <1>2, <1>3 DEF Verify

LEMMA MarkStep ==
  ASSUME PInv, NEW i \in Item, NEW n \in Number, Mark(i, n)
  PROVE  PInv'
<1> DEFINE r == RequestOf[i]
           old == attempt[i][n]
           row == [old EXCEPT !.at = "complete"]
<1>1. /\ RowInv(i, old) /\ old.at = "mark" /\ r \in Request
      /\ UNCHANGED <<clock, remote, writer, item, foreign, crashes>>
  BY RequestAssumption DEF Mark, PInv
<1>2. CASE /\ ledger[r] # NULL /\ ledger[r].item = i
           /\ ledger' = [ledger EXCEPT ![r].status = "published"]
           /\ Goto(i, n, "complete")
  <2>1. ledger[r] \in LedgerRow
    BY <1>1, <1>2 DEF PInv, TypeOK
  <2>2. /\ \A q \in Request : q # r => ledger'[q] = ledger[q]
        /\ ledger'[r] = [ledger[r] EXCEPT !.status = "published"]
    BY <1>1, <1>2 DEF PInv, TypeOK
  <2>3. /\ ledger'[r] \in LedgerRow
        /\ ledger'[r].item = i /\ ledger'[r].status = "published"
    BY <1>2, <2>1, <2>2 DEF LedgerRow
  <2>4. ledger' \in [Request -> LedgerRow \cup {NULL}]
    BY <1>2, <2>3 DEF PInv, TypeOK
  <2>5. Owns(i)' /\ Recorded(i)'
    BY <2>3, RequestAssumption DEF Owns, Recorded
  <2>6. LedgerGrows
    BY <1>2, <2>2, <2>5, RequestAssumption DEF LedgerGrows, Owns, Recorded
  <2>7. row \in AttemptRow /\ old \in AttemptRow /\ "complete" \in Place
    BY RowChanges DEF Place
  <2>8. attempt' = [attempt EXCEPT ![i][n] = row]
    BY <1>2, <2>7, GotoIs
  <2>9. attempt'[i][n] = row
    BY <2>8 DEF PInv, TypeOK
  <2>10. RowInv(i, attempt[i][n])'
    BY <1>1, <2>5, <2>7, <2>9
    DEF RowInv, Executing, Holding, AttemptRow
  <2> QED
    BY <1>1, <2>4, <2>6, <2>7, <2>8, <2>10, AttemptStep DEF PInv, TypeOK
<1>3. CASE Raise(i, n) /\ UNCHANGED ledger
  BY <1>1, <1>3, RaiseStep DEF KeepShared
<1> QED
  BY <1>2, <1>3 DEF Mark

-----------------------------------------------------------------------------
(* The steps that change the status of an item.                             *)

\* An attempt ends, and its item may get a status that it has earned.
LEMMA OverStep ==
  ASSUME PInv, NEW i \in Item, NEW n \in Number, Goto(i, n, "over"),
         UNCHANGED <<clock, remote, writer, ledger, foreign>>,
         crashes' \in 0..MaxCrashes,
         item' \in [Item -> ItemRow],
         \A j \in Item : item'[j].status \in Success =>
           item'[j].status = item[j].status \/ Recorded(j)
  PROVE  PInv'
<1> DEFINE old == attempt[i][n]
           row == [old EXCEPT !.at = "over"]
<1>1. RowInv(i, old)
  BY DEF PInv
<1>2. row \in AttemptRow /\ old \in AttemptRow /\ "over" \in Place
  BY RowChanges DEF Place
<1>3. attempt' = [attempt EXCEPT ![i][n] = row]
  BY <1>2, GotoIs
<1>4. attempt'[i][n] = row
  BY <1>3 DEF PInv, TypeOK
<1>5. LedgerGrows /\ \A j \in Item : Recorded(j)' <=> Recorded(j)
  BY DEF LedgerGrows, Owns, Recorded
<1>6. RowInv(i, attempt[i][n])'
  BY <1>1, <1>2, <1>4 DEF RowInv, Owns, Executing, Holding, AttemptRow
<1>7. /\ remote' \in Sha /\ writer' \in Item \cup {NULL}
      /\ ledger' \in [Request -> LedgerRow \cup {NULL}]
  BY DEF PInv, TypeOK
<1> QED
  BY <1>2, <1>3, <1>5, <1>6, <1>7, AttemptStep

LEMMA CompleteStep ==
  ASSUME PInv, NEW i \in Item, NEW n \in Number, Complete(i, n)
  PROVE  PInv'
<1> DEFINE old == attempt[i][n]
<1>1. /\ RowInv(i, old) /\ old \in AttemptRow /\ old.at = "complete"
      /\ Goto(i, n, "over") /\ crashes' \in 0..MaxCrashes
      /\ UNCHANGED <<clock, remote, writer, ledger, foreign>>
  BY RowType DEF Complete, PInv, TypeOK
<1>2. CASE item' = [item EXCEPT ![i].status = old.result, ![i].current = 0]
  <2>1. old.result \in ItemStatus /\ 0 \in 0..MaxAttempts
    BY <1>1, BoundsAssumption DEF AttemptRow, ItemStatus
  <2>2. item' \in [Item -> ItemRow]
    BY <1>2, <2>1 DEF PInv, TypeOK, ItemRow
  <2>3. \A j \in Item : item'[j].status =
          IF j = i THEN old.result ELSE item[j].status
    BY <1>2 DEF PInv, TypeOK, ItemRow
  <2>4. \A j \in Item : item'[j].status \in Success =>
          item'[j].status = item[j].status \/ Recorded(j)
    BY <1>1, <2>3 DEF RowInv
  <2> QED
    BY <1>1, <2>2, <2>4, OverStep
<1>3. CASE UNCHANGED item
  BY <1>1, <1>3, OverStep DEF PInv, TypeOK
<1> QED
  BY <1>2, <1>3 DEF Complete

LEMMA FailStep ==
  ASSUME PInv, NEW i \in Item, NEW n \in Number, Fail(i, n)
  PROVE  PInv'
<1>1. /\ Goto(i, n, "over") /\ crashes' \in 0..MaxCrashes
      /\ UNCHANGED <<clock, remote, writer, ledger, foreign>>
  BY DEF Fail, PInv, TypeOK
<1>2. CASE item' = [item EXCEPT
             ![i].status = IF item[i].attempts < MaxAttempts THEN @ ELSE "dead",
             ![i].current = 0]
  <2>1. "dead" \in ItemStatus /\ "dead" \notin Success /\ 0 \in 0..MaxAttempts
    BY BoundsAssumption DEF ItemStatus, Success
  <2>2. item' \in [Item -> ItemRow]
    BY <1>2, <2>1 DEF PInv, TypeOK, ItemRow
  <2>3. \A j \in Item :
          item'[j].status = item[j].status \/ item'[j].status = "dead"
    BY <1>2 DEF PInv, TypeOK, ItemRow
  <2>4. \A j \in Item : item'[j].status \in Success =>
          item'[j].status = item[j].status
    BY <2>1, <2>3
  <2> QED
    BY <1>1, <2>2, <2>4, OverStep
<1>3. CASE UNCHANGED item
  BY <1>1, <1>3, OverStep DEF PInv, TypeOK
<1> QED
  BY <1>2, <1>3 DEF Fail

LEMMA CrashStep ==
  ASSUME PInv, NEW i \in Item, NEW n \in Number, Crash(i, n)
  PROVE  PInv'
<1>1. crashes' \in 0..MaxCrashes
  BY BoundsAssumption DEF Crash, PInv, TypeOK
<1> QED
  BY <1>1, OverStep DEF Crash, PInv, TypeOK

\* A step that leaves the attempts, the ledger and the clock alone.
LEMMA ItemStep ==
  ASSUME PInv, UNCHANGED <<clock, ledger, attempt, crashes>>,
         foreign' \in 0..MaxForeign,
         remote' \in Sha, writer' \in Item \cup {NULL},
         item' \in [Item -> ItemRow],
         \A j \in Item : item'[j].status \in Success =>
           item'[j].status = item[j].status
  PROVE  PInv'
<1>1. TypeOK'
  BY DEF PInv, TypeOK
<1>2. \A j \in Item : Owns(j)' = Owns(j) /\ Recorded(j)' = Recorded(j)
  BY DEF Owns, Recorded
<1>3. \A j \in Item, m \in Number : RowInv(j, attempt[j][m])'
  BY <1>2 DEF PInv, RowInv
<1>4. \A j \in Item : item'[j].status \in Success => Recorded(j)'
  BY <1>2 DEF PInv
<1> QED
  BY <1>1, <1>3, <1>4 DEF PInv

LEMMA AuthorizeStep ==
  ASSUME PInv, NEW i \in Item, Authorize(i)
  PROVE  PInv'
<1>1. PICK status \in {"authorized", "blocked"} :
        item' = [item EXCEPT ![i].status = status]
  BY DEF Authorize
<1>2. item' \in [Item -> ItemRow]
  BY <1>1 DEF PInv, TypeOK, ItemRow, ItemStatus, Outcome
<1>3. \A j \in Item : item'[j].status = item[j].status
                        \/ item'[j].status \in {"authorized", "blocked"}
  BY <1>1 DEF PInv, TypeOK, ItemRow
<1> QED
  BY <1>2, <1>3, ItemStep DEF Authorize, PInv, TypeOK, Success

LEMMA ClaimKeeps ==
  ASSUME PInv, NEW i \in Item, Claim(i)
  PROVE  PInv'
<1> DEFINE row == AttemptAt("validate", clock + LeaseSeconds)
<1>1. /\ item[i] \in ItemRow /\ item[i].attempts \in 0..MaxAttempts
      /\ UNCHANGED <<clock, remote, writer, ledger, foreign, crashes>>
  BY DEF Claim, PInv, TypeOK, ItemRow
<1>2. CASE item[i].attempts < MaxAttempts
  <2>1. PICK n \in Number \cap (0..MaxAttempts) :
          /\ item' = [item EXCEPT ![i].attempts = n, ![i].current = n]
          /\ attempt' = [attempt EXCEPT ![i][n] = row]
    <3>1. item[i].attempts + 1 \in Number \cap (0..MaxAttempts)
      BY <1>1, <1>2, BoundsAssumption DEF Number
    <3> QED
      BY <1>2, <3>1 DEF Claim
  <2>2. clock + LeaseSeconds \in 0..(MaxClock + LeaseSeconds)
    BY BoundsAssumption DEF PInv, TypeOK
  <2>3. row \in AttemptRow /\ row.at = "validate" /\ row.push = "none"
    BY <2>2 DEF AttemptAt, AttemptRow, Place, Outcome, PushState
  <2>4. item' \in [Item -> ItemRow]
    BY <2>1 DEF PInv, TypeOK, ItemRow
  <2>5. \A j \in Item : item'[j].status = item[j].status
    BY <2>1 DEF PInv, TypeOK, ItemRow
  <2>6. attempt'[i][n] = row
    BY <2>1 DEF PInv, TypeOK
  <2>7. RowInv(i, attempt[i][n])'
    BY <2>3, <2>6 DEF RowInv, Executing, Holding
  <2>8. LedgerGrows
    BY <1>1 DEF LedgerGrows, Owns, Recorded
  <2>9. /\ crashes' \in 0..MaxCrashes /\ remote' \in Sha
        /\ writer' \in Item \cup {NULL}
        /\ ledger' \in [Request -> LedgerRow \cup {NULL}]
    BY <1>1 DEF PInv, TypeOK
  <2> QED
    BY <1>1, <2>1, <2>3, <2>4, <2>5, <2>7, <2>8, <2>9, AttemptStep
<1>3. CASE ~(item[i].attempts < MaxAttempts)
  <2>1. /\ item' = [item EXCEPT ![i].status = "dead", ![i].current = 0]
        /\ UNCHANGED attempt
    BY <1>3 DEF Claim
  <2>2. "dead" \in ItemStatus /\ "dead" \notin Success /\ 0 \in 0..MaxAttempts
    BY BoundsAssumption DEF ItemStatus, Success
  <2>3. item' \in [Item -> ItemRow]
    BY <2>1, <2>2 DEF PInv, TypeOK, ItemRow
  <2>4. \A j \in Item : item'[j].status = item[j].status
                          \/ item'[j].status = "dead"
    BY <2>1 DEF PInv, TypeOK, ItemRow
  <2> QED
    BY <1>1, <2>1, <2>2, <2>3, <2>4, ItemStep DEF PInv, TypeOK
<1> QED
  BY <1>2, <1>3

LEMMA ForeignStep ==
  ASSUME PInv, NEW v \in Sha, Foreign(v)
  PROVE  PInv'
<1>1. foreign' \in 0..MaxForeign
  BY BoundsAssumption DEF Foreign, PInv, TypeOK
<1> QED
  BY <1>1, ItemStep DEF Foreign, PInv, TypeOK

\* The clock does not pass the deadline of a push that is waited for.
LEMMA TickStep ==
  ASSUME PInv, Tick
  PROVE  PInv'
<1>1. TypeOK'
  BY BoundsAssumption DEF Tick, PInv, TypeOK
<1>2. \A j \in Item : Owns(j)' = Owns(j) /\ Recorded(j)' = Recorded(j)
  BY DEF Tick, Owns, Recorded
<1>3. ASSUME NEW j \in Item, NEW m \in Number
      PROVE  RowInv(j, attempt[j][m])'
  <2>1. RowInv(j, attempt[j][m]) /\ attempt[j][m] \in AttemptRow
    BY RowType DEF PInv
  <2>2. attempt[j][m].at = "pushing" => clock' <= attempt[j][m].deadline
    BY <2>1 DEF Tick, PInv, TypeOK, AttemptRow
  <2> QED
    BY <1>2, <2>1, <2>2 DEF Tick, RowInv
<1>4. \A j \in Item : item'[j].status \in Success => Recorded(j)'
  BY <1>2 DEF PInv, Tick
<1> QED
  BY <1>1, <1>3, <1>4 DEF PInv

-----------------------------------------------------------------------------
LEMMA NextPInv == PInv /\ [Next]_vars => PInv'
<1> SUFFICES ASSUME PInv, [Next]_vars PROVE PInv'
  OBVIOUS
<1>1. CASE UNCHANGED vars
  <2>1. TypeOK'
    BY <1>1 DEF PInv, TypeOK, vars
  <2>2. \A j \in Item : Owns(j)' = Owns(j) /\ Recorded(j)' = Recorded(j)
    BY <1>1 DEF Owns, Recorded, vars
  <2>3. \A j \in Item, m \in Number : RowInv(j, attempt[j][m])'
    BY <1>1, <2>2 DEF PInv, RowInv, vars
  <2>4. \A j \in Item : item'[j].status \in Success => Recorded(j)'
    BY <1>1, <2>2 DEF PInv, vars
  <2> QED
    BY <2>1, <2>3, <2>4 DEF PInv
<1>2. CASE Tick
  BY <1>2, TickStep
<1>3. ASSUME NEW v \in Sha, Foreign(v) PROVE PInv'
  BY <1>3, ForeignStep
<1>4. ASSUME NEW i \in Item, Authorize(i) \/ Claim(i) PROVE PInv'
  BY <1>4, AuthorizeStep, ClaimKeeps
<1>5. ASSUME NEW i \in Item, NEW n \in Number, Handler(i, n) PROVE PInv'
  BY <1>5, ValidateStep, ReserveStep, InspectStep, LookStep, PushStep,
     PushReturnsStep, VerifyStep, MarkStep, CompleteStep, FailStep
  DEF Handler
<1>6. ASSUME NEW i \in Item, NEW n \in Number, Land(i, n) \/ Crash(i, n)
      PROVE  PInv'
  BY <1>6, LandStep, CrashStep
<1> QED
  BY <1>1, <1>2, <1>3, <1>4, <1>5, <1>6 DEF Next

\* The inductive invariant: who holds a reservation does so for good, what is
\* reported as published is recorded, and a deadline lies within its window.
THEOREM PublicationInvariant == Spec => []PInv
BY InitPInv, NextPInv, PTL DEF Spec

\* Type correctness: in particular a row of the ledger is always one that its
\* schema allows, and attempts are numbered within the budget.
THEOREM TypeCorrect == Spec => []TypeOK
<1>1. PInv => TypeOK
  BY DEF PInv
<1> QED
  BY <1>1, PublicationInvariant, PTL

\* An authorization is used on behalf of one item, also by replays in other
\* runs and by pushes that outlive their process.
THEOREM AuthorizationHasOneConsumer == Spec => []OneConsumer
<1>1. PInv => OneConsumer
  BY DEF PInv, RowInv, OneConsumer, Owns, Holding
<1> QED
  BY <1>1, PublicationInvariant, PTL

\* A success in the store of a run is a success in the shared ledger.
THEOREM EverySuccessIsRecorded == Spec => []SuccessIsRecorded
<1>1. PInv => SuccessIsRecorded
  <2> SUFFICES ASSUME PInv, NEW i \in Item, item[i].status \in Success
               PROVE  ledger[RequestOf[i]] =
                        [item |-> i, status |-> "published"]
    BY DEF SuccessIsRecorded, Success
  <2>1. Recorded(i) /\ ledger[RequestOf[i]] \in LedgerRow
    BY RequestAssumption DEF PInv, TypeOK, Recorded, Owns
  <2> QED
    BY <2>1 DEF Recorded, Owns, LedgerRow
<1> QED
  BY <1>1, PublicationInvariant, PTL

\* A push whose process is alive lands within its authorization and its lease.
THEOREM PushesLandInWindow == Spec => MutationWindow
<1>1. PInv => \A i \in Item, n \in Number : InWindow(i, n)
  <2> SUFFICES ASSUME PInv, NEW i \in Item, NEW n \in Number,
                      attempt[i][n].at = "pushing"
               PROVE  clock <= Expires[RequestOf[i]]
                        /\ clock <= attempt[i][n].lease
    BY DEF InWindow
  <2>1. RowInv(i, attempt[i][n]) /\ attempt[i][n] \in AttemptRow
    BY RowType DEF PInv
  <2>2. /\ clock \in Int /\ attempt[i][n].deadline \in Int
        /\ attempt[i][n].lease \in Int /\ Expires[RequestOf[i]] \in Int
    BY <2>1, RequestAssumption, BoundsAssumption DEF AttemptRow, PInv, TypeOK
  <2> QED
    BY <2>1, <2>2 DEF RowInv
<1> QED
  BY <1>1, PublicationInvariant, PTL DEF MutationWindow

-----------------------------------------------------------------------------
(* The refinement of OneTimeAuthorization.                                  *)

Holder ==
  [r \in Request |-> IF ledger[r] = NULL THEN NULL ELSE ledger[r].item]

LEMMA InitRefines == Init => Promise!Init
BY RequestAssumption DEF Init, Promise!Init, Sha

LEMMA ReserveRefines ==
  ASSUME PInv, NEW i \in Item, NEW n \in Number, Reserve(i, n)
  PROVE  Promise!Next \/ UNCHANGED Promise!vars
<1> DEFINE r == RequestOf[i]
<1>1. r \in Request /\ UNCHANGED <<remote, writer>>
  BY RequestAssumption DEF Reserve
<1>2. CASE UNCHANGED ledger
  BY <1>1, <1>2 DEF Promise!vars
<1>3. CASE ledger' = [ledger EXCEPT ![r] =
             IF ledger[r] = NULL THEN [item |-> i, status |-> "reserved"]
             ELSE ledger[r]]
  <2>1. CASE ledger[r] # NULL
    <3>1. UNCHANGED ledger
      BY <1>3, <2>1 DEF PInv, TypeOK
    <3> QED
      BY <3>1, <1>2
  <2>2. CASE ledger[r] = NULL
    <3>1. ledger' = [ledger EXCEPT ![r] = [item |-> i, status |-> "reserved"]]
      BY <1>3, <2>2
    <3>2. [item |-> i, status |-> "reserved"] # NULL
      BY RequestAssumption DEF LedgerRow
    <3>3. Holder[r] = NULL /\ Holder' = [Holder EXCEPT ![r] = i]
      BY <1>1, <2>2, <3>1, <3>2 DEF Holder, PInv, TypeOK
    <3>4. Promise!Take(i)
      BY <1>1, <3>3 DEF Promise!Take, Holder
    <3> QED
      BY <3>4 DEF Promise!Next
  <2> QED
    BY <2>1, <2>2
<1> QED
  BY <1>2, <1>3 DEF Reserve

LEMMA MarkRefines ==
  ASSUME PInv, NEW i \in Item, NEW n \in Number, Mark(i, n)
  PROVE  UNCHANGED Promise!vars
<1> DEFINE r == RequestOf[i]
<1>1. r \in Request /\ UNCHANGED <<remote, writer>>
  BY RequestAssumption DEF Mark
<1>2. CASE UNCHANGED ledger
  BY <1>1, <1>2 DEF Promise!vars
<1>3. CASE /\ ledger[r] # NULL
           /\ ledger' = [ledger EXCEPT ![r].status = "published"]
  <2>1. ledger[r] \in LedgerRow
    BY <1>1, <1>3 DEF PInv, TypeOK
  <2>2. /\ \A q \in Request : q # r => ledger'[q] = ledger[q]
        /\ ledger'[r] = [ledger[r] EXCEPT !.status = "published"]
    BY <1>1, <1>3 DEF PInv, TypeOK
  <2>3. ledger'[r] \in LedgerRow /\ ledger'[r].item = ledger[r].item
    BY <2>1, <2>2 DEF LedgerRow
  <2>4. ledger'[r] # NULL
    BY <2>3, RequestAssumption
  <2>5. Holder' = Holder
    BY <1>3, <2>2, <2>3, <2>4 DEF Holder
  <2> QED
    BY <1>1, <2>5 DEF Promise!vars, Holder
<1> QED
  BY <1>2, <1>3 DEF Mark

LEMMA LandRefines ==
  ASSUME PInv, NEW i \in Item, NEW n \in Number, Land(i, n)
  PROVE  Promise!Apply(i)
<1>1. Owns(i) /\ RequestOf[i] \in Request
  BY RequestAssumption DEF PInv, RowInv, Land
<1>2. Holder[RequestOf[i]] = i /\ Holder' = Holder
  BY <1>1 DEF Owns, Holder, Land
<1> QED
  BY <1>2 DEF Promise!Apply, Holder, Land

\* One item holds an authorization, for good, and all it ever does to the
\* branch is the compare-and-swap from the expected commit to the patch.
THEOREM PublicationIsOneTime == Spec => ImplementsAuthorization
<1>1. PInv /\ [Next]_vars => [Promise!Next]_Promise!vars
  <2> SUFFICES ASSUME PInv, [Next]_vars
               PROVE  Promise!Next \/ UNCHANGED Promise!vars
    BY DEF Promise!vars
  <2>1. CASE UNCHANGED <<remote, writer, ledger>>
    BY <2>1 DEF Promise!vars
  <2>2. ASSUME NEW v \in Sha, Foreign(v) PROVE Promise!Next
    BY <2>2 DEF Foreign, Promise!Foreign, Promise!Next
  <2>3. ASSUME NEW i \in Item, NEW n \in Number, Land(i, n)
        PROVE  Promise!Next
    BY <2>3, LandRefines DEF Promise!Next
  <2>4. ASSUME NEW i \in Item, NEW n \in Number,
               Reserve(i, n) \/ Mark(i, n)
        PROVE  Promise!Next \/ UNCHANGED Promise!vars
    BY <2>4, ReserveRefines, MarkRefines
  <2>5. ASSUME NEW i \in Item, NEW n \in Number,
               Handler(i, n) \/ Crash(i, n)
        PROVE  UNCHANGED <<remote, writer, ledger>>
                 \/ Reserve(i, n) \/ Mark(i, n)
    BY <2>5 DEF Handler, Validate, Inspect, Look, Push, PushReturns, Verify,
                Complete, Fail, Crash, KeepShared
  <2>6. Tick \/ (\E i \in Item : Authorize(i) \/ Claim(i)) \/ UNCHANGED vars
          => UNCHANGED <<remote, writer, ledger>>
    BY DEF Tick, Authorize, Claim, vars
  <2> QED
    BY <2>1, <2>2, <2>3, <2>4, <2>5, <2>6 DEF Next
<1> QED
  BY <1>1, InitRefines, PublicationInvariant, PTL
  DEF Spec, ImplementsAuthorization, Promise!Spec
=============================================================================
