------------------------- MODULE CandidateDecision -------------------------
(***************************************************************************)
(* What a lane that turns evidence into a candidate promises, with no      *)
(* file, attempt, lease or agent in sight: a run is about one subject; it  *)
(* is decided at most once, and no decision is taken back; and what it     *)
(* names as the candidate has earned it.                                   *)
(***************************************************************************)
CONSTANTS
  Earned(_, _),  \* what may be named as the candidate of a subject
  Refusal,       \* the ways in which a run ends without a candidate
  Nil

VARIABLES
  subject,       \* what the run was created for
  outcome,       \* "open", "candidate" or a refusal
  named          \* the candidate

Init == subject = Nil /\ outcome = "open" /\ named = Nil

Create ==
  /\ subject = Nil /\ subject' # Nil
  /\ UNCHANGED <<outcome, named>>

Name ==
  /\ subject # Nil /\ outcome = "open"
  /\ outcome' = "candidate" /\ Earned(named', subject)
  /\ UNCHANGED subject

Refuse ==
  /\ subject # Nil /\ outcome = "open"
  /\ outcome' \in Refusal
  /\ UNCHANGED <<subject, named>>

Next == Create \/ Name \/ Refuse

Spec == Init /\ [][Next]_<<subject, outcome, named>>
=============================================================================
