--------------------------- MODULE DurableHandoff ---------------------------
(***************************************************************************)
(* What the agent store promises its users, with no attempt, lease, clock  *)
(* or retry in sight: an event is accepted once and never replaced; it is  *)
(* delivered as one piece of work to each agent it is routed to; and each  *)
(* piece of work ends at most once, either done, with all its outputs      *)
(* accepted in the same step, or dead, with none.                          *)
(***************************************************************************)
CONSTANTS Event, Agent, Payload, Routes, External, NULL

VARIABLES
  published,  \* the accepted events, with the work that made each
  outcome     \* what became of each piece of work

Work == Event \X Agent

Init ==
  /\ published = [e \in Event |-> NULL]
  /\ outcome = [w \in Work |-> "absent"]

\* Accepting outs, made by work w or by NULL, and delivering it.
Accept(outs, w) ==
  /\ \A e \in DOMAIN outs : published[e] = NULL
  /\ published' = [e \in Event |->
       IF e \in DOMAIN outs THEN [payload |-> outs[e], by |-> w]
       ELSE published[e]]

Delivered(v, outs) == v[1] \in DOMAIN outs /\ v[2] \in Routes[v[1]]

Inject(e, payload) ==
  LET outs == [x \in {e} |-> payload]
  IN  /\ Accept(outs, NULL)
      /\ outcome' = [v \in Work |->
           IF Delivered(v, outs) THEN "pending" ELSE outcome[v]]

Finish(w, outs) ==
  /\ outcome[w] = "pending"
  /\ Accept(outs, w)
  /\ outcome' = [v \in Work |->
       IF v = w THEN "done"
       ELSE IF Delivered(v, outs) THEN "pending" ELSE outcome[v]]

\* One step may give up several pieces of work: a claim recovers every
\* expired lease in its scope.
Abandon(X) ==
  /\ X # {}
  /\ outcome' = [v \in Work |-> IF v \in X THEN "dead" ELSE outcome[v]]
  /\ UNCHANGED published

Next ==
  \/ \E e \in External, payload \in Payload : Inject(e, payload)
  \/ \E w \in Work, E \in SUBSET Event :
       \E outs \in [E -> Payload] : Finish(w, outs)
  \/ \E X \in SUBSET {w \in Work : outcome[w] = "pending"} : Abandon(X)

Spec == Init /\ [][Next]_<<published, outcome>>
=============================================================================
