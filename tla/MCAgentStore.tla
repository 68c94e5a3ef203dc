---------------------------- MODULE MCAgentStore ----------------------------
(***************************************************************************)
(* A small instance of AgentStore: one external event routed to two        *)
(* agents, which both may emit one and the same key (the idempotency       *)
(* collision) routed to a third.                                           *)
(***************************************************************************)
EXTENDS AgentStore, TLC

CONSTANTS in, out, a, b, c

MCEvent == {in, out}
MCAgent == {a, b, c}
MCRunOf == [e \in MCEvent |-> "run"]
MCRoutes == (in :> {a, b}) @@ (out :> {c})
MCOutputs == (a :> {out}) @@ (b :> {out}) @@ (c :> {})
MCHandlers == {MCAgent, {b}}
=============================================================================
