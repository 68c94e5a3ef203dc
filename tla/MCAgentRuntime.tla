--------------------------- MODULE MCAgentRuntime ---------------------------
(***************************************************************************)
(* A small instance of AgentRuntime: a request routed to one agent, which  *)
(* may emit one event routed to another, and two processes that share the  *)
(* default worker_id.                                                      *)
(***************************************************************************)
EXTENDS AgentRuntime, TLC

CONSTANTS in, out, a, b, p1, p2

MCEvent == {in, out}
MCAgent == {a, b}
MCRunOf == [e \in MCEvent |-> "run"]
MCRoutes == (in :> {a}) @@ (out :> {b})
MCOutputs == (a :> {out}) @@ (b :> {})
MCNoOutputs == [x \in MCAgent |-> {}]
MCHandlers == {MCAgent}
MCWorkerOf == [x \in Process |-> "local"]

Symmetric == Permutations({p1, p2})
=============================================================================
