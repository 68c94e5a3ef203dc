------------------------------ MODULE MCAgents ------------------------------
(***************************************************************************)
(* The processes of the agent runtime (MCAgentRuntime) and, side by side   *)
(* with them, one of the lanes they run (RebuildLane), in which the store  *)
(* and the runtime are reduced to who holds a lease.  A behaviour is one   *)
(* of the first or one of the second; the other one rests.                 *)
(***************************************************************************)
EXTENDS MCAgentRuntime, MCRebuildCases, RebuildLane

VARIABLE scene    \* which of the two

\* What rests stays where it begins.
AgentsInit == scene \in {"runtime", "lane"} /\ RuntimeInit /\ RebuildInit

\* All work of the lane is done, and nobody starts it again.
LaneRests ==
  /\ \A c \in 1..MaxStarts : starter[c].at = "done"
  /\ \A s \in Handler, k \in 1..MaxTries : handling[s][k] = Nil
  /\ UNCHANGED rebuildVars

AgentsNext ==
  /\ UNCHANGED scene
  /\ \/ scene = "runtime" /\ RuntimeNext /\ UNCHANGED rebuildVars
     \/ scene = "lane" /\ (RebuildNext \/ LaneRests) /\ UNCHANGED runtimeVars

AgentsSpec == AgentsInit /\ [][AgentsNext]_<<scene, runtimeVars, rebuildVars>>
=============================================================================
