------------------------------ MODULE MCLanes ------------------------------
(***************************************************************************)
(* Two lanes that share nothing, side by side: the branches of a managed   *)
(* checkout (MCManagedCheckout) and the release evidence lane              *)
(* (MCReleaseLane).  A behaviour is one of the first or one of the second; *)
(* the other one rests.                                                    *)
(***************************************************************************)
EXTENDS MCManagedCheckout, MCReleaseLane, FiniteSets

CONSTANT MaxBusy    \* bound on the programs that work on the checkout

VARIABLE lane       \* which of the two

Busy ==
  Cardinality({s \in Sync : sync[s].at # "idle"})
    + Cardinality({p \in Patcher : patch[p].at # "idle"})

\* A lane that rests stays where it begins.
LanesInit ==
  /\ lane \in {"checkout", "release"}
  /\ Init /\ LaneInit
  /\ lane = "release" => source = old

LanesNext ==
  /\ UNCHANGED lane
  /\ \/ lane = "checkout" /\ Next /\ Busy' <= MaxBusy /\ UNCHANGED laneVars
     \/ lane = "release" /\ LaneNext /\ UNCHANGED vars

LanesSpec == LanesInit /\ [][LanesNext]_<<lane, vars, laneVars>>

\* "All three signed statements must contain exactly the artifact name/digest set
\* recorded in the evidence manifest" (docs/RELEASE_VERIFICATION_CONTRACT.md),
\* and two programs that were written apart agree: what is accepted of parts
\* that were put together at will is what the workflow that release_render
\* generates signs for this project and these artifacts.
VerifierIsExact ==
  (lane = "release" /\ config = Nil /\ disk["index"] = Nil) =>
    \A p \in Projects, list \in ArtifactLists, sboms \in Sboms, bundles \in BundleLists :
      ExactlyItsOwn(p, list, sboms, bundles)
=============================================================================
