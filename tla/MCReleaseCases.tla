--------------------------- MODULE MCReleaseCases ---------------------------
(***************************************************************************)
(* Build results and manifests for small instances of ReleaseLane: a build *)
(* result as the generated release workflow delivers it, one whose signer  *)
(* knows the names of the copies, and one whose trace shows what the trace *)
(* policy forbids; and manifests with parts from everywhere.               *)
(***************************************************************************)
EXTENDS ReleaseVerification, TLC

CONSTANTS uploaded, fit, leaky, k1, k2, wheel, sdist

Policy ==
  [active |-> TRUE, hostedOnly |-> TRUE, workflow |-> Workflow, issuer |-> Issuer,
   types |-> ApprovedTypes, targets |-> {"assured"}, tags |-> {"secure-v1"},
   gh |-> "gh"]

Project ==
  [lineage |-> "upstream", target |-> "assured", overlay |-> k1, tag |-> "secure-v1"]

TheWheel == [name |-> wheel, digest |-> "d1"]
TheSdist == [name |-> sdist, digest |-> "d2"]

Event(kind, denied, sensitive) ==
  [kind |-> kind, denied |-> denied, sensitive |-> sensitive]

\* subjects: what the signer believed the artifacts to be called.
Built(artifacts, subjects) ==
  [status |-> "succeeded", isolated |-> TRUE, network |-> "deny",
   mode |-> "external", project |-> Project, artifacts |-> artifacts,
   sboms |-> <<BoundSbom(subjects)>>, bundles |-> SignedBundles(Project, subjects),
   trace |-> <<Event("network", TRUE, FALSE), Event("process", FALSE, FALSE)>>,
   policy |-> Policy, tooling |-> TRUE, risk |-> TRUE]

\* The name that the lane gives to the copy of an artifact.
Copied(a) == [a EXCEPT !.name = <<a.digest, a.name>>]

Fitting == Built(<<TheWheel, TheSdist>>, <<Copied(TheWheel), Copied(TheSdist)>>)

Results ==
  (uploaded :> Built(<<TheWheel>>, <<TheWheel>>))
  @@ (fit :> Fitting)
  @@ (leaky :> [Fitting EXCEPT !.trace = <<Event("network", FALSE, FALSE)>>])

-----------------------------------------------------------------------------
(* Manifests with parts that do not belong together.                        *)

ArtifactLists ==
  {<<>>, <<TheWheel>>, <<TheSdist>>, <<TheWheel, TheSdist>>, <<TheWheel, TheWheel>>,
   <<[TheWheel EXCEPT !.name = sdist]>>, <<[TheWheel EXCEPT !.digest = "d2"]>>}

Projects ==
  {Project, [Project EXCEPT !.overlay = k2], [Project EXCEPT !.target = "other"],
   [Project EXCEPT !.tag = "v1"], [Project EXCEPT !.lineage = "elsewhere"]}

Sboms ==
  {<<BoundSbom(list)>> : list \in ArtifactLists}
  \cup {<<>>, <<[BoundSbom(<<TheWheel>>) EXCEPT !.spdx23 = FALSE]>>,
        <<[spdx23 |-> TRUE,
           files |-> {[described |-> FALSE, name |-> wheel, digest |-> "d1"]}]>>}

\* The three bundles, one of them with a flaw.
Flawed(bundles) ==
  LET Without(n, field, value) == [bundles EXCEPT ![n] = [@ EXCEPT ![field] = value]]
  IN  UNION {
        {Without(n, "signed", FALSE), Without(n, "logged", FALSE),
         Without(n, "type", "other"), bundles \o <<bundles[n]>>,
         Without(n, "role", "policy"), Without(n, "subjects", <<>>),
         Without(n, "subjects", <<TheWheel>>), Without(n, "subjects", <<TheWheel, TheWheel>>),
         Without(n, "certificate",
           [bundles[n].certificate EXCEPT !.runner = "self-hosted"]),
         Without(n, "certificate", [bundles[n].certificate EXCEPT !.commit = k2])}
        : n \in 1..3}

BundleLists ==
  LET signed == {SignedBundles(p, list) : p \in Projects, list \in ArtifactLists}
  IN  signed \cup {SubSeq(SignedBundles(Project, <<TheWheel>>), 1, 2)}
      \cup Flawed(SignedBundles(Project, <<TheWheel>>))
      \cup Flawed(SignedBundles(Project, <<TheWheel, TheSdist>>))

\* No other manifest than the workflow's own is accepted.
ExactlyItsOwn(p, list, sboms, bundles) ==
  LET own == WorkflowManifest(p, list)
  IN  Accepts([project |-> p, artifacts |-> list, sboms |-> sboms,
               bundles |-> bundles], Policy)
      <=> /\ ValidProject(p, Policy) /\ list # <<>> /\ Distinct(list)
          /\ sboms = own.sboms /\ Len(bundles) = 3
          /\ \A n \in 1..3 : \E m \in 1..Len(bundles) : bundles[m] = own.bundles[n]
=============================================================================
