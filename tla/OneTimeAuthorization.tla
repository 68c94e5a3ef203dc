------------------------ MODULE OneTimeAuthorization ------------------------
(***************************************************************************)
(* What the publication lane promises about a remote secure branch that    *)
(* others write too: an authorization belongs to the first work item that  *)
(* takes it, for good, and the only change that item ever makes to the     *)
(* branch is the authorized one, from the expected commit to the patch.    *)
(***************************************************************************)
CONSTANTS
  Request,     \* authorized publication requests
  Item,        \* work items of the publisher, of any run
  RequestOf,   \* the request an item was created for
  Patch,       \* patch_sha of a request
  Expected,    \* expected_remote_sha of a request
  Sha,         \* commits, and NULL for an absent branch
  NULL

VARIABLES
  remote,      \* what the branch points to
  writer,      \* who set it last: an item, or NULL for anybody else
  holder       \* the item an authorization belongs to, or NULL

vars == <<remote, writer, holder>>

Init ==
  /\ remote \in Sha
  /\ writer = NULL
  /\ holder = [r \in Request |-> NULL]

\* Somebody else pushes to the branch or deletes it.
Foreign(v) ==
  /\ remote' = v
  /\ writer' = NULL
  /\ UNCHANGED holder

Take(i) ==
  /\ holder[RequestOf[i]] = NULL
  /\ holder' = [holder EXCEPT ![RequestOf[i]] = i]
  /\ UNCHANGED <<remote, writer>>

Apply(i) ==
  LET r == RequestOf[i]
  IN  /\ holder[r] = i
      /\ remote = Expected[r]
      /\ remote' = Patch[r]
      /\ writer' = i
      /\ UNCHANGED holder

Next ==
  \/ \E v \in Sha : Foreign(v)
  \/ \E i \in Item : Take(i) \/ Apply(i)

Spec == Init /\ [][Next]_vars
=============================================================================
