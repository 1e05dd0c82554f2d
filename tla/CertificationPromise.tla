------------------------ MODULE CertificationPromise ------------------------
(***************************************************************************)
(* What a certification run promises to the owner of the server, whatever  *)
(* it does in between: it makes and drops things of its own only, it ends, *)
(* and the claim it ends with is "clean" only if nothing it made is left.  *)
(* Certification.tla implements it (Promise there).                        *)
(***************************************************************************)
CONSTANT Things     \* everything a run may make, its database included

VARIABLES made,     \* the things of the run that exist
          others,   \* what exists and is not the run's
          claim     \* "none" while it runs, then "clean" or "unproved"

vars == << made, others, claim >>

Init == made \subseteq Things /\ claim = "none"

Work == /\ claim = "none"
        /\ made' \subseteq Things
        /\ UNCHANGED << others, claim >>

End == /\ claim = "none"
       /\ \/ claim' = "clean" /\ made = {}
          \/ claim' = "unproved"
       /\ UNCHANGED << made, others >>

Next == Work \/ End

Safety == Init /\ [][Next]_vars
Spec == Safety /\ WF_vars(End)
=============================================================================
