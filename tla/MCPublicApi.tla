---------------------------- MODULE MCPublicApi ----------------------------
(* Instances of PublicApi for TLC.                                         *)
EXTENDS PublicApi, TLC

Plain == [crasis_disabled |-> FALSE, quick |-> FALSE, hq |-> FALSE,
          dialects |-> "none"]
\* A request that changes every option.
Full == [crasis_disabled |-> TRUE, quick |-> TRUE, hq |-> TRUE,
         dialects |-> "some"]

BothRequests == {Plain, Full}
OneRequest == {[Full EXCEPT !.hq = FALSE]}
Everything == [lindex |-> TRUE, vbind |-> TRUE, hq |-> TRUE, gener |-> TRUE]
AllDeployments == Files
FullDeployment == {Everything}
MCSymmetry == Permutations(Threads) \cup Permutations(Contexts)
=============================================================================
