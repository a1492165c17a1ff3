------------------------ MODULE MCGlobalAgentService ------------------------
(* An installation with each of two credential versions, a change of the   *)
(* address and a change of the image, two at a time.  The callers are      *)
(* interchangeable.                                                        *)
EXTENDS GlobalAgentService, TLC

CONSTANTS a1, a2, i1, i2, host

MCJobs ==
    {[kind |-> "deploy", version |-> 1, api |-> a1, image |-> i1, join |-> host],
     [kind |-> "deploy", version |-> 2, api |-> a1, image |-> i1, join |-> host],
     [kind |-> "set", version |-> 0, api |-> a2, image |-> Keep, join |-> host],
     [kind |-> "set", version |-> 0, api |-> Keep, image |-> i2, join |-> host]}

Symmetry == Permutations(Clients)

=============================================================================
