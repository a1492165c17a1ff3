------------------------------ MODULE MCAgentRun ------------------------------
(* One agent process with up to three connections at a time, one Docker    *)
(* job per credential version.                                             *)
EXTENDS AgentRun, TLC

CONSTANTS a1, i1, host

MCJobs == {[kind |-> "deploy", version |-> v, api |-> a1, image |-> i1, join |-> host]
              : v \in Versions}

\* The goroutines of the connections are interchangeable.
Symmetry == Permutations(Clients)

=============================================================================
