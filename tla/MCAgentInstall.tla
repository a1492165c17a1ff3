---------------------------- MODULE MCAgentInstall ----------------------------
(* Installations on one manager, with one Docker job per credential        *)
(* version.                                                                *)
EXTENDS AgentInstall

CONSTANTS a1, i1, host

MCJobs == {[kind |-> "deploy", version |-> v, api |-> a1, image |-> i1, join |-> host]
              : v \in Versions}

=============================================================================
