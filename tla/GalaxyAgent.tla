------------------------------ MODULE GalaxyAgent ------------------------------
(***************************************************************************)
(* A galaxy-agent that has its credential, seen from three sides that      *)
(* share only the moment at which a connection is online or ends: the      *)
(* fleet of all tasks of the service with the address they dial, and in    *)
(* the session of one task the streams and the requests, each of which has *)
(* goroutines of its own.                                                  *)
(***************************************************************************)
EXTENDS AgentSession, AgentFleet, AgentRequests

VARIABLE side

agentVars == <<side, vars, fleetVars, requestVars>>

\* A session is one of a fleet that is connected.
AgentInit ==
    /\ side \in {"fleet", "streams", "requests"}
    /\ Init
    /\ FleetInit
    /\ RequestsInit
    /\ side # "fleet" =>
          mesh = FALSE /\ service[Agent].api \in Hosts /\ via[Host] # Keep

\* connectOnce.
AgentNext ==
    \/ /\ side = "fleet"
       /\ FleetNext
       /\ UNCHANGED <<side, vars, requestVars>>
    \/ /\ side = "streams"
       /\ Next
       /\ UNCHANGED <<side, fleetVars, requestVars>>
    \/ /\ side = "requests"
       /\ RequestsNext
       /\ UNCHANGED <<side, vars, fleetVars>>

\* What is fair of one side is never enabled on the others, but for the ticker
\* of the health check.
AgentSpec ==
    /\ AgentInit /\ [][AgentNext]_agentVars
    /\ DrainingFairness /\ FleetFairness
    /\ WF_requestVars(Proceeds) /\ WF_requestVars(HeartbeatFails)
    /\ WF_requestVars(side = "requests" /\ HealthCheck)

=============================================================================
