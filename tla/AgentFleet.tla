------------------------------ MODULE AgentFleet ------------------------------
(***************************************************************************)
(* The tasks of the Global Agent Service (galaxy-agent run with the        *)
(* environment that deployGlobalAgent gave them, cmd/docker/agent.go) and  *)
(* the address of the Galaxy API, which runs on a manager and moves with   *)
(* it.  Every task dials the address of its environment; a manager's task  *)
(* also tries its own node, and when that answers it changes the service   *)
(* (setGlobalAgent, a call of GlobalAgentService), so that Swarm replaces  *)
(* all tasks and the others find the API again.                            *)
(*                                                                         *)
(* The session after the dial is AgentSession; here it is "online".        *)
(***************************************************************************)
EXTENDS GlobalAgentService

CONSTANTS
    Managers,     \* nodes whose tasks may change the service
    Workers,      \* the other nodes
    Host,         \* the manager that runs the Galaxy API
    Hosts,        \* addresses a node can have
    First,        \* First[n]: the address of the node at the beginning
    Named,        \* host names: not an address, and always resolved
    MaxTroubles   \* bound on moves, outages, broken connections, dead tasks
                  \* and updates by the operator

Nodes == Managers \union Workers

ASSUME FleetAssumption ==
    /\ Host \in Managers
    /\ Managers = Clients
    /\ Managers \intersect Workers = {}
    /\ First \in [Nodes -> Hosts]
    /\ Apis = Hosts \union Named
    /\ Joins = Hosts
    /\ Hosts \intersect Named = {}
    /\ MaxTroubles \in Nat

VARIABLES
    address,      \* address[n]: NodeAddr of the node
    mesh,         \* the port of the API is published on every manager
    serving,      \* the API answers
    task,         \* task[n]: the spec the task of n was started with
    place,        \* place[n]: where connectOnce of n has got to
    via,          \* via[n]: the address of the connection, or the second one
                  \* that is tried, which is NodeAddr as the preflight has read it
    troubles      \* how many troubles there were

worldVars == <<address, mesh, serving, troubles>>
taskVars == <<task, place, via>>
fleetVars == <<serviceVars, worldVars, taskVars>>

FleetTypeOK ==
    /\ ServiceTypeOK
    /\ address \in [Nodes -> Hosts]
    /\ mesh \in BOOLEAN
    /\ serving \in BOOLEAN
    /\ task \in [Nodes -> Service]
    /\ place \in [Nodes -> {"dial", "fallback", "recover", "online", "refused"}]
    /\ via \in [Nodes -> Apis \union {Keep}]
    /\ troubles \in 0..MaxTroubles

\* agent install has deployed the service with an address of the API, and the
\* tasks have just started or are connected.
FleetInit ==
    /\ address = First
    /\ network = "ours"
    /\ secret = [v \in Versions |-> "ours"]
    /\ \E v \in Versions, i \in Images, a \in Named \union {address[Host]} :
          service = [n \in Names |->
              IF n # Agent THEN NoService
              ELSE DeploySpec([version |-> v, api |-> a, image |-> i,
                               join |-> address[Host]])]
    /\ faulty = TRUE
    /\ at = [c \in Clients |-> "idle"]
    /\ job = [c \in Clients |-> NoJob]
    /\ target = [c \in Clients |-> Agent]
    /\ seen = [c \in Clients |-> NoService]
    /\ current = [c \in Clients |-> FALSE]
    /\ mesh \in BOOLEAN
    /\ serving = TRUE
    /\ task = [n \in Nodes |-> service[Agent]]
    /\ \/ /\ place = [n \in Nodes |-> "dial"]
          /\ via = [n \in Nodes |-> Keep]
       \/ /\ place = [n \in Nodes |-> "online"]
          /\ via = [n \in Nodes |-> service[Agent].api]
    /\ troubles = 0

-----------------------------------------------------------------------------
Go(n, p) == place' = [place EXCEPT ![n] = p]

\* The Galaxy API answers at a.
Answers(a) ==
    /\ serving
    /\ \/ a \in Named
       \/ a = address[Host]
       \/ mesh /\ a \in {address[m] : m \in Managers}

\* parseNodeIdentity: ControlAvailable.  A node that is in no Swarm, or in
\* another one than GALAXY_SWARM_ID says, never dials.
IsManager(n) == n \in Managers

\* Variant for the mutation runs: only the configured address is tried.
SecondNever(n, own) == {}

\* agentServerCandidates: what is tried after the configured address.  The
\* node's own address, if the node is a manager and an address was configured
\* which is another one.
Second(n, own) ==
    IF IsManager(n) /\ task[n].api \in Hosts /\ task[n].api # own
      THEN {own} ELSE {}

\* The preflight reads NodeAddr, and the configured address is dialled.  Without
\* an answer and another candidate the dial is repeated.
DialConfigured(n) ==
    /\ place[n] = "dial"
    /\ \/ /\ Answers(task[n].api)
          /\ Go(n, "online")
          /\ via' = [via EXCEPT ![n] = task[n].api]
       \/ /\ ~ Answers(task[n].api)
          /\ \E a \in Second(n, address[n]) : via' = [via EXCEPT ![n] = a]
          /\ Go(n, "fallback")
    /\ UNCHANGED <<serviceVars, worldVars, task>>

\* Variant for the mutation runs: the others are not told.
DialFallbackAlone(n) ==
    /\ place[n] = "fallback"
    /\ IF Answers(via[n])
         THEN Go(n, "online") /\ UNCHANGED via
         ELSE Go(n, "dial") /\ via' = [via EXCEPT ![n] = Keep]
    /\ UNCHANGED <<serviceVars, worldVars, task>>

\* The second candidate.  Only a manager has one.
DialFallback(n) ==
    /\ place[n] = "fallback"
    /\ IF Answers(via[n])
         THEN Go(n, "recover") /\ UNCHANGED via
         ELSE Go(n, "dial") /\ via' = [via EXCEPT ![n] = Keep]
    /\ UNCHANGED <<serviceVars, worldVars, task>>

\* setGlobalAgent with the address that answered.
RecoverCall(n) ==
    /\ place[n] = "recover"
    /\ CallSet(n, [kind |-> "set", version |-> 0, api |-> via[n], image |-> Keep,
                   join |-> via[n]])
    /\ UNCHANGED <<worldVars, taskVars>>

RecoverRequest(n) ==
    /\ place[n] = "recover"
    /\ Requests(n)
    /\ UNCHANGED <<worldVars, taskVars>>

\* An error is printed, and not repeated as long as the connection lasts.
RecoverReturn(n) ==
    /\ place[n] = "recover"
    /\ Go(n, IF at[n] = "ok" THEN "online" ELSE "refused")
    /\ Return(n)
    /\ UNCHANGED <<worldVars, task, via>>

\* The connection is lost: its address does not lead to the API any more.
Lost(n) ==
    /\ place[n] \in {"online", "refused"}
    /\ ~ Answers(via[n])
    /\ Go(n, "dial")
    /\ via' = [via EXCEPT ![n] = Keep]
    /\ UNCHANGED <<serviceVars, worldVars, task>>

\* A task stops, in the middle of a request if there is one, and is started
\* with the service as it is now.
Restarted(n) ==
    /\ task' = [task EXCEPT ![n] = service[Agent]]
    /\ Go(n, "dial")
    /\ via' = [via EXCEPT ![n] = Keep]
    /\ IF IsManager(n)
         THEN /\ at' = [at EXCEPT ![n] = "idle"]
              /\ job' = [job EXCEPT ![n] = NoJob]
              /\ target' = [target EXCEPT ![n] = Agent]
              /\ seen' = [seen EXCEPT ![n] = NoService]
              /\ current' = [current EXCEPT ![n] = FALSE]
         ELSE UNCHANGED callVars
    /\ UNCHANGED dockerVars

\* The rolling update.
Replace(n) ==
    /\ task[n] # service[Agent]
    /\ Restarted(n)
    /\ UNCHANGED worldVars

-----------------------------------------------------------------------------
(* Troubles.                                                               *)

Trouble == troubles < MaxTroubles /\ troubles' = troubles + 1

\* A node gets another address.
Move(n) ==
    /\ Trouble
    /\ \E a \in Hosts \ {address[m] : m \in Nodes} :
          address' = [address EXCEPT ![n] = a]
    /\ UNCHANGED <<serviceVars, mesh, serving, taskVars>>

Outage ==
    /\ Trouble
    /\ serving
    /\ serving' = FALSE
    /\ UNCHANGED <<serviceVars, address, mesh, taskVars>>

ServeAgain ==
    /\ ~ serving
    /\ serving' = TRUE
    /\ UNCHANGED <<serviceVars, address, mesh, troubles, taskVars>>

Die(n) ==
    /\ Trouble
    /\ Restarted(n)
    /\ UNCHANGED <<address, mesh, serving>>

\* galaxy agent set --image of an operator, whose requests are modelled one by
\* one in GlobalAgentService.
OperatorSets ==
    /\ Trouble
    /\ \E i \in Images :
          SetService(Agent, MergedSpec(service[Agent],
              [kind |-> "set", version |-> 0, api |-> Keep, image |-> i,
               join |-> address[Host]]))
    /\ UNCHANGED <<network, secret, faulty, at, job, target, seen, address, mesh,
                   serving, taskVars>>

Agents(n) ==
    \/ DialConfigured(n) \/ DialFallback(n)
    \/ IsManager(n) /\ (RecoverCall(n) \/ RecoverRequest(n) \/ RecoverReturn(n))
    \/ Lost(n)

FleetNext ==
    \/ \E n \in Nodes : Agents(n) \/ Replace(n) \/ Move(n) \/ Die(n)
    \/ Outage \/ ServeAgain \/ OperatorSets
    \/ Recover /\ UNCHANGED <<worldVars, taskVars>>

FleetSpec == FleetInit /\ [][FleetNext]_fleetVars

\* runConnection repeats its dial, a lost connection is noticed (AgentSession),
\* Swarm completes a rolling update, and an outage of the API ends.
FleetFairness ==
    /\ \A n \in Nodes : WF_fleetVars(Agents(n))
    /\ WF_fleetVars((\E n \in Nodes : Replace(n)) \/ ServeAgain)

FleetFairSpec == FleetSpec /\ FleetFairness

-----------------------------------------------------------------------------
(* Properties.                                                             *)

Online(n) == place[n] \in {"online", "refused"} /\ Answers(via[n])

\* README.md:63: after the manager's address has changed every agent finds the
\* API again, whatever happened before and beside it; unless the update of
\* the service failed, which a manager's task prints and does not repeat.
AddressRecovers ==
    <>[](\/ \A n \in Nodes : Online(n)
         \/ \E m \in Managers : place[m] = "refused")

=============================================================================
