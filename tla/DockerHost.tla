------------------------------ MODULE DockerHost ------------------------------
(***************************************************************************)
(* The part of a Docker Engine and of its Swarm that the local migration   *)
(* commands of galaxy-cli observe and change, always through the docker    *)
(* binary.  Docker is not in the repository: every operator here is what   *)
(* cmd/docker/*_migration.go expects of the command it runs.               *)
(*                                                                         *)
(* A docker command over several containers (stop, start, rm) tries each   *)
(* of them and fails if one fails, so a failed command may have acted on   *)
(* any part of its arguments.                                              *)
(***************************************************************************)
EXTENDS Naturals, FiniteSets

CONSTANTS
    Containers,   \* containers of the local engine
    Services,     \* Swarm services that the plans can create
    Stacks,       \* Swarm stack names
    Namespace,    \* Namespace[s]: the stack whose label service s carries
    MaxDrift      \* bound on the changes made by anybody else

ASSUME HostAssumption ==
    /\ Namespace \in [Services -> Stacks]
    /\ MaxDrift \in Nat

VARIABLES
    container,    \* container[c]: state of container c
    service,      \* service[s]: state of service s
    drift         \* number of changes made so far by anybody else

hostVars == <<container, service, drift>>

ContainerState == {"running", "restarting", "exited", "removed"}
ServiceState == {"absent", "starting", "ready", "removing"}

\* Containers that execute, or that the engine is about to execute again.
Alive == {"running", "restarting"}

HostTypeOK ==
    /\ container \in [Containers -> ContainerState]
    /\ service \in [Services -> ServiceState]
    /\ drift \in 0..MaxDrift

HostInit ==
    /\ container \in [Containers -> ContainerState \ {"removed"}]
    /\ service = [s \in Services |-> "absent"]
    /\ drift = 0

-----------------------------------------------------------------------------
(* What the queries answer.                                                *)

\* Variant for the mutation runs: the label filter is missing.
ServicesOfAnybody(k) == {s \in Services : service[s] # "absent"}

\* docker service ls --filter label=com.docker.stack.namespace=k
ServicesOf(k) == {s \in Services : Namespace[s] = k /\ service[s] # "absent"}

\* Every line of docker stack services shows current = desired replicas.
AllReplicasUp(k) == \A s \in ServicesOf(k) : service[s] = "ready"

AliveOf(S) == {c \in S : container[c] \in Alive}

-----------------------------------------------------------------------------
(* What the commands do.                                                   *)

\* docker container stop, having acted on the containers D.
StopContainers(D) ==
    container' = [c \in Containers |->
        IF c \in AliveOf(D) THEN "exited" ELSE container[c]]

\* docker container start, having acted on the containers D.
StartContainers(D) ==
    container' = [c \in Containers |->
        IF c \in D /\ container[c] = "exited" THEN "running" ELSE container[c]]

\* docker container rm without --force, having acted on the containers D:
\* the engine refuses to remove a container that is not stopped.
RemoveContainers(D) ==
    container' = [c \in Containers |->
        IF c \in D /\ container[c] = "exited" THEN "removed" ELSE container[c]]

\* docker stack deploy, having created or updated the services D.
DeployServices(D) ==
    service' = [s \in Services |-> IF s \in D THEN "starting" ELSE service[s]]

\* docker stack rm, having acted on the services D: they stay listed until
\* the Swarm has let go of them.
RemoveServices(D) ==
    service' = [s \in Services |-> IF s \in D THEN "removing" ELSE service[s]]

-----------------------------------------------------------------------------
(* The Swarm at work, and everybody else.                                  *)

ServiceUp(s) ==
    /\ service[s] = "starting"
    /\ service' = [service EXCEPT ![s] = "ready"]
    /\ UNCHANGED <<container, drift>>

ServiceGone(s) ==
    /\ service[s] = "removing"
    /\ service' = [service EXCEPT ![s] = "absent"]
    /\ UNCHANGED <<container, drift>>

\* The tasks of a service that was up fail.
ServiceDown(s) ==
    /\ drift < MaxDrift
    /\ service[s] = "ready"
    /\ service' = [service EXCEPT ![s] = "starting"]
    /\ drift' = drift + 1
    /\ UNCHANGED container

\* A container stops, crashes into its restart policy, or is started by a user.
ContainerDrift(c) ==
    /\ drift < MaxDrift
    /\ container[c] # "removed"
    /\ \E x \in ContainerState \ {"removed", container[c]} :
          container' = [container EXCEPT ![c] = x]
    /\ drift' = drift + 1
    /\ UNCHANGED service

HostNext ==
    \/ \E s \in Services : ServiceUp(s) \/ ServiceGone(s) \/ ServiceDown(s)
    \/ \E c \in Containers : ContainerDrift(c)

=============================================================================
