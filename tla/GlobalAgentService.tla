-------------------------- MODULE GlobalAgentService --------------------------
(***************************************************************************)
(* The Docker objects behind the agent, and the two operations that write  *)
(* them: deployGlobalAgent and setGlobalAgent of cmd/docker/agent.go.      *)
(*                                                                         *)
(* Both are sequences of Docker API requests that nothing holds together:  *)
(* a client is one call of one of them (galaxy agent install, a bootstrap  *)
(* agent, galaxy agent set, the address recovery of a manager agent), and  *)
(* every step of it is one request, with everybody else in between.  A     *)
(* request may fail before or after it took effect.                        *)
(***************************************************************************)
EXTENDS Naturals

CONSTANTS
    Clients,      \* callers of deployGlobalAgent and setGlobalAgent
    Agent,        \* the service name galaxy-agent
    Neighbours,   \* other service names that begin with galaxy-agent
    Versions,     \* credential versions, one secret name each
    Apis,         \* values of GALAXY_API_URL and GALAXY_BASE_URL
    Images,       \* agent images
    Joins,        \* values of GALAXY_JOIN_ADDRESSES
    Jobs,         \* the calls that are made, see DeployJob and SetJob
    Keep          \* the parameter of a set that was not given

Names == {Agent} \union Neighbours

ASSUME ServiceAssumption ==
    /\ Agent \notin Neighbours
    /\ Versions \subseteq Nat \ {0}
    /\ Keep \notin Apis \union Images

VARIABLES
    network,      \* the network galaxy-control: "none", "ours" or "foreign"
    secret,       \* secret[v]: the secret galaxy-agent-credential-v<v>, likewise
    service,      \* service[n]: the service of that name
    faulty,       \* Docker API requests may fail, for the time being
    at,           \* at[c]: the next request of c
    job,          \* job[c]: the arguments c was called with
    target,       \* target[c]: services[0].Name of the list c has read
    seen,         \* seen[c]: services[0] as c has read it
    current       \* current[c]: no request has changed it since, so that the
                  \* Version.Index that c sends is still its index

dockerVars == <<network, secret, service, faulty>>
callVars == <<at, job, target, seen, current>>
serviceVars == <<dockerVars, callVars>>

Owner == {"nobody", "ours", "foreign"}

\* Owner "ours" is the label com.code-galaxy.component = agent.
Service == [owner : Owner, global : BOOLEAN,
            version : Versions \union {0}, api : Apis \union {Keep},
            image : Images \union {Keep}, join : Joins \union {Keep}]

NoService == [owner |-> "nobody", global |-> FALSE, version |-> 0,
              api |-> Keep, image |-> Keep, join |-> Keep]

ForeignService == [NoService EXCEPT !.owner = "foreign", !.global = TRUE]

Job == [kind : {"none", "deploy", "set"}, version : Versions \union {0},
        api : Apis \union {Keep}, image : Images \union {Keep},
        join : Joins \union {Keep}]

NoJob == [kind |-> "none", version |-> 0, api |-> Keep, image |-> Keep,
          join |-> Keep]

DeployJob == [kind : {"deploy"}, version : Versions, api : Apis,
              image : Images, join : Joins]

\* agent set refuses to be called without --server and --image.
SetJob == {j \in [kind : {"set"}, version : {0}, api : Apis \union {Keep},
                  image : Images \union {Keep}, join : Joins] :
              j.api # Keep \/ j.image # Keep}

Request == {"idle", "network", "createNetwork", "secret", "createSecret",
            "info", "list", "create", "update", "ok", "failed", "unmanaged"}

ServiceTypeOK ==
    /\ network \in {"none", "ours", "foreign"}
    /\ secret \in [Versions -> {"none", "ours", "foreign"}]
    /\ service \in [Names -> Service]
    /\ faulty \in BOOLEAN
    /\ at \in [Clients -> Request]
    /\ job \in [Clients -> Job]
    /\ target \in [Clients -> Names]
    /\ seen \in [Clients -> Service]
    /\ current \in [Clients -> BOOLEAN]

\* A Swarm on which anything but a service of ours may exist already.
ServiceInit ==
    /\ network \in {"none", "foreign"}
    /\ secret \in [Versions -> {"none", "foreign"}]
    /\ service \in [Names -> {NoService, ForeignService}]
    /\ faulty = TRUE
    /\ at = [c \in Clients |-> "idle"]
    /\ job = [c \in Clients |-> NoJob]
    /\ target = [c \in Clients |-> Agent]
    /\ seen = [c \in Clients |-> NoService]
    /\ current = [c \in Clients |-> FALSE]

-----------------------------------------------------------------------------
Step(c, step) == at' = [at EXCEPT ![c] = step]

Unread(c) == UNCHANGED <<job, target, seen, current>>

\* deployGlobalAgent: the checks of its arguments and the lookup of the
\* registry login precede every request.
CallDeploy(c, j) ==
    /\ at[c] = "idle"
    /\ j \in DeployJob
    /\ job' = [job EXCEPT ![c] = j]
    /\ \/ Step(c, "network")
       \/ faulty /\ Step(c, "failed")
    /\ UNCHANGED <<dockerVars, target, seen, current>>

\* setGlobalAgent.
CallSet(c, j) ==
    /\ at[c] = "idle"
    /\ j \in SetJob
    /\ job' = [job EXCEPT ![c] = j]
    /\ \/ Step(c, "info")
       \/ faulty /\ Step(c, "failed")
    /\ UNCHANGED <<dockerVars, target, seen, current>>

\* The request fails, and nothing happened.
Fail(c) ==
    /\ faulty
    /\ at[c] \notin {"idle", "ok", "failed", "unmanaged"}
    /\ Step(c, "failed")
    /\ UNCHANGED dockerVars
    /\ Unread(c)

\* Variant for the mutation runs: the labels of the network are not looked at.
QueryNetworkAnyOwner(c) ==
    /\ at[c] = "network"
    /\ \/ network # "none" /\ Step(c, "secret")
       \/ network = "none" /\ Step(c, "createNetwork")
    /\ UNCHANGED dockerVars
    /\ Unread(c)

\* ensureAgentNetwork.
QueryNetwork(c) ==
    /\ at[c] = "network"
    /\ \/ network = "ours" /\ Step(c, "secret")
       \/ network = "none" /\ Step(c, "createNetwork")
       \/ network = "foreign" /\ Step(c, "unmanaged")
    /\ UNCHANGED dockerVars
    /\ Unread(c)

\* CheckDuplicate: the name may have been taken since it was looked up.
CreateNetwork(c) ==
    /\ at[c] = "createNetwork"
    /\ IF network = "none"
         THEN /\ network' = "ours"
              /\ Step(c, "secret") \/ (faulty /\ Step(c, "failed"))
         ELSE Step(c, "failed") /\ UNCHANGED network
    /\ UNCHANGED <<secret, service, faulty>>
    /\ Unread(c)

\* ensureAgentSecret.  What is in a secret cannot be read back.
QuerySecret(c) ==
    /\ at[c] = "secret"
    /\ \/ secret[job[c].version] = "ours" /\ Step(c, "list")
       \/ secret[job[c].version] = "none" /\ Step(c, "createSecret")
       \/ secret[job[c].version] = "foreign" /\ Step(c, "unmanaged")
    /\ UNCHANGED dockerVars
    /\ Unread(c)

CreateSecret(c) ==
    /\ at[c] = "createSecret"
    /\ IF secret[job[c].version] = "none"
         THEN /\ secret' = [secret EXCEPT ![job[c].version] = "ours"]
              /\ Step(c, "list") \/ (faulty /\ Step(c, "failed"))
         ELSE Step(c, "failed") /\ UNCHANGED secret
    /\ UNCHANGED <<network, service, faulty>>
    /\ Unread(c)

\* setGlobalAgent goes on only on a manager.
QueryInfo(c) ==
    /\ at[c] = "info"
    /\ Step(c, "list")
    /\ UNCHANGED dockerVars
    /\ Unread(c)

\* The filter name=galaxy-agent matches every name that begins with it, and
\* the code takes services[0] of the answer.
Listed == {n \in Names : service[n].owner # "nobody"}

\* Variant for the mutation runs: the label of the service is not looked at.
ListAnyOwner(c) ==
    /\ at[c] = "list"
    /\ \/ /\ Listed = {}
          /\ Step(c, IF job[c].kind = "deploy" THEN "create" ELSE "failed")
          /\ UNCHANGED <<target, seen, current>>
       \/ \E n \in Listed :
             /\ target' = [target EXCEPT ![c] = n]
             /\ seen' = [seen EXCEPT ![c] = service[n]]
             /\ current' = [current EXCEPT ![c] = TRUE]
             /\ Step(c, "update")
    /\ UNCHANGED <<dockerVars, job>>

List(c) ==
    /\ at[c] = "list"
    /\ \/ /\ Listed = {}
          /\ Step(c, IF job[c].kind = "deploy" THEN "create" ELSE "failed")
          /\ UNCHANGED <<target, seen, current>>
       \/ \E n \in Listed :
             /\ target' = [target EXCEPT ![c] = n]
             /\ seen' = [seen EXCEPT ![c] = service[n]]
             /\ current' = [current EXCEPT ![c] = TRUE]
             /\ Step(c, IF service[n].owner = "foreign" THEN "unmanaged"
                         ELSE IF job[c].kind = "set" /\ ~ service[n].global
                           THEN "failed"
                         ELSE "update")
    /\ UNCHANGED <<dockerVars, job>>

\* The complete spec deployGlobalAgent sends.
DeploySpec(j) ==
    [owner |-> "ours", global |-> TRUE, version |-> j.version,
     api |-> j.api, image |-> j.image, join |-> j.join]

\* The spec that was read, with mergeAgentServiceEnv and the image applied.
\* The join addresses are replaced whatever was asked for.
MergedSpec(s, j) ==
    [s EXCEPT !.api = IF j.api = Keep THEN @ ELSE j.api,
              !.image = IF j.image = Keep THEN @ ELSE j.image,
              !.join = j.join]

NewSpec(c) == IF job[c].kind = "deploy" THEN DeploySpec(job[c])
                                       ELSE MergedSpec(seen[c], job[c])

\* The service of the name becomes s, and gets a new index.
SetService(n, s) ==
    /\ service' = [service EXCEPT ![n] = s]
    /\ current' = [c \in Clients |-> current[c] /\ target[c] # n]

\* POST /services/create.
Create(c) ==
    /\ at[c] = "create"
    /\ IF service[Agent].owner = "nobody"
         THEN /\ SetService(Agent, NewSpec(c))
              /\ Step(c, "ok") \/ (faulty /\ Step(c, "failed"))
         ELSE Step(c, "failed") /\ UNCHANGED <<service, current>>
    /\ UNCHANGED <<network, secret, faulty, job, target, seen>>

\* Variant for the mutation runs: the version that was read is not sent.
UpdateAnyVersion(c) ==
    /\ at[c] = "update"
    /\ SetService(target[c], NewSpec(c))
    /\ Step(c, "ok")
    /\ UNCHANGED <<network, secret, faulty, job, target, seen>>

\* POST /services/<id>/update?version=<index>: refused when the service is
\* gone or has changed since it was read, or when the mode would change.
Update(c) ==
    /\ at[c] = "update"
    /\ IF current[c] /\ service[target[c]].global
         THEN /\ SetService(target[c], NewSpec(c))
              /\ Step(c, "ok") \/ (faulty /\ Step(c, "failed"))
         ELSE Step(c, "failed") /\ UNCHANGED <<service, current>>
    /\ UNCHANGED <<network, secret, faulty, job, target, seen>>

\* The call returns to its caller.
Return(c) ==
    /\ at[c] \in {"ok", "failed", "unmanaged"}
    /\ Step(c, "idle")
    /\ job' = [job EXCEPT ![c] = NoJob]
    /\ target' = [target EXCEPT ![c] = Agent]
    /\ seen' = [seen EXCEPT ![c] = NoService]
    /\ current' = [current EXCEPT ![c] = FALSE]
    /\ UNCHANGED dockerVars

Requests(c) ==
    \/ Fail(c) \/ QueryNetwork(c) \/ CreateNetwork(c) \/ QuerySecret(c)
    \/ CreateSecret(c) \/ QueryInfo(c) \/ List(c) \/ Create(c) \/ Update(c)

\* What somebody else may make of a service of ours: another image, no label,
\* or the same service again in replicated mode.
Edited(s) == {[s EXCEPT !.image = i] : i \in Images}
                \union {[s EXCEPT !.owner = "foreign"], [s EXCEPT !.global = FALSE]}

\* Somebody else on the manager removes, creates or edits a service.
Others ==
    /\ \E n \in Names :
          \/ service[n] # NoService /\ SetService(n, NoService)
          \/ service[n].owner = "nobody" /\ SetService(n, ForeignService)
          \/ service[n].owner = "ours" /\ \E s \in Edited(service[n]) : SetService(n, s)
    /\ UNCHANGED <<network, secret, faulty, at, job, target, seen>>

\* Docker answers every request from now on.
Recover ==
    /\ faulty
    /\ faulty' = FALSE
    /\ UNCHANGED <<network, secret, service, callVars>>

ServiceNext ==
    \/ \E c \in Clients :
          \/ \E j \in Jobs : CallDeploy(c, j) \/ CallSet(c, j)
          \/ Requests(c)
          \/ Return(c)
    \/ Others
    \/ Recover

ServiceSpec == ServiceInit /\ [][ServiceNext]_serviceVars

-----------------------------------------------------------------------------
(* Properties.                                                             *)

\* No request of ours changes a network, a secret or a service that does not
\* carry our label when the request arrives, whatever happened since the
\* label was looked at ("拒绝覆盖", "拒绝复用" in agent.go; README.md:199).
UnmanagedUntouched ==
    [][at' # at =>
         /\ network = "foreign" => network' = "foreign"
         /\ \A v \in Versions : secret[v] = "foreign" => secret'[v] = "foreign"
         /\ \A n \in Names :
               service[n].owner = "foreign" => service'[n] = service[n]]_serviceVars

\* An update of agent set is applied to the service as it is, never to the
\* older one the call has read: whatever else was changed in between stays.
NoLostUpdate ==
    [][\A c \in Clients : at[c] = "update" /\ at'[c] # at[c] /\ job[c].kind = "set" =>
          \A n \in Names : service'[n] # service[n] =>
              service'[n] = MergedSpec(service[n], job[c])]_serviceVars

\* A service that carries our label can start its tasks: the network and the
\* secret it names exist and are ours.
DeployedIsComplete ==
    \A n \in Names : service[n].owner = "ours" =>
        /\ network = "ours"
        /\ service[n].version \in Versions
        /\ secret[service[n].version] = "ours"

=============================================================================
