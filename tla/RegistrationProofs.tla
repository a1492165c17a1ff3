-------------------------- MODULE RegistrationProofs --------------------------
(***************************************************************************)
(* The configuration file, the connections and the Global Agent Service    *)
(* agree, in the process that runs (AgentRun: OneConnection and            *)
(* DisabledIsDeployed) and in the command that installs (AgentInstall:     *)
(* InstalledIsDeployed and CredentialKept), for every number of            *)
(* connections, tokens, credential versions and failures.                  *)
(*                                                                         *)
(* The objects of the Swarm come first: what deployGlobalAgent and         *)
(* setGlobalAgent promise about them (GlobalAgentService), for any number  *)
(* of callers, names and credential versions; and what becomes of them     *)
(* while a fleet of agents recovers the address of the API (AgentFleet).   *)
(*                                                                         *)
(* AgentRun and AgentInstall are driven by the same Connect, so that the   *)
(* lemmas on what one connection does and on what a deployment leaves are  *)
(* stated once.  That the connections are goroutines of one process        *)
(* (RunAssumption) is cited only for galaxy-agent run, that no two         *)
(* commands run at a time only, and by name, for galaxy agent install, and *)
(* that the callers are the managers (FleetAssumption) only for the fleet. *)
(***************************************************************************)
EXTENDS AgentInstall, AgentRun, AgentFleet, TLAPS

-----------------------------------------------------------------------------
(* The objects of the Swarm.                                               *)

\* What the calls are given and what they send is well-typed, and so is what
\* somebody else makes of a service.
LEMMA SpecTypes ==
    /\ NoService \in Service /\ ForeignService \in Service /\ NoJob \in Job
    /\ DeployJob \subseteq Job /\ SetJob \subseteq Job
    /\ \A j \in Job : DeploySpec(j) \in Service
    /\ \A s \in Service, j \in Job : MergedSpec(s, j) \in Service
    /\ \A s \in Service : Edited(s) \subseteq Service
<1>1. NoService \in Service
  BY DEF NoService, Service, Owner
<1>2. ForeignService \in Service
  BY DEF ForeignService, NoService, Service, Owner
<1>3. NoJob \in Job
  BY DEF NoJob, Job
<1>4. DeployJob \subseteq Job
  BY DEF DeployJob, Job
<1>5. SetJob \subseteq Job
  BY DEF SetJob, Job
<1>6. \A j \in Job : DeploySpec(j) \in Service
  BY DEF DeploySpec, Job, Service, Owner
<1>7. \A s \in Service, j \in Job : MergedSpec(s, j) \in Service
  <2> SUFFICES ASSUME NEW s \in Service, NEW j \in Job
               PROVE  MergedSpec(s, j) \in Service
    OBVIOUS
  <2>1. (IF j.api = Keep THEN s.api ELSE j.api) \in Apis \union {Keep}
    BY DEF Service, Job
  <2>2. (IF j.image = Keep THEN s.image ELSE j.image) \in Images \union {Keep}
    BY DEF Service, Job
  <2>3. j.join \in Joins \union {Keep}
    BY DEF Job
  <2>4. QED
    BY <2>1, <2>2, <2>3 DEF MergedSpec, Service
<1>8. \A s \in Service : Edited(s) \subseteq Service
  <2> SUFFICES ASSUME NEW s \in Service
               PROVE  Edited(s) \subseteq Service
    OBVIOUS
  <2>1. \A i \in Images : [s EXCEPT !.image = i] \in Service
    BY DEF Service
  <2>2. [s EXCEPT !.owner = "foreign"] \in Service
    BY DEF Service, Owner
  <2>3. [s EXCEPT !.global = FALSE] \in Service
    BY DEF Service
  <2>4. QED
    BY <2>1, <2>2, <2>3 DEF Edited
<1>9. QED
  BY <1>1, <1>2, <1>3, <1>4, <1>5, <1>6, <1>7, <1>8

\* What a call sends is a service.
LEMMA NewSpecType ==
    ASSUME ServiceTypeOK, NEW c \in Clients
    PROVE  NewSpec(c) \in Service
  BY SpecTypes DEF NewSpec, ServiceTypeOK

\* A service that is replaced by a service leaves the Swarm well-typed.
LEMMA SetServiceTypes ==
    ASSUME ServiceTypeOK, NEW n \in Names, NEW s \in Service, SetService(n, s)
    PROVE  /\ service' \in [Names -> Service]
           /\ current' \in [Clients -> BOOLEAN]
  BY DEF ServiceTypeOK, SetService

\* A client goes from one request to another.
LEMMA StepTypes ==
    ASSUME ServiceTypeOK, NEW c \in Clients
    PROVE  \A step \in Request : Step(c, step) => at' \in [Clients -> Request]
  BY DEF ServiceTypeOK, Step

\* Type correctness of one request, or of the call or return around it.
LEMMA ClientTypes ==
    ASSUME ServiceTypeOK, NEW c \in Clients,
           \/ \E j : CallDeploy(c, j) \/ CallSet(c, j)
           \/ Requests(c) \/ Return(c)
    PROVE  ServiceTypeOK'
<1> USE DEF ServiceTypeOK
<1>1. ASSUME NEW j, CallDeploy(c, j) \/ CallSet(c, j)
      PROVE  ServiceTypeOK'
  <2>1. j \in Job
    BY <1>1, SpecTypes DEF CallDeploy, CallSet
  <2>2. at' \in [Clients -> Request]
    BY <1>1, StepTypes DEF CallDeploy, CallSet, Request
  <2>3. QED
    BY <1>1, <2>1, <2>2 DEF CallDeploy, CallSet, dockerVars
<1>2. CASE Fail(c) \/ QueryNetwork(c) \/ QuerySecret(c) \/ QueryInfo(c)
  <2>1. at' \in [Clients -> Request]
    BY <1>2, StepTypes DEF Fail, QueryNetwork, QuerySecret, QueryInfo, Request
  <2>2. QED
    BY <1>2, <2>1 DEF Fail, QueryNetwork, QuerySecret, QueryInfo, dockerVars, Unread
<1>3. CASE CreateNetwork(c)
  <2>1. at' \in [Clients -> Request]
    BY <1>3, StepTypes DEF CreateNetwork, Request
  <2>2. QED
    BY <1>3, <2>1 DEF CreateNetwork, Unread
<1>4. CASE CreateSecret(c)
  <2>1. at' \in [Clients -> Request]
    BY <1>4, StepTypes DEF CreateSecret, Request
  <2>2. QED
    BY <1>4, <2>1 DEF CreateSecret, Unread
<1>5. CASE List(c)
  <2>1. CASE Listed = {} /\ UNCHANGED <<target, seen, current>>
                         /\ Step(c, IF job[c].kind = "deploy" THEN "create" ELSE "failed")
    <3>1. at' \in [Clients -> Request]
      BY <2>1, StepTypes DEF Request
    <3>2. QED
      BY <1>5, <2>1, <3>1 DEF List, dockerVars
  <2>2. ASSUME NEW n \in Listed,
               target' = [target EXCEPT ![c] = n],
               seen' = [seen EXCEPT ![c] = service[n]],
               current' = [current EXCEPT ![c] = TRUE],
               Step(c, IF service[n].owner = "foreign" THEN "unmanaged"
                       ELSE IF job[c].kind = "set" /\ ~ service[n].global
                         THEN "failed"
                       ELSE "update")
        PROVE  ServiceTypeOK'
    <3>1. at' \in [Clients -> Request]
      BY <2>2, StepTypes DEF Request
    <3>2. n \in Names
      BY DEF Listed
    <3>3. QED
      BY <1>5, <2>2, <3>1, <3>2 DEF List, dockerVars
  <2>3. QED
    BY <1>5, <2>1, <2>2 DEF List
<1>6. CASE Create(c)
  <2>1. at' \in [Clients -> Request]
    BY <1>6, StepTypes DEF Create, Request
  <2>2. service' \in [Names -> Service] /\ current' \in [Clients -> BOOLEAN]
    BY <1>6, NewSpecType, SetServiceTypes DEF Create, Names
  <2>3. QED
    BY <1>6, <2>1, <2>2 DEF Create
<1>7. CASE Update(c)
  <2>1. at' \in [Clients -> Request]
    BY <1>7, StepTypes DEF Update, Request
  <2>2. service' \in [Names -> Service] /\ current' \in [Clients -> BOOLEAN]
    BY <1>7, NewSpecType, SetServiceTypes DEF Update
  <2>3. QED
    BY <1>7, <2>1, <2>2 DEF Update
<1>8. CASE Return(c)
  <2>1. at' \in [Clients -> Request]
    BY <1>8, StepTypes DEF Return, Request
  <2>2. QED
    BY <1>8, <2>1, SpecTypes DEF Return, dockerVars, Names
<1>9. QED
  BY <1>1, <1>2, <1>3, <1>4, <1>5, <1>6, <1>7, <1>8 DEF Requests

\* Type correctness, whoever calls what and whatever else happens in the Swarm.
THEOREM ServiceTypeCorrect == ServiceSpec => []ServiceTypeOK
<1>1. ServiceInit => ServiceTypeOK
  BY SpecTypes DEF ServiceInit, ServiceTypeOK, Request, Names
<1>2. ServiceTypeOK /\ [ServiceNext]_serviceVars => ServiceTypeOK'
  <2> SUFFICES ASSUME ServiceTypeOK, [ServiceNext]_serviceVars
               PROVE  ServiceTypeOK'
    OBVIOUS
  <2>1. ASSUME NEW c \in Clients,
               \/ \E j \in Jobs : CallDeploy(c, j) \/ CallSet(c, j)
               \/ Requests(c) \/ Return(c)
        PROVE  ServiceTypeOK'
    BY <2>1, ClientTypes
  <2>2. CASE Others
    <3>1. PICK n \in Names, s \in Service : SetService(n, s)
      BY <2>2, SpecTypes DEF Others, ServiceTypeOK
    <3>2. service' \in [Names -> Service] /\ current' \in [Clients -> BOOLEAN]
      BY <3>1, SetServiceTypes
    <3>3. QED
      BY <2>2, <3>2 DEF Others, ServiceTypeOK
  <2>3. CASE Recover
    BY <2>3 DEF Recover, ServiceTypeOK, callVars
  <2>4. CASE UNCHANGED serviceVars
    BY <2>4 DEF ServiceTypeOK, serviceVars, dockerVars, callVars
  <2>5. QED
    BY <2>1, <2>2, <2>3, <2>4 DEF ServiceNext
<1>3. QED
  BY <1>1, <1>2, PTL DEF ServiceSpec

-----------------------------------------------------------------------------
(* The invariant behind the other three theorems.                          *)

\* What a call relies on between two of its requests.
CallSound(c) ==
    /\ at[c] \in {"network", "createNetwork", "secret", "createSecret", "create"} =>
          job[c] \in DeployJob
    /\ at[c] = "info" => job[c].kind # "deploy"
    /\ at[c] \in {"secret", "createSecret", "list", "create", "update"}
          /\ job[c].kind = "deploy" => network = "ours"
    /\ at[c] \in {"list", "create", "update"} /\ job[c].kind = "deploy" =>
          job[c] \in DeployJob /\ secret[job[c].version] = "ours"
    /\ at[c] = "update" => seen[c].owner = "ours"
    /\ current[c] => service[target[c]] = seen[c]

Sound == DeployedIsComplete /\ \A c \in Clients : CallSound(c)

\* What a client of ours has created stays, and a call that does not act keeps
\* what it relies on, whichever service is replaced by another.
LEMMA OthersSound ==
    ASSUME ServiceTypeOK, NEW d \in Clients, CallSound(d),
           at'[d] = at[d], job'[d] = job[d], seen'[d] = seen[d],
           target'[d] = target[d],
           network = "ours" => network' = "ours",
           \A v \in Versions : secret[v] = "ours" => secret'[v] = "ours",
           current'[d] => current[d] /\ service'[target[d]] = service[target[d]]
    PROVE  CallSound(d)'
  BY DEF CallSound, DeployJob

\* Replacing one service leaves alone what the current calls have read.
LEMMA SetServiceCurrent ==
    ASSUME ServiceTypeOK, NEW n \in Names, NEW s \in Service, SetService(n, s)
    PROVE  \A d \in Clients : current'[d] =>
               current[d] /\ service'[target[d]] = service[target[d]]
  BY DEF ServiceTypeOK, SetService

\* Replacing one service keeps the others complete.
LEMMA SetServiceComplete ==
    ASSUME ServiceTypeOK, DeployedIsComplete, NEW n \in Names, NEW s \in Service,
           SetService(n, s), network' = network, secret' = secret,
           s.owner = "ours" => /\ network = "ours" /\ s.version \in Versions
                               /\ secret[s.version] = "ours"
    PROVE  DeployedIsComplete'
  BY DEF ServiceTypeOK, SetService, DeployedIsComplete

\* One request keeps Sound.
LEMMA ClientSound ==
    ASSUME ServiceTypeOK, ServiceTypeOK', Sound, NEW c \in Clients,
           \/ \E j : CallDeploy(c, j) \/ CallSet(c, j)
           \/ Requests(c) \/ Return(c)
    PROVE  Sound'
<1> USE DEF ServiceTypeOK
<1>0. DeployedIsComplete /\ \A d \in Clients : CallSound(d)
  BY DEF Sound
<1>1. ASSUME NEW j, CallDeploy(c, j) \/ CallSet(c, j)
      PROVE  Sound'
  <2>1. CallSound(c)'
    BY <1>0, <1>1 DEF CallDeploy, CallSet, CallSound, Step, dockerVars, DeployJob, SetJob
  <2>2. \A d \in Clients \ {c} : CallSound(d)'
    BY <1>0, <1>1, OthersSound DEF CallDeploy, CallSet, Step, dockerVars
  <2>3. DeployedIsComplete'
    BY <1>0, <1>1 DEF CallDeploy, CallSet, dockerVars, DeployedIsComplete
  <2>4. QED
    BY <2>1, <2>2, <2>3 DEF Sound
<1>2. CASE Fail(c) \/ QueryNetwork(c) \/ QuerySecret(c) \/ QueryInfo(c)
  <2>1. CallSound(c)'
    <3>1. CASE Fail(c)
      BY <1>0, <3>1 DEF Fail, CallSound, Step, dockerVars, Unread
    <3>2. CASE QueryNetwork(c)
      BY <1>0, <3>2 DEF QueryNetwork, CallSound, Step, dockerVars, Unread
    <3>3. CASE QuerySecret(c)
      BY <1>0, <3>3 DEF QuerySecret, CallSound, Step, dockerVars, Unread, DeployJob
    <3>4. CASE QueryInfo(c)
      BY <1>0, <3>4 DEF QueryInfo, CallSound, Step, dockerVars, Unread
    <3>5. QED
      BY <1>2, <3>1, <3>2, <3>3, <3>4
  <2>2. \A d \in Clients \ {c} : CallSound(d)'
    BY <1>0, <1>2, OthersSound
    DEF Fail, QueryNetwork, QuerySecret, QueryInfo, Step, dockerVars, Unread
  <2>3. DeployedIsComplete'
    BY <1>0, <1>2
    DEF Fail, QueryNetwork, QuerySecret, QueryInfo, dockerVars, DeployedIsComplete
  <2>4. QED
    BY <2>1, <2>2, <2>3 DEF Sound
<1>3. CASE CreateNetwork(c)
  <2>1. CallSound(c)'
    BY <1>0, <1>3 DEF CreateNetwork, CallSound, Step, Unread
  <2>2. \A d \in Clients \ {c} : CallSound(d)'
    BY <1>0, <1>3, OthersSound DEF CreateNetwork, Step, Unread
  <2>3. DeployedIsComplete'
    BY <1>0, <1>3 DEF CreateNetwork, DeployedIsComplete
  <2>4. QED
    BY <2>1, <2>2, <2>3 DEF Sound
<1>4. CASE CreateSecret(c)
  <2>0. job[c] \in DeployJob /\ job[c].version \in Versions /\ network = "ours"
    BY <1>0, <1>4 DEF CreateSecret, CallSound, DeployJob
  <2>5. \A v \in Versions : secret[v] = "ours" => secret'[v] = "ours"
    BY <1>4, <2>0 DEF CreateSecret
  <2>1. CallSound(c)'
    <3>1. CASE secret[job[c].version] = "none"
      BY <1>0, <1>4, <2>0, <3>1 DEF CreateSecret, CallSound, Step, Unread
    <3>2. CASE secret[job[c].version] # "none"
      BY <1>0, <1>4, <2>0, <3>2 DEF CreateSecret, CallSound, Step, Unread
    <3>3. QED
      BY <3>1, <3>2
  <2>2. \A d \in Clients \ {c} : CallSound(d)'
    <3>1. ASSUME NEW d \in Clients, d # c
          PROVE  CallSound(d)'
      BY <1>0, <1>4, <2>5, <3>1, OthersSound DEF CreateSecret, Step, Unread
    <3>2. QED
      BY <3>1
  <2>3. DeployedIsComplete'
    <3>1. ASSUME NEW n \in Names, service[n].owner = "ours"
          PROVE  /\ network' = "ours"
                 /\ service[n].version \in Versions
                 /\ secret'[service[n].version] = "ours"
      BY <1>0, <1>4, <2>5, <3>1 DEF CreateSecret, DeployedIsComplete
    <3>2. QED
      BY <1>4, <3>1 DEF CreateSecret, DeployedIsComplete
  <2>4. QED
    BY <2>1, <2>2, <2>3 DEF Sound
<1>5. CASE List(c)
  <2>1. CallSound(c)'
    <3>1. CASE Listed = {} /\ UNCHANGED <<target, seen, current>>
                           /\ Step(c, IF job[c].kind = "deploy" THEN "create" ELSE "failed")
      BY <1>0, <1>5, <3>1 DEF List, CallSound, Step, dockerVars
    <3>2. ASSUME NEW n \in Listed,
                 target' = [target EXCEPT ![c] = n],
                 seen' = [seen EXCEPT ![c] = service[n]],
                 current' = [current EXCEPT ![c] = TRUE],
                 Step(c, IF service[n].owner = "foreign" THEN "unmanaged"
                         ELSE IF job[c].kind = "set" /\ ~ service[n].global
                           THEN "failed"
                         ELSE "update")
          PROVE  CallSound(c)'
      <4>1. n \in Names /\ service[n] \in Service /\ service[n].owner # "nobody"
        BY DEF Listed
      <4>2. service[n].owner # "foreign" => service[n].owner = "ours"
        BY <4>1 DEF Service, Owner
      <4>3. QED
        BY <1>0, <1>5, <3>2, <4>1, <4>2 DEF List, CallSound, Step, dockerVars
    <3>3. QED
      BY <1>5, <3>1, <3>2 DEF List
  <2>2. \A d \in Clients \ {c} : CallSound(d)'
    BY <1>0, <1>5, OthersSound DEF List, Step, dockerVars
  <2>3. DeployedIsComplete'
    BY <1>0, <1>5 DEF List, dockerVars, DeployedIsComplete
  <2>4. QED
    BY <2>1, <2>2, <2>3 DEF Sound
<1>6. ASSUME NEW n \in Names, NEW s \in Service, SetService(n, s),
             Step(c, "ok") \/ Step(c, "failed"),
             UNCHANGED <<network, secret, job, target, seen>>,
             s.owner = "ours" => /\ network = "ours" /\ s.version \in Versions
                               /\ secret[s.version] = "ours"
      PROVE  Sound'
  <2>1. \A d \in Clients : current'[d] =>
            current[d] /\ service'[target[d]] = service[target[d]]
    BY <1>6, SetServiceCurrent
  <2>2. \A d \in Clients \ {c} : CallSound(d)'
    BY <1>0, <1>6, <2>1, OthersSound DEF Step
  <2>3. CallSound(c)'
    BY <1>0, <1>6, <2>1 DEF CallSound, Step
  <2>4. DeployedIsComplete'
    BY <1>0, <1>6, SetServiceComplete
  <2>5. QED
    BY <2>2, <2>3, <2>4 DEF Sound
<1>7. ASSUME Step(c, "failed"),
             UNCHANGED <<network, secret, service, current, job, target, seen>>
      PROVE  Sound'
  <2>1. CallSound(c)'
    BY <1>0, <1>7 DEF CallSound, Step
  <2>2. \A d \in Clients \ {c} : CallSound(d)'
    BY <1>0, <1>7, OthersSound DEF Step
  <2>3. DeployedIsComplete'
    BY <1>0, <1>7 DEF DeployedIsComplete
  <2>4. QED
    BY <2>1, <2>2, <2>3 DEF Sound
<1>8. CASE Create(c)
  <2>1. NewSpec(c) \in Service /\ NewSpec(c) = DeploySpec(job[c])
    BY <1>0, <1>8, NewSpecType DEF Create, CallSound, NewSpec, DeployJob
  <2>2. /\ network = "ours" /\ NewSpec(c).version \in Versions
        /\ secret[NewSpec(c).version] = "ours"
    BY <1>0, <1>8, <2>1 DEF Create, CallSound, DeploySpec, DeployJob
  <2>3. QED
    BY <1>6, <1>7, <1>8, <2>1, <2>2 DEF Create, Names
<1>9. CASE Update(c)
  <2>1. CASE current[c] /\ service[target[c]].global
    <3>1. NewSpec(c) \in Service
      BY NewSpecType
    <3>2. service[target[c]] = seen[c] /\ seen[c].owner = "ours" /\ target[c] \in Names
      BY <1>0, <1>9, <2>1 DEF Update, CallSound
    <3>3. /\ network = "ours" /\ seen[c].version \in Versions
          /\ secret[seen[c].version] = "ours"
      BY <1>0, <3>2 DEF DeployedIsComplete
    <3>4. job[c].kind # "deploy" => NewSpec(c).version = seen[c].version
      BY DEF NewSpec, MergedSpec, Service
    <3>5. job[c].kind = "deploy" => /\ NewSpec(c).version \in Versions
                                    /\ secret[NewSpec(c).version] = "ours"
      BY <1>0, <1>9 DEF Update, CallSound, NewSpec, DeploySpec, DeployJob
    <3>6. QED
      BY <1>6, <1>9, <2>1, <3>1, <3>2, <3>3, <3>4, <3>5 DEF Update
  <2>2. CASE ~ (current[c] /\ service[target[c]].global)
    BY <1>7, <1>9, <2>2 DEF Update
  <2>3. QED
    BY <2>1, <2>2
<1>10. CASE Return(c)
  <2>1. CallSound(c)'
    BY <1>0, <1>10 DEF Return, CallSound, Step, dockerVars
  <2>2. \A d \in Clients \ {c} : CallSound(d)'
    BY <1>0, <1>10, OthersSound DEF Return, Step, dockerVars
  <2>3. DeployedIsComplete'
    BY <1>0, <1>10 DEF Return, dockerVars, DeployedIsComplete
  <2>4. QED
    BY <2>1, <2>2, <2>3 DEF Sound
<1>11. QED
  BY <1>1, <1>2, <1>3, <1>4, <1>5, <1>8, <1>9, <1>10 DEF Requests

\* Sound holds whoever calls what and whatever else happens in the Swarm.
THEOREM SoundKept == ServiceSpec => []Sound
<1>1. ServiceInit => Sound
  <2> SUFFICES ASSUME ServiceInit
               PROVE  Sound
    OBVIOUS
  <2>1. NoService.owner # "ours" /\ ForeignService.owner # "ours"
    BY DEF NoService, ForeignService
  <2>2. DeployedIsComplete
    BY <2>1 DEF ServiceInit, DeployedIsComplete
  <2>3. \A c \in Clients : CallSound(c)
    BY DEF ServiceInit, CallSound
  <2>4. QED
    BY <2>2, <2>3 DEF Sound
<1>2. ServiceTypeOK /\ ServiceTypeOK' /\ Sound /\ [ServiceNext]_serviceVars => Sound'
  <2> SUFFICES ASSUME ServiceTypeOK, ServiceTypeOK', Sound, [ServiceNext]_serviceVars
               PROVE  Sound'
    OBVIOUS
  <2>0. DeployedIsComplete /\ \A d \in Clients : CallSound(d)
    BY DEF Sound
  <2>1. ASSUME NEW c \in Clients,
               \/ \E j \in Jobs : CallDeploy(c, j) \/ CallSet(c, j)
               \/ Requests(c) \/ Return(c)
        PROVE  Sound'
    BY <2>1, ClientSound
  <2>2. CASE Others
    <3>1. PICK n \in Names, s \in Service :
            /\ SetService(n, s)
            /\ s.owner = "ours" => /\ service[n].owner = "ours"
                                   /\ s.version = service[n].version
      <4>1. PICK n \in Names :
              \/ SetService(n, NoService)
              \/ SetService(n, ForeignService)
              \/ service[n].owner = "ours" /\ \E s \in Edited(service[n]) : SetService(n, s)
        BY <2>2 DEF Others
      <4>2. NoService.owner # "ours" /\ ForeignService.owner # "ours"
        BY DEF NoService, ForeignService
      <4>3. \A s \in Edited(service[n]) : s.version = service[n].version
        BY DEF Edited, Service, ServiceTypeOK
      <4>4. service[n] \in Service
        BY DEF ServiceTypeOK
      <4>5. QED
        BY <4>1, <4>2, <4>3, <4>4, SpecTypes
    <3>2. s.owner = "ours" => /\ network = "ours" /\ s.version \in Versions
                              /\ secret[s.version] = "ours"
      BY <2>0, <3>1 DEF DeployedIsComplete
    <3>3. DeployedIsComplete'
      BY <2>0, <2>2, <3>1, <3>2, SetServiceComplete DEF Others
    <3>4. \A d \in Clients : current'[d] =>
              current[d] /\ service'[target[d]] = service[target[d]]
      BY <3>1, SetServiceCurrent
    <3>5. \A d \in Clients : CallSound(d)'
      BY <2>0, <2>2, <3>4, OthersSound DEF Others
    <3>6. QED
      BY <3>3, <3>5 DEF Sound
  <2>3. CASE Recover
    BY <2>0, <2>3 DEF Recover, Sound, CallSound, DeployedIsComplete, callVars
  <2>4. CASE UNCHANGED serviceVars
    BY <2>0, <2>4 DEF Sound, CallSound, DeployedIsComplete, serviceVars, dockerVars, callVars
  <2>5. QED
    BY <2>1, <2>2, <2>3, <2>4 DEF ServiceNext
<1>3. QED
  BY <1>1, <1>2, ServiceTypeCorrect, PTL DEF ServiceSpec

\* A service with our label always has the network and the secret it names.
THEOREM DeployedComplete == ServiceSpec => []DeployedIsComplete
<1>1. Sound => DeployedIsComplete
  BY DEF Sound
<1>2. QED
  BY <1>1, SoundKept, PTL

\* An update that Docker accepts meets the service the call has read, one with
\* our label, and replaces nothing else.
LEMMA UpdateMeetsSeen ==
    ASSUME ServiceTypeOK, Sound, NEW c \in Clients, Update(c)
    PROVE  \A n \in Names : service'[n] # service[n] =>
               /\ n = target[c]
               /\ service[n] = seen[c]
               /\ seen[c].owner = "ours"
               /\ service'[n] = NewSpec(c)
<1>1. CallSound(c)
  BY DEF Sound
<1>2. CASE current[c] /\ service[target[c]].global
  <2>1. SetService(target[c], NewSpec(c))
    BY <1>2 DEF Update
  <2>2. \A n \in Names : service'[n] = IF n = target[c] THEN NewSpec(c) ELSE service[n]
    BY <2>1 DEF SetService, ServiceTypeOK
  <2>3. service[target[c]] = seen[c] /\ seen[c].owner = "ours"
    BY <1>1, <1>2 DEF CallSound, Update
  <2>4. QED
    BY <2>2, <2>3
<1>3. CASE ~ (current[c] /\ service[target[c]].global)
  BY <1>3 DEF Update
<1>4. QED
  BY <1>2, <1>3

\* Nothing that carries no label of ours is changed by a request of ours.
THEOREM UnmanagedKept == ServiceSpec => UnmanagedUntouched
<1> DEFINE Allowed ==
      at' # at =>
         /\ network = "foreign" => network' = "foreign"
         /\ \A v \in Versions : secret[v] = "foreign" => secret'[v] = "foreign"
         /\ \A n \in Names :
               service[n].owner = "foreign" => service'[n] = service[n]
<1>1. ServiceTypeOK /\ Sound /\ [ServiceNext]_serviceVars => [Allowed]_serviceVars
  <2> SUFFICES ASSUME ServiceTypeOK, Sound, ServiceNext
               PROVE  Allowed
    OBVIOUS
  <2>1. ASSUME NEW c \in Clients, NEW j \in Jobs, CallDeploy(c, j) \/ CallSet(c, j)
        PROVE  Allowed
    BY <2>1 DEF CallDeploy, CallSet, dockerVars
  <2>2. ASSUME NEW c \in Clients,
               Fail(c) \/ QueryNetwork(c) \/ QuerySecret(c) \/ QueryInfo(c)
                 \/ List(c) \/ Return(c)
        PROVE  Allowed
    BY <2>2 DEF Fail, QueryNetwork, QuerySecret, QueryInfo, List, Return, dockerVars
  <2>3. ASSUME NEW c \in Clients, CreateNetwork(c)
        PROVE  Allowed
    BY <2>3 DEF CreateNetwork
  <2>4. ASSUME NEW c \in Clients, CreateSecret(c)
        PROVE  Allowed
    BY <2>4 DEF CreateSecret, ServiceTypeOK
  <2>5. ASSUME NEW c \in Clients, Create(c)
        PROVE  Allowed
    <3>1. service[Agent].owner = "nobody" =>
            \A n \in Names \ {Agent} : service'[n] = service[n]
      BY <2>5 DEF Create, SetService, ServiceTypeOK
    <3>2. service[Agent].owner # "nobody" => service' = service
      BY <2>5 DEF Create
    <3>3. QED
      BY <2>5, <3>1, <3>2 DEF Create
  <2>6. ASSUME NEW c \in Clients, Update(c)
        PROVE  Allowed
    BY <2>6, UpdateMeetsSeen DEF Update
  <2>7. CASE Others \/ Recover
    BY <2>7 DEF Others, Recover, callVars
  <2>8. QED
    BY <2>1, <2>2, <2>3, <2>4, <2>5, <2>6, <2>7 DEF ServiceNext, Requests
<1>2. QED
  BY <1>1, ServiceTypeCorrect, SoundKept, PTL DEF ServiceSpec, UnmanagedUntouched

\* An update of agent set is applied to the service as it is.
THEOREM UpdatesKept == ServiceSpec => NoLostUpdate
<1> DEFINE Allowed ==
      \A c \in Clients : at[c] = "update" /\ at'[c] # at[c] /\ job[c].kind = "set" =>
          \A n \in Names : service'[n] # service[n] =>
              service'[n] = MergedSpec(service[n], job[c])
<1>1. ServiceTypeOK /\ Sound /\ [ServiceNext]_serviceVars => [Allowed]_serviceVars
  <2> SUFFICES ASSUME ServiceTypeOK, Sound, ServiceNext,
                      NEW c \in Clients, at[c] = "update", at'[c] # at[c],
                      job[c].kind = "set"
               PROVE  \A n \in Names : service'[n] # service[n] =>
                          service'[n] = MergedSpec(service[n], job[c])
    OBVIOUS
  <2>1. ASSUME NEW d \in Clients, NEW j \in Jobs, CallDeploy(d, j) \/ CallSet(d, j)
        PROVE  service' = service
    BY <2>1 DEF CallDeploy, CallSet, dockerVars
  <2>2. ASSUME NEW d \in Clients, Requests(d) \/ Return(d)
        PROVE  service' = service \/ Update(c)
    <3>1. CASE d = c
      BY <2>2, <3>1 DEF Requests, Return, Fail, QueryNetwork, CreateNetwork,
         QuerySecret, CreateSecret, QueryInfo, List, Create, dockerVars
    <3>2. CASE d # c
      <4>1. PICK step : Step(d, step)
        BY <2>2 DEF Requests, Return, Fail, QueryNetwork, CreateNetwork,
           QuerySecret, CreateSecret, QueryInfo, List, Create, Update
      <4>2. at'[c] = at[c]
        BY <3>2, <4>1 DEF Step, ServiceTypeOK
      <4>3. QED
        BY <4>2
    <3>3. QED
      BY <3>1, <3>2
  <2>3. CASE Others \/ Recover
    BY <2>3 DEF Others, Recover, callVars
  <2>4. CASE Update(c)
    BY <2>4, UpdateMeetsSeen DEF NewSpec
  <2>5. QED
    BY <2>1, <2>2, <2>3, <2>4 DEF ServiceNext
<1>2. QED
  BY <1>1, ServiceTypeCorrect, SoundKept, PTL DEF ServiceSpec, NoLostUpdate

-----------------------------------------------------------------------------
(* The service of a fleet, whose managers recover the address beside each  *)
(* other, an operator, and tasks that stop in the middle of a request.     *)

\* The service stays deployed for every node, and no task of it, nor anybody
\* else here, deploys another one.
FleetSound ==
    /\ Sound
    /\ service[Agent].owner = "ours" /\ service[Agent].global
    /\ \A c \in Clients : job[c].kind # "deploy"

\* The variables of a fleet that are not those of the service keep their types.
FleetTyped ==
    /\ address \in [Nodes -> Hosts]
    /\ mesh \in BOOLEAN
    /\ serving \in BOOLEAN
    /\ task \in [Nodes -> Service]
    /\ place \in [Nodes -> {"dial", "fallback", "recover", "online", "refused"}]
    /\ via \in [Nodes -> Apis \union {Keep}]
    /\ troubles \in 0..MaxTroubles

\* What a fleet begins with.
LEMMA FleetStart == FleetInit => FleetTypeOK /\ FleetSound
<1> SUFFICES ASSUME FleetInit
             PROVE  FleetTypeOK /\ FleetSound
  OBVIOUS
<1>1. PICK v \in Versions, i \in Images, a \in Named \union {address[Host]} :
         service = [n \in Names |->
             IF n # Agent THEN NoService
             ELSE DeploySpec([version |-> v, api |-> a, image |-> i,
                              join |-> address[Host]])]
  BY DEF FleetInit
<1>2. /\ address \in [Nodes -> Hosts] /\ address[Host] \in Hosts
      /\ a \in Apis /\ address[Host] \in Joins /\ 0 \in 0..MaxTroubles
  BY FleetAssumption DEF FleetInit, Nodes
<1> DEFINE sent == DeploySpec([version |-> v, api |-> a, image |-> i, join |-> address[Host]])
<1>3. /\ sent \in Service /\ sent.owner = "ours" /\ sent.global /\ sent.version = v
      /\ sent.api \in Apis
  BY <1>2 DEF DeploySpec, Service, Owner
<1> HIDE DEF sent
<1>4. /\ service \in [Names -> Service] /\ service[Agent] = sent
      /\ \A n \in Names : n # Agent => service[n].owner = "nobody"
  BY <1>1, <1>3, SpecTypes DEF Names, sent, NoService
<1>5. ServiceTypeOK
  BY <1>4, SpecTypes DEF FleetInit, ServiceTypeOK, Request, Names
<1>6. FleetTyped
  BY <1>2, <1>3, <1>4 DEF FleetInit, FleetTyped
<1>7. DeployedIsComplete
  BY <1>3, <1>4 DEF FleetInit, DeployedIsComplete
<1>8. \A c \in Clients : CallSound(c) /\ job[c].kind # "deploy"
  BY DEF FleetInit, CallSound, NoJob
<1>9. QED
  BY <1>3, <1>4, <1>5, <1>6, <1>7, <1>8 DEF FleetTypeOK, FleetTyped, FleetSound, Sound

\* What one step of a fleet is for the service of its agents: a request of a
\* manager's task, the stop of a task, an update by the operator, or nothing.
FleetActs ==
    \/ \E c \in Clients :
          \/ \E j : CallSet(c, j)
          \/ Requests(c) \/ Return(c)
    \/ \E c \in Clients :
          /\ at' = [at EXCEPT ![c] = "idle"]
          /\ job' = [job EXCEPT ![c] = NoJob]
          /\ target' = [target EXCEPT ![c] = Agent]
          /\ seen' = [seen EXCEPT ![c] = NoService]
          /\ current' = [current EXCEPT ![c] = FALSE]
          /\ UNCHANGED dockerVars
    \/ \E s \in Service :
          /\ SetService(Agent, s)
          /\ s.owner = service[Agent].owner /\ s.global = service[Agent].global
          /\ s.version = service[Agent].version
          /\ UNCHANGED <<network, secret, faulty, at, job, target, seen>>
    \/ Recover
    \/ UNCHANGED serviceVars

\* Every step of a fleet is one of these for the service.
LEMMA FleetStep ==
    ASSUME FleetTypeOK, [FleetNext]_fleetVars
    PROVE  FleetActs /\ FleetTyped'
<1>0. FleetTyped /\ ServiceTypeOK
  BY DEF FleetTypeOK, FleetTyped
<1>a. Managers = Clients /\ Host \in Managers /\ Hosts \subseteq Apis /\ Joins = Hosts
  BY FleetAssumption
<1>b. Agent \in Names
  BY DEF Names
<1>1. ASSUME NEW n \in Nodes, DialConfigured(n) \/ DialFallback(n) \/ Lost(n)
      PROVE  FleetActs /\ FleetTyped'
  <2>1. UNCHANGED <<serviceVars, worldVars, task>>
    BY <1>1 DEF DialConfigured, DialFallback, Lost
  <2>2. place' \in [Nodes -> {"dial", "fallback", "recover", "online", "refused"}]
    BY <1>0, <1>1 DEF FleetTyped, DialConfigured, DialFallback, Lost, Go
  <2>3. via' \in [Nodes -> Apis \union {Keep}]
    <3>1. \A a \in Second(n, address[n]) : a \in Apis
      BY <1>0, <1>a DEF FleetTyped, Second
    <3>2. task[n].api \in Apis \union {Keep}
      BY <1>0 DEF FleetTyped, Service
    <3>3. QED
      BY <1>0, <1>1, <3>1, <3>2 DEF FleetTyped, DialConfigured, DialFallback, Lost
  <2>4. QED
    BY <1>0, <2>1, <2>2, <2>3 DEF FleetTyped, FleetActs, worldVars
<1>2. ASSUME NEW n \in Nodes, IsManager(n), RecoverCall(n) \/ RecoverRequest(n)
      PROVE  FleetActs /\ FleetTyped'
  <2>1. UNCHANGED <<worldVars, taskVars>>
    BY <1>2 DEF RecoverCall, RecoverRequest
  <2>2. FleetActs
    BY <1>a, <1>2 DEF IsManager, RecoverCall, RecoverRequest, FleetActs
  <2>3. QED
    BY <1>0, <2>1, <2>2 DEF FleetTyped, worldVars, taskVars
<1>3. ASSUME NEW n \in Nodes, IsManager(n), RecoverReturn(n)
      PROVE  FleetActs /\ FleetTyped'
  <2>1. FleetActs
    BY <1>a, <1>3 DEF IsManager, RecoverReturn, FleetActs
  <2>2. QED
    BY <1>0, <1>3, <2>1 DEF FleetTyped, RecoverReturn, Go, worldVars
<1>4. ASSUME NEW n \in Nodes, Restarted(n)
      PROVE  FleetActs /\ /\ task' \in [Nodes -> Service]
                          /\ place' \in [Nodes -> {"dial", "fallback", "recover", "online", "refused"}]
                          /\ via' \in [Nodes -> Apis \union {Keep}]
  <2>1. CASE IsManager(n)
    BY <1>0, <1>a, <1>b, <1>4, <2>1
    DEF FleetTyped, ServiceTypeOK, Restarted, IsManager, FleetActs, Go
  <2>2. CASE ~ IsManager(n)
    BY <1>0, <1>b, <1>4, <2>2
    DEF FleetTyped, ServiceTypeOK, Restarted, FleetActs, Go, serviceVars
  <2>3. QED
    BY <2>1, <2>2
<1>5. ASSUME NEW n \in Nodes, Replace(n)
      PROVE  FleetActs /\ FleetTyped'
  BY <1>0, <1>4, <1>5 DEF Replace, FleetTyped, worldVars
<1>6. ASSUME Trouble
      PROVE  troubles' \in 0..MaxTroubles
  BY <1>0, <1>6, FleetAssumption DEF FleetTyped, Trouble
<1>7. ASSUME NEW n \in Nodes, Die(n)
      PROVE  FleetActs /\ FleetTyped'
  BY <1>0, <1>4, <1>6, <1>7 DEF Die, FleetTyped
<1>8. ASSUME NEW n \in Nodes, Move(n)
      PROVE  FleetActs /\ FleetTyped'
  BY <1>0, <1>6, <1>8 DEF Move, FleetTyped, FleetActs, taskVars
<1>9. CASE Outage \/ ServeAgain
  BY <1>0, <1>6, <1>9 DEF Outage, ServeAgain, FleetTyped, FleetActs, taskVars
<1>10. CASE OperatorSets
  <2>1. PICK i \in Images :
           SetService(Agent, MergedSpec(service[Agent],
               [kind |-> "set", version |-> 0, api |-> Keep, image |-> i,
                join |-> address[Host]]))
    BY <1>10 DEF OperatorSets
  <2> DEFINE asked == [kind |-> "set", version |-> 0, api |-> Keep, image |-> i,
                       join |-> address[Host]]
             s == MergedSpec(service[Agent], asked)
  <2>2. address[Host] \in Joins
    BY <1>0, <1>a DEF FleetTyped, Nodes
  <2>3. asked \in Job /\ service[Agent] \in Service
    BY <1>0, <1>b, <2>2 DEF Job, ServiceTypeOK
  <2>4. s \in Service
    BY <2>3, SpecTypes
  <2>5. /\ s.owner = service[Agent].owner /\ s.global = service[Agent].global
        /\ s.version = service[Agent].version
    BY <2>3 DEF MergedSpec, Service
  <2>6. FleetActs
    BY <1>10, <2>1, <2>4, <2>5 DEF OperatorSets, FleetActs
  <2>7. QED
    BY <1>0, <1>6, <1>10, <2>6 DEF OperatorSets, FleetTyped, taskVars
<1>11. CASE Recover /\ UNCHANGED <<worldVars, taskVars>>
  BY <1>0, <1>11 DEF FleetTyped, FleetActs, worldVars, taskVars
<1>12. CASE UNCHANGED fleetVars
  BY <1>0, <1>12 DEF FleetTyped, FleetActs, fleetVars, worldVars, taskVars
<1>13. QED
  BY <1>1, <1>2, <1>3, <1>5, <1>7, <1>8, <1>9, <1>10, <1>11, <1>12 DEF FleetNext, Agents

\* A step of a fleet keeps what calls and services rely on, changes the service
\* only as a request of agent set does, and not the credential it names.
LEMMA FleetActsSound ==
    ASSUME ServiceTypeOK, FleetSound, FleetActs
    PROVE  /\ ServiceTypeOK' /\ FleetSound'
           /\ service'[Agent].version = service[Agent].version
<1>0. /\ Agent \in Names
      /\ Sound /\ DeployedIsComplete /\ \A d \in Clients : CallSound(d)
      /\ service[Agent].owner = "ours" /\ service[Agent].global
      /\ service[Agent] \in Service
      /\ \A d \in Clients : job[d].kind # "deploy"
  BY DEF FleetSound, Sound, Names, ServiceTypeOK
<1>1. ASSUME NEW c \in Clients, \/ \E j : CallSet(c, j)
                                \/ Requests(c) \/ Return(c)
      PROVE  /\ ServiceTypeOK' /\ FleetSound'
             /\ service'[Agent].version = service[Agent].version
  <2>1. ServiceTypeOK'
    BY <1>1, ClientTypes
  <2>2. Sound'
    BY <1>0, <1>1, <2>1, ClientSound
  <2>3. \A d \in Clients : job'[d].kind # "deploy"
    <3>1. ASSUME NEW j, CallSet(c, j)
          PROVE  \A d \in Clients : job'[d].kind # "deploy"
      <4>1. j.kind # "deploy"
        BY <3>1 DEF CallSet, SetJob
      <4>2. QED
        BY <1>0, <3>1, <4>1 DEF CallSet, ServiceTypeOK
    <3>2. CASE Requests(c)
      BY <1>0, <3>2 DEF Requests, Fail, QueryNetwork, CreateNetwork, QuerySecret,
         CreateSecret, QueryInfo, List, Create, Update, Unread
    <3>3. CASE Return(c)
      BY <1>0, <3>3 DEF Return, NoJob, ServiceTypeOK
    <3>4. QED
      BY <1>1, <3>1, <3>2, <3>3
  <2>4. service'[Agent] = service[Agent] \/ Update(c)
    <3>1. ASSUME NEW j, CallSet(c, j)
          PROVE  service'[Agent] = service[Agent]
      BY <3>1 DEF CallSet, dockerVars
    <3>2. CASE Requests(c)
      BY <1>0, <3>2 DEF Requests, Fail, QueryNetwork, CreateNetwork, QuerySecret,
         CreateSecret, QueryInfo, List, Create, dockerVars
    <3>3. CASE Return(c)
      BY <3>3 DEF Return, dockerVars
    <3>4. QED
      BY <1>1, <3>1, <3>2, <3>3
  <2>5. ASSUME Update(c), service'[Agent] # service[Agent]
        PROVE  service'[Agent] = MergedSpec(service[Agent], job[c])
    BY <1>0, <2>5, UpdateMeetsSeen DEF NewSpec
  <2>6. /\ service'[Agent].owner = "ours" /\ service'[Agent].global
        /\ service'[Agent].version = service[Agent].version
    BY <1>0, <2>4, <2>5 DEF MergedSpec, Service
  <2>7. QED
    BY <2>1, <2>2, <2>3, <2>6 DEF FleetSound
<1>2. ASSUME NEW c \in Clients,
             at' = [at EXCEPT ![c] = "idle"],
             job' = [job EXCEPT ![c] = NoJob],
             target' = [target EXCEPT ![c] = Agent],
             seen' = [seen EXCEPT ![c] = NoService],
             current' = [current EXCEPT ![c] = FALSE],
             UNCHANGED dockerVars
      PROVE  /\ ServiceTypeOK' /\ FleetSound'
             /\ service'[Agent].version = service[Agent].version
  <2>1. ServiceTypeOK'
    BY <1>0, <1>2, SpecTypes DEF ServiceTypeOK, dockerVars, Request
  <2>2. CallSound(c)'
    BY <1>2 DEF CallSound, ServiceTypeOK
  <2>3. ASSUME NEW d \in Clients, d # c
        PROVE  CallSound(d)'
    BY <1>0, <1>2, <2>3, OthersSound DEF ServiceTypeOK, dockerVars
  <2>4. DeployedIsComplete'
    BY <1>0, <1>2 DEF DeployedIsComplete, dockerVars
  <2>5. \A d \in Clients : job'[d].kind # "deploy"
    BY <1>0, <1>2 DEF ServiceTypeOK, NoJob
  <2>6. service' = service
    BY <1>2 DEF dockerVars
  <2>7. QED
    BY <1>0, <2>1, <2>2, <2>3, <2>4, <2>5, <2>6 DEF FleetSound, Sound
<1>3. ASSUME NEW s \in Service, SetService(Agent, s),
             s.owner = service[Agent].owner, s.global = service[Agent].global,
             s.version = service[Agent].version,
             UNCHANGED <<network, secret, faulty, at, job, target, seen>>
      PROVE  /\ ServiceTypeOK' /\ FleetSound'
             /\ service'[Agent].version = service[Agent].version
  <2>1. service' \in [Names -> Service] /\ current' \in [Clients -> BOOLEAN]
    BY <1>0, <1>3, SetServiceTypes
  <2>2. ServiceTypeOK'
    BY <1>3, <2>1 DEF ServiceTypeOK
  <2>3. network = "ours" /\ s.version \in Versions /\ secret[s.version] = "ours"
    BY <1>0, <1>3 DEF DeployedIsComplete
  <2>4. DeployedIsComplete'
    BY <1>0, <1>3, <2>3, SetServiceComplete
  <2>5. \A d \in Clients : current'[d] =>
            current[d] /\ service'[target[d]] = service[target[d]]
    BY <1>0, <1>3, SetServiceCurrent
  <2>6. \A d \in Clients : CallSound(d)'
    BY <1>0, <1>3, <2>5, OthersSound
  <2>7. service'[Agent] = s
    BY <1>0, <1>3 DEF SetService, ServiceTypeOK
  <2>8. QED
    BY <1>0, <1>3, <2>2, <2>4, <2>6, <2>7 DEF FleetSound, Sound
<1>4. CASE Recover
  BY <1>0, <1>4
  DEF Recover, ServiceTypeOK, FleetSound, Sound, CallSound, DeployedIsComplete, callVars
<1>5. CASE UNCHANGED serviceVars
  BY <1>0, <1>5 DEF ServiceTypeOK, FleetSound, Sound, CallSound, DeployedIsComplete,
     serviceVars, dockerVars, callVars
<1>6. QED
  BY <1>1, <1>2, <1>3, <1>4, <1>5 DEF FleetActs

\* Type correctness and soundness of a fleet, for any number of nodes, addresses
\* and troubles.
THEOREM FleetCorrect == FleetSpec => [](FleetTypeOK /\ FleetSound)
<1>1. FleetTypeOK /\ FleetSound /\ [FleetNext]_fleetVars => (FleetTypeOK /\ FleetSound)'
  BY FleetStep, FleetActsSound DEF FleetTypeOK, FleetTyped
<1>2. QED
  BY <1>1, FleetStart, PTL DEF FleetSpec

\* While its tasks recover the address, the service stays deployed, complete and
\* with its credential, and no update is made to an older service than it is:
\* what the operator has set meanwhile is not undone.
THEOREM FleetKeepsItsService ==
    FleetSpec => /\ []DeployedIsComplete
                 /\ [](service[Agent].owner = "ours" /\ service[Agent].global)
                 /\ [][service'[Agent].version = service[Agent].version]_serviceVars
                 /\ NoLostUpdate
<1> DEFINE Stands == service[Agent].owner = "ours" /\ service[Agent].global
           Credential == service'[Agent].version = service[Agent].version
           Kept == \A c \in Clients : at[c] = "update" /\ at'[c] # at[c] /\ job[c].kind = "set" =>
                     \A n \in Names : service'[n] # service[n] =>
                         service'[n] = MergedSpec(service[n], job[c])
<1>1. FleetTypeOK /\ FleetSound => DeployedIsComplete /\ Stands
  BY DEF FleetSound, Sound
<1>2. FleetTypeOK /\ FleetSound /\ [FleetNext]_fleetVars => [Credential]_serviceVars
  BY FleetStep, FleetActsSound DEF FleetTypeOK
<1>3. FleetTypeOK /\ FleetSound /\ [FleetNext]_fleetVars => [Kept]_serviceVars
  <2> SUFFICES ASSUME FleetTypeOK, FleetSound, [FleetNext]_fleetVars,
                      NEW c \in Clients, at[c] = "update", at'[c] # at[c],
                      job[c].kind = "set"
               PROVE  \A n \in Names : service'[n] # service[n] =>
                          service'[n] = MergedSpec(service[n], job[c])
    OBVIOUS
  <2>0. ServiceTypeOK /\ Sound
    BY DEF FleetTypeOK, FleetSound
  <2>1. FleetActs
    BY FleetStep
  <2>2. ASSUME NEW d \in Clients, \/ \E j : CallSet(d, j)
                                  \/ Requests(d) \/ Return(d)
        PROVE  service' = service \/ Update(c)
    <3>1. CASE d = c
      BY <2>2, <3>1 DEF CallSet, Requests, Return, Fail, QueryNetwork, CreateNetwork,
         QuerySecret, CreateSecret, QueryInfo, List, Create, dockerVars
    <3>2. CASE d # c
      <4>1. PICK step : Step(d, step)
        BY <2>2 DEF CallSet, Requests, Return, Fail, QueryNetwork, CreateNetwork,
           QuerySecret, CreateSecret, QueryInfo, List, Create, Update
      <4>2. at'[c] = at[c]
        BY <2>0, <3>2, <4>1 DEF Step, ServiceTypeOK
      <4>3. QED
        BY <4>2
    <3>3. QED
      BY <3>1, <3>2
  <2>3. CASE Update(c)
    BY <2>0, <2>3, UpdateMeetsSeen DEF NewSpec
  <2>4. CASE service' = service \/ at' = at
    BY <2>4
  <2>5. QED
    BY <2>1, <2>2, <2>3, <2>4
    DEF FleetActs, Recover, serviceVars, dockerVars, callVars
<1> HIDE DEF Stands, Credential, Kept
<1>4. FleetSpec => []DeployedIsComplete /\ []Stands /\ [][Credential]_serviceVars /\ [][Kept]_serviceVars
  BY <1>1, <1>2, <1>3, FleetCorrect, PTL DEF FleetSpec
<1>5. QED
  BY <1>4 DEF Stands, Credential, Kept, NoLostUpdate

-----------------------------------------------------------------------------
(* The process that runs, and the command that installs.                   *)

\* A machine credential as a connection saves it, before and after the
\* deployment.
Credential(v, done) ==
    [token |-> v, version |-> v,
     pending |-> IF done THEN FALSE ELSE TRUE, disabled |-> done]

\* What a configuration file may hold.
Known(f) ==
    \/ \E t \in Tokens : f = Fresh(t)
    \/ \E v \in Versions, done \in BOOLEAN : f = Credential(v, done)

\* Connections make the only requests: each is for the deployment of its own
\* credential, and galaxy-agent is the only service of the name.
Calling(c) ==
    /\ phase[c] # "deploying" => at[c] = "idle"
    /\ at[c] # "idle" => job[c] \in DeployJob /\ job[c].version = cur[c].version
    /\ at[c] = "update" => target[c] = Agent
    /\ ready[c] # 0 => phase[c] = "online" /\ cur[c].token \in Tokens

OnlyAgent == \A n \in Neighbours : service[n].owner = "nobody"

\* A version that is deployed is what a call that succeeded leaves.
Succeeds(c, v) == at[c] = "ok" => Deployed(v)

-----------------------------------------------------------------------------
(* galaxy-agent run.                                                       *)

Steps == Resting \union {"dial", "online", "bad", "save", "truncate", "write",
                         "deploy", "deploying", "good"}

\* What a connection works with, whoever writes the file.
Working(c) ==
    /\ phase[c] \in Steps
    /\ phase[c] \notin Resting => Known(conf[c])
    /\ phase[c] \in {"dial", "online"} => Known(cur[c])
    /\ phase[c] \in {"save", "truncate", "write"} =>
          \E v \in Versions, done \in BOOLEAN : cur[c] = Credential(v, done)
    /\ phase[c] \in {"deploy", "deploying"} =>
          \E v \in Versions : cur[c] = Credential(v, FALSE)

\* What has not been told to end is the connection in the map.
Current == \A c \in Clients : phase[c] \notin Resting /\ ~ stopped[c] => active = c

\* agentConfigWriteLock.
Locked ==
    \A c, d \in Clients :
        phase[c] \in {"truncate", "write"} /\ phase[d] \in {"truncate", "write"} => c = d

\* A connection of the time before a credential was written: it has the
\* Bootstrap Token t, and deployed nothing.
Early(c, t) ==
    /\ phase[c] \in Resting \union {"dial", "online", "bad", "save", "truncate"}
    /\ phase[c] \notin Resting => conf[c] = Fresh(t)
    /\ phase[c] \in {"dial", "online"} => cur[c] = Fresh(t)
    /\ phase[c] \in {"save", "truncate"} => \E u \in Versions : cur[c] = Credential(u, FALSE)

Unregistered(t) == file = Fresh(t) /\ \A c \in Clients : Early(c, t)

\* From then on a connection has the token or the credential v, and only v is
\* written and deployed: what was registered besides it is not saved any more.
Late(c, t, v) ==
    /\ phase[c] \notin Resting => conf[c] \in {Fresh(t), Credential(v, FALSE)}
    /\ phase[c] \in {"dial", "online"} => cur[c] = conf[c]
    /\ phase[c] = "save" =>
          \/ cur[c] = Credential(v, TRUE) /\ Deployed(v)
          \/ conf[c] = Fresh(t) /\ \E u \in Versions : cur[c] = Credential(u, FALSE)
    /\ phase[c] \in {"truncate", "write"} =>
          \/ cur[c] = Credential(v, TRUE) /\ Deployed(v)
          \/ cur[c] = Credential(v, FALSE)
    /\ phase[c] \in {"deploy", "deploying"} =>
          cur[c] = Credential(v, FALSE) /\ Succeeds(c, v)

Registered(t, v) ==
    /\ \/ file = Empty
       \/ file = Credential(v, FALSE)
       \/ file = Credential(v, TRUE) /\ Deployed(v)
    /\ \A c \in Clients : Late(c, t, v)

\* As long as the operator does not replace the file.
Progress ==
    bootstraps = 0 =>
        \E t \in Tokens : Unregistered(t) \/ \E v \in Versions : Registered(t, v)

RunSound ==
    /\ OnlyAgent
    /\ file = Empty \/ Known(file)
    /\ Current /\ Locked
    /\ \A c \in Clients : Calling(c) /\ Working(c)
    /\ Progress

RunTypeOK ==
    /\ RegistrationTypeOK
    /\ active \in Clients \union {None}
    /\ bootstraps \in Nat /\ crashes \in Nat

-----------------------------------------------------------------------------
(* galaxy agent install, one command at a time.                            *)

Alone == \A c, d \in Clients : phase[c] \notin Over /\ phase[d] \notin Over => c = d

Pending(f) == IsConnection(f) /\ f.pending

\* What the command knows at each step of the file and of the service.
Installing(c) ==
    /\ phase[c] \notin {"start", "remove"}
    /\ phase[c] = "ask" => ~ Pending(file)
    /\ phase[c] \in {"dial", "online"} => Known(file) /\ conf[c] = file /\ cur[c] = file
    /\ phase[c] = "save" =>
          \/ /\ \E u \in Versions : cur[c] = Credential(u, FALSE)
             /\ \E t \in Tokens : file = Fresh(t)
          \/ \E v \in Versions, done \in BOOLEAN :
                cur[c] = Credential(v, TRUE) /\ file = Credential(v, done) /\ Deployed(v)
    /\ phase[c] = "truncate" =>
          \/ \E t \in Tokens : cur[c] = Fresh(t) /\ ~ Pending(file)
          \/ \E u \in Versions : cur[c] = Credential(u, FALSE) /\ ~ Pending(file)
          \/ \E v \in Versions, done \in BOOLEAN :
                cur[c] = Credential(v, TRUE) /\ file = Credential(v, done) /\ Deployed(v)
    /\ phase[c] = "write" =>
          /\ file = Empty
          /\ \/ \E t \in Tokens : cur[c] = Fresh(t)
             \/ \E v \in Versions : cur[c] = Credential(v, FALSE)
             \/ \E v \in Versions : cur[c] = Credential(v, TRUE) /\ Deployed(v)
    /\ phase[c] \in {"deploy", "deploying"} =>
          \E v \in Versions :
              cur[c] = Credential(v, FALSE) /\ file = cur[c] /\ Succeeds(c, v)
    /\ phase[c] = "good" =>
          \E v \in Versions : cur[c] = Credential(v, TRUE) /\ file = cur[c] /\ Deployed(v)

InstallSound ==
    /\ OnlyAgent
    /\ file \in {Absent, Empty} \/ Known(file)
    /\ Alone
    /\ \A c \in Clients : Calling(c) /\ Installing(c)

-----------------------------------------------------------------------------
(* Configurations.                                                         *)

\* A token is no number, and a version is not zero.
LEMMA Apart ==
    ASSUME NEW t \in Tokens, NEW v \in Versions
    PROVE  t # v /\ t # 0 /\ v # 0
  BY RegistrationAssumption, ServiceAssumption

\* What a Bootstrap Token is written as.
LEMMA FreshIs ==
    ASSUME NEW t \in Tokens
    PROVE  /\ Fresh(t) \in Connection
           /\ Fresh(t).token = t /\ Fresh(t).version = 0
           /\ ~ Fresh(t).pending /\ ~ Fresh(t).disabled
  BY DEF Fresh, NoConnection, Connection

\* What a machine credential is written as.
LEMMA CredentialIs ==
    ASSUME NEW v \in Versions, NEW done \in BOOLEAN
    PROVE  /\ Credential(v, done) \in Connection
           /\ Credential(v, done).token = v /\ Credential(v, done).version = v
           /\ Credential(v, done).pending = ~ done
           /\ Credential(v, done).disabled = done
  BY DEF Credential, Connection

\* A credential that is not deployed yet is known by its token.
LEMMA KnownPending ==
    ASSUME NEW f, Known(f), f.pending
    PROVE  \E v \in Versions : f = Credential(v, FALSE) /\ f.token = v
<1>1. PICK v \in Versions, done \in BOOLEAN : f = Credential(v, done)
  BY FreshIs DEF Known
<1>2. done = FALSE
  BY <1>1, CredentialIs
<1>3. QED
  BY <1>1, <1>2, CredentialIs

\* What is known is well-typed.
LEMMA KnownTypes ==
    ASSUME NEW f, Known(f)
    PROVE  f \in Connection
  BY FreshIs, CredentialIs DEF Known

\* Two configurations are the same when their fields are.
LEMMA SameConnection ==
    ASSUME NEW f \in Connection, NEW g \in Connection,
           f.token = g.token, f.version = g.version,
           f.pending = g.pending, f.disabled = g.disabled
    PROVE  f = g
  BY DEF Connection

\* ready leaves the connection with the credential it brought.
LEMMA ReadyNewIs ==
    ASSUME RegistrationTypeOK, NEW c \in Clients, ReadyNew(c)
    PROVE  /\ ready[c] \in Versions
           /\ cur' = [cur EXCEPT ![c] = Credential(ready[c], FALSE)]
<1>1. ready[c] \in Versions /\ cur \in [Clients -> Connection]
  BY DEF ReadyNew, RegistrationTypeOK
<1>2. cur' = [cur EXCEPT ![c] = [cur[c] EXCEPT !.token = ready[c], !.version = ready[c],
                                               !.pending = TRUE, !.disabled = FALSE]]
  BY <1>1 DEF ReadyNew
<1>3. cur[c] \in Connection
  BY <1>1
<1> DEFINE next == [cur[c] EXCEPT !.token = ready[c], !.version = ready[c],
                                  !.pending = TRUE, !.disabled = FALSE]
<1>4. /\ next \in Connection
      /\ next.token = ready[c] /\ next.version = ready[c]
      /\ next.pending = TRUE /\ next.disabled = FALSE
  BY <1>1, <1>3 DEF Connection
<1>5. /\ Credential(ready[c], FALSE) \in Connection
      /\ Credential(ready[c], FALSE).token = ready[c]
      /\ Credential(ready[c], FALSE).version = ready[c]
      /\ Credential(ready[c], FALSE).pending = TRUE
      /\ Credential(ready[c], FALSE).disabled = FALSE
  BY <1>1 DEF Credential, Connection
<1> HIDE DEF next
<1>6. next = Credential(ready[c], FALSE)
  BY <1>4, <1>5, SameConnection
<1>7. QED
  BY <1>1, <1>2, <1>6 DEF next

\* The end of the deployment leaves the connection with its credential,
\* disabled.
LEMMA DeployReturnIs ==
    ASSUME cur \in [Clients -> Connection], NEW c \in Clients, DeployReturn(c), at[c] = "ok",
           NEW v \in Versions, cur[c] = Credential(v, FALSE)
    PROVE  cur' = [cur EXCEPT ![c] = Credential(v, TRUE)] /\ cur'[c] = Credential(v, TRUE)
<1>0. cur[c] \in Connection /\ cur[c].token = v /\ cur[c].version = v
  BY CredentialIs
<1>1. cur' = [cur EXCEPT ![c] = [cur[c] EXCEPT !.pending = FALSE, !.disabled = TRUE]]
  BY DEF DeployReturn
<1> DEFINE next == [cur[c] EXCEPT !.pending = FALSE, !.disabled = TRUE]
<1>2. /\ next \in Connection
      /\ next.token = v /\ next.version = v
      /\ next.pending = FALSE /\ next.disabled = TRUE
  BY <1>0 DEF Connection
<1>3. /\ Credential(v, TRUE) \in Connection
      /\ Credential(v, TRUE).token = v /\ Credential(v, TRUE).version = v
      /\ Credential(v, TRUE).pending = FALSE /\ Credential(v, TRUE).disabled = TRUE
  BY DEF Credential, Connection
<1> HIDE DEF next
<1>4. next = Credential(v, TRUE)
  BY <1>2, <1>3, SameConnection
<1>5. QED
  BY <1>1, <1>4 DEF next

-----------------------------------------------------------------------------
(* Types.                                                                  *)

\* A connection goes to another phase.
LEMMA EnterTypes ==
    ASSUME RegistrationTypeOK, NEW c \in Clients, NEW p \in Phase, Enter(c, p)
    PROVE  phase' \in [Clients -> Phase]
  BY DEF RegistrationTypeOK, Enter

\* Of a failure there is only a bounded number.
LEMMA BrokenTypes ==
    ASSUME breaks \in 0..MaxBreaks, Broken
    PROVE  breaks' \in 0..MaxBreaks
  BY RegistrationAssumption DEF Broken

\* Type correctness of what one connection does.
LEMMA ConnectTypes ==
    ASSUME RegistrationTypeOK, NEW c \in Clients, Connect(c)
    PROVE  RegistrationTypeOK'
<1>1. ServiceTypeOK'
  <2>0. ServiceTypeOK
    BY DEF RegistrationTypeOK
  <2>1. CASE UNCHANGED serviceVars
    BY <2>0, <2>1 DEF ServiceTypeOK, serviceVars, dockerVars, callVars
  <2>2. CASE DeployCall(c) \/ DeployRequest(c) \/ DeployReturn(c)
    BY <2>0, <2>2, ClientTypes DEF DeployCall, DeployRequest, DeployReturn
  <2>3. QED
    BY <2>1, <2>2
    DEF Connect, Dial, ReadyNew, ReadyKnown, Lose, Save, Truncate, Write
<1>2. phase' \in [Clients -> Phase]
  <2>1. PICK p \in Phase : Enter(c, p) \/ UNCHANGED phase
    BY DEF Connect, Dial, ReadyNew, ReadyKnown, Lose, Save, Truncate, Write,
       DeployCall, DeployRequest, DeployReturn, connVars, Phase
  <2>2. QED
    BY <2>1, EnterTypes DEF RegistrationTypeOK
<1>3. cur' \in [Clients -> Connection]
  <2>1. CASE UNCHANGED cur
    BY <2>1 DEF RegistrationTypeOK
  <2>2. CASE ReadyNew(c)
    <3>1. Credential(ready[c], FALSE) \in Connection
      BY <2>2, ReadyNewIs, CredentialIs
    <3>2. QED
      BY <2>2, <3>1, ReadyNewIs DEF RegistrationTypeOK
  <2>3. CASE DeployReturn(c)
    <3>1. [cur[c] EXCEPT !.pending = FALSE, !.disabled = TRUE] \in Connection
      BY DEF RegistrationTypeOK, Connection
    <3>2. cur' = [cur EXCEPT ![c] = [cur[c] EXCEPT !.pending = FALSE, !.disabled = TRUE]]
            \/ UNCHANGED cur
      BY <2>3 DEF DeployReturn, RegistrationTypeOK
    <3>3. QED
      BY <3>1, <3>2 DEF RegistrationTypeOK
  <2>4. QED
    BY <2>1, <2>2, <2>3
    DEF Connect, Dial, ReadyKnown, Lose, Save, Truncate, Write, DeployCall,
        DeployRequest, connVars
<1>4. breaks' \in 0..MaxBreaks
  BY BrokenTypes
  DEF RegistrationTypeOK, Connect, Dial, ReadyNew, ReadyKnown, Lose, Save, Truncate,
      Write, DeployCall, DeployRequest, DeployReturn, apiVars
<1>5. file' \in Connection \union {Absent, Empty}
  BY DEF RegistrationTypeOK, Connect, Dial, ReadyNew, ReadyKnown, Lose, Save, Truncate,
     Write, DeployCall, DeployRequest, DeployReturn
<1>6. ready' \in [Clients -> Versions \union {0}]
  BY DEF RegistrationTypeOK, Connect, Dial, ReadyNew, ReadyKnown, Lose, Save, Truncate,
     Write, DeployCall, DeployRequest, DeployReturn, apiVars
<1>7. UNCHANGED <<fresh, issued, conf, stopped>>
  BY DEF Connect, Dial, ReadyNew, ReadyKnown, Lose, Save, Truncate,
     Write, DeployCall, DeployRequest, DeployReturn, apiVars, connVars
<1>8. QED
  BY <1>1, <1>2, <1>3, <1>4, <1>5, <1>6, <1>7 DEF RegistrationTypeOK

\* Type correctness of what the API and Docker do.
LEMMA ApiTypes ==
    ASSUME RegistrationTypeOK, Api
    PROVE  RegistrationTypeOK'
<1>1. ServiceTypeOK'
  BY DEF RegistrationTypeOK, Api, Register, Expire, Recover, ServiceTypeOK, serviceVars,
     dockerVars, callVars
<1>2. CASE \E c \in Clients : Register(c)
  BY <1>1, <1>2 DEF RegistrationTypeOK, Register, connVars
<1>3. CASE \E t \in Tokens : Expire(t)
  BY <1>1, <1>3 DEF RegistrationTypeOK, Expire, connVars
<1>4. CASE Recover /\ UNCHANGED <<file, apiVars, connVars>>
  BY <1>1, <1>4 DEF RegistrationTypeOK, apiVars, connVars
<1>5. QED
  BY <1>2, <1>3, <1>4 DEF Api

-----------------------------------------------------------------------------
(* Deployments.                                                            *)

\* One request of a deployment, when galaxy-agent is the only service of its
\* name: the service stays or becomes the one that was asked for, and it is
\* that one when the deployment succeeds.
LEMMA RequestsDeploy ==
    ASSUME ServiceTypeOK, OnlyAgent, NEW c \in Clients, Requests(c),
           job[c] \in DeployJob, at[c] = "update" => target[c] = Agent
    PROVE  /\ OnlyAgent'
           /\ \/ service'[Agent] = service[Agent]
              \/ service'[Agent] = DeploySpec(job[c])
           /\ at'[c] = "ok" => service'[Agent] = DeploySpec(job[c])
           /\ at'[c] = "update" => target'[c] = Agent
           /\ job' = job
           /\ \A d \in Clients \ {c} : at'[d] = at[d] /\ target'[d] = target[d]
<1> USE DEF ServiceTypeOK
<1>1. CASE Fail(c) \/ QueryNetwork(c) \/ CreateNetwork(c) \/ QuerySecret(c)
             \/ CreateSecret(c) \/ QueryInfo(c)
  <2>1. service' = service /\ job' = job /\ target' = target
    BY <1>1 DEF Fail, QueryNetwork, CreateNetwork, QuerySecret, CreateSecret, QueryInfo,
       Unread, dockerVars
  <2>2. PICK step \in {"secret", "createNetwork", "unmanaged", "failed", "list",
                       "createSecret"} : Step(c, step)
    BY <1>1 DEF Fail, QueryNetwork, CreateNetwork, QuerySecret, CreateSecret, QueryInfo
  <2>3. QED
    BY <2>1, <2>2 DEF Step, OnlyAgent
<1>2. CASE List(c)
  <2>1. service' = service /\ job' = job
    BY <1>2 DEF List, dockerVars
  <2>2. \A n \in Listed : n = Agent
    BY DEF Listed, Names, OnlyAgent
  <2>3. \A d \in Clients \ {c} : at'[d] = at[d] /\ target'[d] = target[d]
    BY <1>2 DEF List, Step
  <2>4. at'[c] # "ok" /\ (at'[c] = "update" => target'[c] = Agent)
    BY <1>2, <2>2 DEF List, Step
  <2>5. QED
    BY <2>1, <2>3, <2>4 DEF OnlyAgent
<1>3. NewSpec(c) = DeploySpec(job[c])
  BY DEF NewSpec, DeployJob
<1>4. ASSUME SetService(Agent, NewSpec(c))
      PROVE  service'[Agent] = DeploySpec(job[c]) /\ OnlyAgent'
  BY <1>3, <1>4, ServiceAssumption DEF SetService, OnlyAgent, Names
<1>5. CASE Create(c)
  BY <1>4, <1>5 DEF Create, Step, OnlyAgent
<1>6. CASE Update(c)
  <2>1. target[c] = Agent
    BY <1>6 DEF Update
  <2>2. QED
    BY <1>4, <1>6, <2>1 DEF Update, Step, OnlyAgent
<1>7. QED
  BY <1>1, <1>2, <1>5, <1>6 DEF Requests

\* A connection goes on with the configuration that it was started with.
LEMMA ConnectKeepsConf ==
    ASSUME NEW c \in Clients, Connect(c)
    PROVE  conf' = conf
  BY DEF Connect, Dial, ReadyNew, ReadyKnown, Lose, Save, Truncate, Write,
     DeployCall, DeployRequest, DeployReturn, connVars

\* What one connection does leaves the others as they are.
LEMMA ConnectElsewhere ==
    ASSUME RegistrationTypeOK, OnlyAgent, NEW c \in Clients, Calling(c), Connect(c),
           NEW d \in Clients, d # c
    PROVE  /\ phase'[d] = phase[d] /\ cur'[d] = cur[d] /\ ready'[d] = ready[d]
           /\ at'[d] = at[d] /\ job'[d] = job[d] /\ target'[d] = target[d]
<1> USE DEF RegistrationTypeOK
<1>1. CASE UNCHANGED serviceVars
  BY <1>1 DEF Connect, Dial, ReadyNew, ReadyKnown, Lose, Save, Truncate, Write,
     DeployCall, DeployRequest, DeployReturn, Enter, apiVars, connVars, serviceVars,
     callVars
<1>2. CASE DeployCall(c)
  BY <1>2 DEF DeployCall, CallDeploy, Step, Enter, apiVars, ServiceTypeOK
<1>3. CASE DeployRequest(c)
  <2>1. job[c] \in DeployJob /\ (at[c] = "update" => target[c] = Agent)
    BY <1>3 DEF DeployRequest, Calling, Requests, Fail, QueryNetwork, CreateNetwork,
       QuerySecret, CreateSecret, QueryInfo, List, Create, Update
  <2>2. QED
    BY <1>3, <2>1, RequestsDeploy DEF DeployRequest, apiVars, connVars
<1>4. CASE DeployReturn(c)
  BY <1>4 DEF DeployReturn, Return, Step, Enter, apiVars, ServiceTypeOK
<1>5. QED
  BY <1>1, <1>2, <1>3, <1>4
  DEF Connect, Dial, ReadyNew, ReadyKnown, Lose, Save, Truncate, Write

\* What one connection does to the service: nothing, or the deployment of its
\* own credential; and the deployment has taken place when it succeeds.
LEMMA ConnectDeploys ==
    ASSUME RegistrationTypeOK, OnlyAgent, NEW c \in Clients, Calling(c), Connect(c)
    PROVE  /\ OnlyAgent'
           /\ phase[c] # "deploying" => service' = service
           /\ \A v \in Versions :
                 /\ Deployed(v) /\ (phase[c] = "deploying" => cur[c].version = v) =>
                        Deployed(v)'
                 /\ phase'[c] = "deploying" /\ at'[c] = "ok" /\ cur[c].version = v =>
                        Deployed(v)'
<1> USE DEF RegistrationTypeOK
<1>1. CASE ~ DeployRequest(c)
  <2>1. service' = service
    BY <1>1 DEF Connect, Dial, ReadyNew, ReadyKnown, Lose, Save, Truncate, Write,
       DeployCall, CallDeploy, DeployReturn, Return, serviceVars, dockerVars
  <2>2. ~ (phase'[c] = "deploying" /\ at'[c] = "ok")
    BY <1>1 DEF Connect, Dial, ReadyNew, ReadyKnown, Lose, Save, Truncate, Write,
       DeployCall, CallDeploy, DeployReturn, Enter, Step, ServiceTypeOK
  <2>3. QED
    BY <2>1, <2>2 DEF OnlyAgent, Deployed
<1>2. CASE DeployRequest(c)
  <2>1. /\ job[c] \in DeployJob /\ (at[c] = "update" => target[c] = Agent)
        /\ job[c].version = cur[c].version
    BY <1>2 DEF DeployRequest, Calling, Requests, Fail, QueryNetwork, CreateNetwork,
       QuerySecret, CreateSecret, QueryInfo, List, Create, Update
  <2>2. /\ OnlyAgent'
        /\ \/ service'[Agent] = service[Agent]
           \/ service'[Agent] = DeploySpec(job[c])
        /\ at'[c] = "ok" => service'[Agent] = DeploySpec(job[c])
    BY <1>2, <2>1, RequestsDeploy DEF DeployRequest
  <2>3. DeploySpec(job[c]).owner = "ours" /\ DeploySpec(job[c]).version = cur[c].version
    BY <2>1 DEF DeploySpec
  <2>4. QED
    BY <1>2, <2>2, <2>3 DEF DeployRequest, Deployed
<1>3. QED
  BY <1>1, <1>2

\* What one connection does keeps Calling.
LEMMA ConnectCalling ==
    ASSUME RegistrationTypeOK, OnlyAgent, NEW c \in Clients, Connect(c),
           \A d \in Clients : Calling(d)
    PROVE  \A d \in Clients : Calling(d)'
<1> USE DEF RegistrationTypeOK
<1>1. ASSUME NEW d \in Clients, d # c
      PROVE  Calling(d)'
  BY <1>1, ConnectElsewhere DEF Calling, DeployJob
<1>2. Calling(c)'
  <2>0. Calling(c)
    OBVIOUS
  <2>1. CASE Dial(c) \/ ReadyKnown(c) \/ Save(c) \/ Truncate(c) \/ Write(c)
    <3>1. at'[c] = "idle" /\ ready'[c] = 0
      BY <2>0, <2>1, Apart DEF Calling, Dial, ReadyKnown, Save, Truncate, Write,
         serviceVars, callVars, apiVars
    <3>2. QED
      BY <3>1 DEF Calling
  <2>2. CASE ReadyNew(c) \/ Lose(c)
    BY <2>0, <2>2 DEF Calling, ReadyNew, Lose, Enter, serviceVars, callVars
  <2>3. CASE DeployCall(c)
    BY <2>0, <2>3 DEF Calling, DeployCall, CallDeploy, Enter, Step, apiVars, ServiceTypeOK
  <2>4. CASE DeployRequest(c)
    <3>1. at[c] # "idle"
      BY <2>4 DEF DeployRequest, Requests, Fail, QueryNetwork, CreateNetwork,
         QuerySecret, CreateSecret, QueryInfo, List, Create, Update
    <3>2. at'[c] = "update" => target'[c] = Agent
      BY <2>0, <2>4, <3>1, RequestsDeploy DEF Calling, DeployRequest
    <3>3. job' = job
      BY <2>0, <2>4, <3>1, RequestsDeploy DEF Calling, DeployRequest
    <3>4. QED
      BY <2>0, <2>4, <3>1, <3>2, <3>3 DEF Calling, DeployRequest, apiVars, connVars
  <2>5. CASE DeployReturn(c)
    <3>1. at'[c] = "idle"
      BY <2>5 DEF DeployReturn, Return, Step, ServiceTypeOK
    <3>2. ready'[c] = 0
      BY <2>0, <2>5 DEF Calling, DeployReturn, apiVars
    <3>3. QED
      BY <3>1, <3>2 DEF Calling
  <2>6. QED
    BY <2>1, <2>2, <2>3, <2>4, <2>5 DEF Connect
<1>3. QED
  BY <1>1, <1>2

\* What the API and Docker do changes no file, no phase and no service.
LEMMA ApiCalling ==
    ASSUME RegistrationTypeOK, Api, \A d \in Clients : Calling(d)
    PROVE  /\ UNCHANGED <<file, phase, conf, cur, stopped, service, at>>
           /\ \A d \in Clients : Calling(d)'
<1> USE DEF RegistrationTypeOK
<1>1. UNCHANGED <<file, phase, conf, cur, stopped, service, at, job, target>>
  BY DEF Api, Register, Expire, Recover, serviceVars, dockerVars, callVars, connVars
<1>2. \A d \in Clients :
        ready'[d] = ready[d] \/ (phase[d] = "online" /\ cur[d].token \in Tokens)
  BY DEF Api, Register, Expire, apiVars
<1>3. QED
  BY <1>1, <1>2 DEF Calling

-----------------------------------------------------------------------------
(* galaxy-agent run.                                                       *)

\* The reload keeps what runs, or tells it to end and starts a spare
\* connection, or none, with the configuration of the file.
Restart(n) ==
    /\ active' = n
    /\ n \in Clients => Spare(n) /\ IsConnection(file) /\ ~ file.disabled
    /\ stopped' = [d \in Clients |-> IF d = n THEN FALSE ELSE d = active \/ stopped[d]]
    /\ phase' = [d \in Clients |-> IF d = n THEN "dial" ELSE phase[d]]
    /\ conf' = [d \in Clients |-> IF d = n THEN file ELSE conf[d]]
    /\ cur' = [d \in Clients |-> IF d = n THEN file ELSE cur[d]]

\* What Reload does.
LEMMA ReloadIs ==
    ASSUME Reload
    PROVE  \/ UNCHANGED <<phase, conf, cur, stopped, active>>
           \/ \E n \in Clients \union {None} : Restart(n)
<1> DEFINE next == IF file = Empty THEN None ELSE file
           keep == active # None /\ next # None /\ conf[active] = next
           wanted == next # None /\ (next # None => ~ next.disabled)
<1>1. CASE keep
  BY <1>1 DEF Reload, Reconcile
<1>2. CASE ~ keep
  <2>1. PICK n \in Clients \union {None} :
          /\ IF wanted THEN n # None /\ Spare(n) ELSE n = None
          /\ active' = n
          /\ stopped' = [d \in Clients |->
                IF d = n THEN FALSE ELSE d = active \/ stopped[d]]
          /\ phase' = [d \in Clients |-> IF d = n THEN "dial" ELSE phase[d]]
          /\ conf' = [d \in Clients |-> IF d = n THEN next ELSE conf[d]]
          /\ cur' = [d \in Clients |-> IF d = n THEN next ELSE cur[d]]
    BY <1>2 DEF Reload, Reconcile
  <2>2. n \in Clients => wanted
    BY <2>1, RunAssumption
  <2>3. wanted => next = file /\ IsConnection(file) /\ ~ file.disabled
    BY DEF Reload, IsConnection
  <2>4. n \in Clients => next = file /\ Spare(n) /\ IsConnection(file) /\ ~ file.disabled
    BY <2>1, <2>2, <2>3
  <2> HIDE DEF next, keep, wanted
  <2>5. /\ conf' = [d \in Clients |-> IF d = n THEN file ELSE conf[d]]
        /\ cur' = [d \in Clients |-> IF d = n THEN file ELSE cur[d]]
    BY <2>1, <2>4
  <2>6. QED
    BY <2>1, <2>4, <2>5 DEF Restart
<1>3. QED
  BY <1>1, <1>2

\* Where both specifications begin.
LEMMA RegistrationStarts ==
    ASSUME RegistrationInit, file \in Connection \union {Absent, Empty}
    PROVE  RegistrationTypeOK /\ OnlyAgent /\ \A c \in Clients : Calling(c)
<1>1. ServiceTypeOK
  BY SpecTypes DEF RegistrationInit, ServiceInit, ServiceTypeOK, Request, Names
<1>2. NoConnection \in Connection
  BY DEF NoConnection, Connection
<1>3. RegistrationTypeOK
  BY <1>1, <1>2, RegistrationAssumption DEF RegistrationInit, RegistrationTypeOK, Phase
<1>4. NoService.owner = "nobody"
  BY DEF NoService
<1>5. OnlyAgent
  BY <1>4 DEF RegistrationInit, OnlyAgent, Names
<1>6. \A c \in Clients : Calling(c)
  BY DEF RegistrationInit, ServiceInit, Calling
<1>7. QED
  BY <1>3, <1>5, <1>6

\* Type correctness of galaxy-agent run.
THEOREM RunTypeCorrect == RunSpec => []RunTypeOK
<1>1. RunInit => RunTypeOK
  BY FreshIs, RegistrationStarts DEF RunInit, RunTypeOK
<1>2. RunTypeOK /\ [RunNext]_runVars => RunTypeOK'
  <2> SUFFICES ASSUME RunTypeOK, [RunNext]_runVars
               PROVE  RunTypeOK'
    OBVIOUS
  <2>0. RegistrationTypeOK /\ ServiceTypeOK
    BY DEF RunTypeOK, RegistrationTypeOK
  <2>1. ASSUME NEW c \in Clients, Connect(c), UNCHANGED supervisor
        PROVE  RunTypeOK'
    BY <2>0, <2>1, ConnectTypes DEF RunTypeOK, supervisor
  <2>2. ASSUME NEW c \in Clients, Again(c) \/ Finished(c)
        PROVE  RunTypeOK'
    <3>1. ServiceTypeOK'
      BY <2>0, <2>2 DEF Again, Finished, ServiceTypeOK, serviceVars, dockerVars, callVars
    <3>2. phase' \in [Clients -> Phase] /\ cur' \in [Clients -> Connection]
      BY <2>0, <2>2 DEF Again, Finished, Enter, RegistrationTypeOK, Phase
    <3>3. QED
      BY <2>0, <2>2, <3>1, <3>2
      DEF Again, Finished, RunTypeOK, RegistrationTypeOK, apiVars, supervisor
  <2>3. CASE Reload
    <3>1. ServiceTypeOK'
      BY <2>0, <2>3 DEF Reload, ServiceTypeOK, serviceVars, dockerVars, callVars
    <3>2. UNCHANGED <<file, fresh, issued, ready, breaks, bootstraps, crashes>>
      BY <2>3 DEF Reload, apiVars
    <3>3. CASE UNCHANGED <<phase, conf, cur, stopped, active>>
      BY <2>0, <3>1, <3>2, <3>3 DEF RunTypeOK, RegistrationTypeOK
    <3>4. ASSUME NEW n \in Clients \union {None}, Restart(n)
          PROVE  RunTypeOK'
      <4>1. n \in Clients => file \in Connection
        BY <2>0, <3>4 DEF Restart, RegistrationTypeOK, IsConnection
      <4>2. /\ phase' \in [Clients -> Phase]
            /\ stopped' \in [Clients -> BOOLEAN]
        BY <2>0, <3>4 DEF Restart, RegistrationTypeOK, Phase
      <4>3. conf' \in [Clients -> Connection] /\ cur' \in [Clients -> Connection]
        BY <2>0, <3>4, <4>1 DEF Restart, RegistrationTypeOK
      <4>4. active' \in Clients \union {None}
        BY <3>4 DEF Restart
      <4>5. QED
        BY <2>0, <3>1, <3>2, <4>2, <4>3, <4>4 DEF RunTypeOK, RegistrationTypeOK
    <3>5. QED
      BY <2>3, <3>3, <3>4, ReloadIs
  <2>4. CASE Bootstrap
    <3>1. ServiceTypeOK'
      BY <2>0, <2>4 DEF Bootstrap, ServiceTypeOK, serviceVars, dockerVars, callVars
    <3>2. file' \in Connection
      BY <2>0, <2>4, FreshIs DEF Bootstrap, RegistrationTypeOK
    <3>3. QED
      BY <2>0, <2>4, <3>1, <3>2
      DEF Bootstrap, RunTypeOK, RegistrationTypeOK, apiVars, connVars
  <2>5. CASE Crash
    <3>1. ServiceTypeOK'
      BY <2>0, <2>5, SpecTypes DEF Crash, ServiceTypeOK, dockerVars, Request, Names
    <3>2. QED
      BY <2>0, <2>5, <3>1 DEF Crash, RunTypeOK, RegistrationTypeOK, Phase
  <2>6. CASE Api /\ UNCHANGED supervisor
    BY <2>0, <2>6, ApiTypes DEF RunTypeOK, supervisor
  <2>7. CASE UNCHANGED runVars
    <3>1. ServiceTypeOK'
      BY <2>0, <2>7
      DEF runVars, regVars, ServiceTypeOK, serviceVars, dockerVars, callVars
    <3>2. QED
      BY <2>0, <2>7, <3>1
      DEF RunTypeOK, RegistrationTypeOK, runVars, regVars, apiVars, connVars, supervisor
  <2>8. QED
    BY <2>1, <2>2, <2>3, <2>4, <2>5, <2>6, <2>7 DEF RunNext, Worker
<1>3. QED
  BY <1>1, <1>2, PTL DEF RunSpec

\* What one connection does keeps what every connection works with, and the
\* file.
LEMMA ConnectWorking ==
    ASSUME RegistrationTypeOK, OnlyAgent, NEW c \in Clients, Connect(c),
           file = Empty \/ Known(file),
           \A d \in Clients : Calling(d) /\ Working(d)
    PROVE  /\ file' = Empty \/ Known(file)'
           /\ \A d \in Clients : Working(d)'
<1> USE DEF RegistrationTypeOK
<1>0. Calling(c) /\ Working(c) /\ conf' = conf
  BY ConnectKeepsConf
<1>1. ASSUME NEW d \in Clients, d # c
      PROVE  Working(d)'
  <2>1. phase'[d] = phase[d] /\ cur'[d] = cur[d]
    BY <1>0, <1>1, ConnectElsewhere
  <2>2. Working(d)
    OBVIOUS
  <2>3. QED
    BY <1>0, <2>1, <2>2 DEF Working
<1>2. CASE Dial(c) \/ Lose(c)
  <2>1. phase'[c] \in {"online", "bad"} /\ cur' = cur /\ file' = file
    BY <1>2 DEF Dial, Lose, Enter
  <2>2. Working(c)'
    BY <1>0, <1>2, <2>1 DEF Dial, Lose, Working, Steps, Resting
  <2>3. QED
    BY <1>1, <2>1, <2>2
<1>3. CASE ReadyNew(c)
  <2>1. phase'[c] = "save" /\ file' = file
    BY <1>3 DEF ReadyNew, Enter
  <2>2. \E v \in Versions : cur'[c] = Credential(v, FALSE)
    BY <1>3, ReadyNewIs
  <2>3. Working(c)'
    BY <1>0, <1>3, <2>1, <2>2 DEF ReadyNew, Working, Steps, Resting
  <2>4. QED
    BY <1>1, <2>1, <2>3
<1>4. CASE ReadyKnown(c)
  <2>1. phase'[c] = "deploy" /\ file' = file /\ cur' = cur
    BY <1>4 DEF ReadyKnown, Enter
  <2>2. \E v \in Versions : cur[c] = Credential(v, FALSE)
    BY <1>0, <1>4, KnownPending DEF ReadyKnown, Working
  <2>3. Working(c)'
    BY <1>0, <1>4, <2>1, <2>2 DEF ReadyKnown, Working, Steps, Resting
  <2>4. QED
    BY <1>1, <2>1, <2>3
<1>5. CASE Save(c)
  <2>1. phase'[c] \in {"truncate", "bad"} /\ file' = file /\ cur' = cur
    BY <1>5 DEF Save, Enter
  <2>2. Working(c)'
    BY <1>0, <1>5, <2>1 DEF Save, Working, Steps, Resting
  <2>3. QED
    BY <1>1, <2>1, <2>2
<1>6. CASE Truncate(c)
  <2>1. phase'[c] = "write" /\ file' = Empty /\ cur' = cur
    BY <1>6 DEF Truncate, Enter
  <2>2. Working(c)'
    BY <1>0, <1>6, <2>1 DEF Truncate, Working, Steps, Resting
  <2>3. QED
    BY <1>1, <2>1, <2>2
<1>7. CASE Write(c)
  <2>1. PICK v \in Versions, done \in BOOLEAN : cur[c] = Credential(v, done)
    BY <1>0, <1>7 DEF Write, Working
  <2>2. /\ cur[c].version # 0
        /\ cur[c].pending => \E u \in Versions : cur[c] = Credential(u, FALSE)
    <3>1. cur[c].version = v /\ v # 0
      BY <2>1, CredentialIs, ServiceAssumption
    <3>2. cur[c].pending => \E u \in Versions : cur[c] = Credential(u, FALSE)
      BY <2>1, KnownPending DEF Known
    <3>3. QED
      BY <3>1, <3>2
  <2>3. \/ phase'[c] = "good"
        \/ phase'[c] = "deploy" /\ cur[c].pending
    BY <1>7, <2>2 DEF Write, Enter
  <2>4. cur' = cur /\ file' = cur[c]
    BY <1>7 DEF Write
  <2>5. Working(c)'
    BY <1>0, <1>7, <2>2, <2>3, <2>4 DEF Write, Working, Steps, Resting
  <2>6. Known(file)'
    BY <2>1, <2>4 DEF Known
  <2>7. QED
    BY <1>1, <2>5, <2>6
<1>8. CASE DeployCall(c) \/ DeployRequest(c)
  <2>1. phase'[c] = "deploying" /\ file' = file /\ cur' = cur
    BY <1>8 DEF DeployCall, DeployRequest, Enter, connVars
  <2>2. Working(c)'
    BY <1>0, <1>8, <2>1 DEF DeployCall, DeployRequest, Working, Steps, Resting
  <2>3. QED
    BY <1>1, <2>1, <2>2
<1>9. CASE DeployReturn(c)
  <2>1. PICK v \in Versions : cur[c] = Credential(v, FALSE)
    BY <1>0, <1>9 DEF DeployReturn, Working
  <2>2. /\ file' = file
        /\ \/ phase'[c] = "save" /\ cur'[c] = Credential(v, TRUE)
           \/ phase'[c] = "bad"
    <3>1. CASE at[c] = "ok"
      <4>1. cur'[c] = Credential(v, TRUE)
        <5>1. cur \in [Clients -> Connection]
          OBVIOUS
        <5>2. QED
          BY <5>1, <1>9, <2>1, <3>1, DeployReturnIs, Zenon
      <4>2. QED
        BY <1>9, <3>1, <4>1 DEF DeployReturn, Enter
    <3>2. CASE at[c] # "ok"
      BY <1>9, <3>2 DEF DeployReturn, Enter
    <3>3. QED
      BY <3>1, <3>2
  <2>3. Working(c)'
    BY <1>0, <1>9, <2>2 DEF DeployReturn, Working, Steps, Resting
  <2>4. QED
    BY <1>1, <2>2, <2>3
<1>10. QED
  BY <1>2, <1>3, <1>4, <1>5, <1>6, <1>7, <1>8, <1>9 DEF Connect

\* What one connection does before a credential is written; the first to write
\* one decides which.
LEMMA ConnectEarly ==
    ASSUME RegistrationTypeOK, OnlyAgent, NEW c \in Clients, Connect(c), Locked,
           \A d \in Clients : Calling(d),
           NEW t \in Tokens, Unregistered(t)
    PROVE  Unregistered(t)' \/ \E v \in Versions : Registered(t, v)'
<1> USE DEF RegistrationTypeOK
<1>0. /\ Calling(c) /\ Early(c, t) /\ conf' = conf
      /\ file = Fresh(t)
  BY ConnectKeepsConf DEF Unregistered
<1>1. ASSUME NEW d \in Clients, d # c
      PROVE  Early(d, t)'
  <2>1. phase'[d] = phase[d] /\ cur'[d] = cur[d]
    BY <1>0, <1>1, ConnectElsewhere
  <2>2. Early(d, t)
    BY DEF Unregistered
  <2>3. QED
    BY <1>0, <2>1, <2>2 DEF Early
<1>2. CASE Dial(c) \/ Lose(c)
  <2>1. phase'[c] \in {"online", "bad"} /\ cur' = cur /\ file' = file
    BY <1>2 DEF Dial, Lose, Enter
  <2>2. Early(c, t)'
    BY <1>0, <1>2, <2>1 DEF Dial, Lose, Early, Resting
  <2>3. QED
    BY <1>0, <1>1, <2>1, <2>2 DEF Unregistered
<1>3. CASE ReadyNew(c)
  <2>1. phase'[c] = "save" /\ file' = file
    BY <1>3 DEF ReadyNew, Enter
  <2>2. \E v \in Versions : cur'[c] = Credential(v, FALSE)
    BY <1>3, ReadyNewIs
  <2>3. Early(c, t)'
    BY <1>0, <1>3, <2>1, <2>2 DEF ReadyNew, Early, Resting
  <2>4. QED
    BY <1>0, <1>1, <2>1, <2>3 DEF Unregistered
<1>4. CASE ReadyKnown(c)
  BY <1>0, <1>4, FreshIs, Apart DEF ReadyKnown, Early
<1>5. CASE Save(c)
  <2>1. phase'[c] \in {"truncate", "bad"} /\ file' = file /\ cur' = cur
    BY <1>5 DEF Save, Enter
  <2>2. Early(c, t)'
    BY <1>0, <1>5, <2>1 DEF Save, Early, Resting
  <2>3. QED
    BY <1>0, <1>1, <2>1, <2>2 DEF Unregistered
<1>6. CASE Truncate(c)
  <2>1. phase[c] = "truncate" /\ phase'[c] = "write" /\ file' = Empty /\ cur' = cur
    BY <1>6 DEF Truncate, Enter
  <2>2. PICK v \in Versions : cur[c] = Credential(v, FALSE)
    BY <1>0, <2>1 DEF Early
  <2>3. ASSUME NEW d \in Clients, d # c
        PROVE  Late(d, t, v)'
    <3>1. phase'[d] \notin {"truncate", "write"}
      BY <2>1, <2>3, <1>0, ConnectElsewhere DEF Locked
    <3>2. QED
      BY <1>1, <2>3, <3>1 DEF Early, Late, Resting
  <2>4. Late(c, t, v)'
    BY <1>0, <2>1, <2>2 DEF Early, Late, Resting
  <2>5. QED
    BY <2>1, <2>3, <2>4 DEF Registered
<1>7. CASE Write(c) \/ DeployCall(c) \/ DeployRequest(c) \/ DeployReturn(c)
  BY <1>0, <1>7 DEF Write, DeployCall, DeployRequest, DeployReturn, Early, Resting
<1>8. QED
  BY <1>2, <1>3, <1>4, <1>5, <1>6, <1>7 DEF Connect

\* What one connection does once v was written: a credential that was
\* registered besides it is refused, because the file has the token of v.
LEMMA ConnectLate ==
    ASSUME RegistrationTypeOK, OnlyAgent, NEW c \in Clients, Connect(c),
           \A d \in Clients : Calling(d),
           NEW t \in Tokens, NEW v \in Versions, Registered(t, v)
    PROVE  Registered(t, v)'
<1> USE DEF RegistrationTypeOK
<1>0. /\ Calling(c) /\ Late(c, t, v) /\ conf' = conf
      /\ \/ file = Empty
         \/ file = Credential(v, FALSE)
         \/ file = Credential(v, TRUE) /\ Deployed(v)
  BY ConnectKeepsConf DEF Registered
<1>1. Deployed(v) => Deployed(v)'
  <2>1. phase[c] = "deploying" => cur[c].version = v
    BY <1>0, CredentialIs DEF Late
  <2>2. QED
    BY <1>0, <2>1, ConnectDeploys
<1>2. ASSUME NEW d \in Clients, d # c
      PROVE  Late(d, t, v)'
  <2>1. Late(d, t, v)
    BY DEF Registered
  <2>2. QED
    BY <1>0, <1>1, <1>2, <2>1, ConnectElsewhere DEF Late, Succeeds
<1>3. ASSUME Late(c, t, v)',
             \/ file' = file
             \/ file' = Empty
             \/ file' = Credential(v, FALSE)
             \/ file' = Credential(v, TRUE) /\ Deployed(v)
      PROVE  Registered(t, v)'
  BY <1>0, <1>1, <1>2, <1>3 DEF Registered
<1>4. CASE Dial(c) \/ Lose(c)
  <2>1. phase'[c] \in {"online", "bad"} /\ cur' = cur /\ file' = file
    BY <1>4 DEF Dial, Lose, Enter
  <2>2. Late(c, t, v)'
    BY <1>0, <1>4, <2>1 DEF Dial, Lose, Late, Resting
  <2>3. QED
    BY <1>3, <2>1, <2>2
<1>5. CASE ReadyNew(c)
  <2>1. phase'[c] = "save" /\ file' = file
    BY <1>5 DEF ReadyNew, Enter
  <2>2. \E u \in Versions : cur'[c] = Credential(u, FALSE)
    BY <1>5, ReadyNewIs
  <2>3. conf[c] = Fresh(t)
    <3>0. phase[c] = "online" /\ ready[c] # 0
      BY <1>5 DEF ReadyNew
    <3>4. cur[c].token \in Tokens
      BY <1>0, <3>0 DEF Calling
    <3>1. cur[c] = Fresh(t) \/ cur[c] = Credential(v, FALSE)
      BY <1>0, <3>0 DEF Late, Resting
    <3>2. cur[c] # Credential(v, FALSE)
      <4>1. Credential(v, FALSE).token = v
        BY CredentialIs
      <4>2. v \notin Tokens
        BY Apart
      <4>3. QED
        BY <3>4, <4>1, <4>2
    <3>3. QED
      BY <1>0, <3>0, <3>1, <3>2 DEF Late
  <2>4. Late(c, t, v)'
    BY <1>0, <2>1, <2>2, <2>3 DEF Late, Resting
  <2>5. QED
    BY <1>3, <2>1, <2>4
<1>6. CASE ReadyKnown(c)
  <2>1. phase'[c] = "deploy" /\ file' = file /\ cur' = cur /\ at' = at
    BY <1>6 DEF ReadyKnown, Enter, serviceVars, callVars
  <2>2. cur[c] = Credential(v, FALSE)
    <3>1. cur[c] # Fresh(t)
      BY <1>6, FreshIs DEF ReadyKnown
    <3>2. QED
      BY <1>0, <1>6, <3>1 DEF ReadyKnown, Late, Resting
  <2>3. at[c] = "idle"
    BY <1>0, <1>6 DEF ReadyKnown, Calling
  <2>4. Late(c, t, v)'
    BY <1>0, <1>6, <2>1, <2>2, <2>3 DEF ReadyKnown, Late, Succeeds, Resting
  <2>5. QED
    BY <1>3, <2>1, <2>4
<1>7. CASE Save(c)
  <2>1. phase'[c] \in {"truncate", "bad"} /\ file' = file /\ cur' = cur
    BY <1>7 DEF Save, Enter
  <2>2. phase'[c] = "truncate" =>
            \/ cur[c] = Credential(v, TRUE) /\ Deployed(v)
            \/ cur[c] = Credential(v, FALSE)
    <3>1. ASSUME NEW u \in Versions, cur[c] = Credential(u, FALSE), conf[c] = Fresh(t),
                 IsConnection(file), Unchanged(c)
          PROVE  u = v
      <4>1. file.token = v
        BY <1>0, <3>1, CredentialIs DEF IsConnection
      <4>2. cur[c].token = u /\ conf[c].token = t
        BY <3>1, CredentialIs, FreshIs
      <4>3. QED
        BY <3>1, <4>1, <4>2, Apart DEF Unchanged
    <3>2. phase'[c] = "truncate" => IsConnection(file) /\ Unchanged(c)
      BY <1>7 DEF Save, Enter
    <3>3. QED
      BY <1>0, <1>7, <3>1, <3>2 DEF Save, Late
  <2>3. Late(c, t, v)'
    BY <1>0, <1>1, <1>7, <2>1, <2>2 DEF Save, Late, Resting
  <2>4. QED
    BY <1>3, <2>1, <2>3
<1>8. CASE Truncate(c)
  <2>1. phase[c] = "truncate" /\ phase'[c] = "write" /\ file' = Empty /\ cur' = cur
    BY <1>8 DEF Truncate, Enter
  <2>2. Late(c, t, v)'
    BY <1>0, <1>1, <2>1 DEF Late, Resting
  <2>3. QED
    BY <1>3, <2>1, <2>2
<1>9. CASE Write(c)
  <2>1. /\ phase[c] = "write" /\ file' = cur[c] /\ cur' = cur /\ at' = at
    BY <1>9 DEF Write, serviceVars, callVars
  <2>2. \/ cur[c] = Credential(v, TRUE) /\ Deployed(v)
        \/ cur[c] = Credential(v, FALSE)
    BY <1>0, <2>1 DEF Late
  <2>3. \/ phase'[c] = "deploy" /\ cur[c] = Credential(v, FALSE)
        \/ phase'[c] = "good"
    <3>1. cur[c].version # 0
      <4>1. Credential(v, TRUE).version = v /\ Credential(v, FALSE).version = v
        BY CredentialIs
      <4>2. QED
        BY <2>2, <4>1, ServiceAssumption
    <3>2. cur[c].pending => cur[c] = Credential(v, FALSE)
      <4>1. ~ Credential(v, TRUE).pending
        BY CredentialIs
      <4>2. QED
        BY <2>2, <4>1
    <3>3. QED
      BY <1>9, <3>1, <3>2 DEF Write, Enter
  <2>4. at[c] = "idle"
    BY <1>0, <2>1 DEF Calling
  <2>5. Late(c, t, v)'
    BY <1>0, <2>1, <2>3, <2>4 DEF Late, Succeeds, Resting
  <2>6. QED
    BY <1>3, <2>1, <2>2, <2>5
<1>10. CASE DeployCall(c)
  <2>1. phase[c] = "deploy" /\ phase'[c] = "deploying" /\ file' = file /\ cur' = cur
    BY <1>10 DEF DeployCall, Enter
  <2>2. at'[c] # "ok"
    BY <1>10 DEF DeployCall, CallDeploy, Step, ServiceTypeOK
  <2>3. Late(c, t, v)'
    BY <1>0, <2>1, <2>2 DEF Late, Succeeds, Resting
  <2>4. QED
    BY <1>3, <2>1, <2>3
<1>11. CASE DeployRequest(c)
  <2>1. phase[c] = "deploying" /\ phase'[c] = "deploying" /\ file' = file /\ cur' = cur
    BY <1>11 DEF DeployRequest, connVars
  <2>2. cur[c] = Credential(v, FALSE) /\ cur[c].version = v
    BY <1>0, <2>1, CredentialIs DEF Late
  <2>3. at'[c] = "ok" => Deployed(v)'
    BY <1>0, <2>1, <2>2, ConnectDeploys
  <2>4. Late(c, t, v)'
    BY <1>0, <2>1, <2>2, <2>3 DEF Late, Succeeds, Resting
  <2>5. QED
    BY <1>3, <2>1, <2>4
<1>12. CASE DeployReturn(c)
  <2>1. /\ phase[c] = "deploying" /\ file' = file
        /\ cur[c] = Credential(v, FALSE) /\ Succeeds(c, v)
    BY <1>0, <1>12 DEF DeployReturn, Late
  <2>2. CASE at[c] = "ok"
    <3>1. cur'[c] = Credential(v, TRUE)
      <4>1. cur \in [Clients -> Connection]
        OBVIOUS
      <4>2. QED
        BY <4>1, <1>12, <2>1, <2>2, DeployReturnIs, Zenon
    <3>2. phase'[c] = "save" /\ Deployed(v)'
      BY <1>1, <1>12, <2>1, <2>2 DEF DeployReturn, Enter, Succeeds
    <3>3. Late(c, t, v)'
      BY <1>0, <2>1, <3>1, <3>2 DEF Late, Resting
    <3>4. QED
      BY <1>3, <2>1, <3>3
  <2>3. CASE at[c] # "ok"
    <3>1. phase'[c] = "bad"
      BY <1>12, <2>3 DEF DeployReturn, Enter
    <3>2. Late(c, t, v)'
      BY <1>0, <2>1, <3>1 DEF Late, Resting
    <3>3. QED
      BY <1>3, <2>1, <3>2
  <2>4. QED
    BY <2>2, <2>3
<1>13. QED
  BY <1>4, <1>5, <1>6, <1>7, <1>8, <1>9, <1>10, <1>11, <1>12 DEF Connect

\* What one connection does keeps the map of the connections and the lock.
LEMMA ConnectLocked ==
    ASSUME RegistrationTypeOK, OnlyAgent, NEW c \in Clients, Connect(c),
           \A d \in Clients : Calling(d), Current, Locked, active' = active
    PROVE  Current' /\ Locked'
<1> USE DEF RegistrationTypeOK
<1>1. stopped' = stopped /\ phase[c] \notin Resting
  BY DEF Connect, Dial, ReadyNew, ReadyKnown, Lose, Save, Truncate, Write,
     DeployCall, DeployRequest, DeployReturn, connVars, Resting
<1>2. \A d \in Clients \ {c} : phase'[d] = phase[d]
  BY ConnectElsewhere
<1>3. Current'
  BY <1>1, <1>2 DEF Current
<1>4. phase'[c] \in {"truncate", "write"} =>
        \/ phase[c] = "truncate"
        \/ \A d \in Clients \ {c} : phase[d] \notin {"truncate", "write"}
  BY RunAssumption
  DEF Connect, Dial, ReadyNew, ReadyKnown, Lose, Save, Truncate, Write,
      DeployCall, DeployRequest, DeployReturn, connVars, Enter, LockFree
<1>5. Locked'
  BY <1>2, <1>4 DEF Locked
<1>6. QED
  BY <1>3, <1>5

\* A step that changes no configuration, phase or service keeps the rest of
\* RunSound.
LEMMA RunUnchanged ==
    ASSUME RunSound, UNCHANGED <<service, at, file, phase, conf, cur, bootstraps>>
    PROVE  /\ OnlyAgent' /\ Locked' /\ Progress'
           /\ file' = Empty \/ Known(file)'
           /\ \A d \in Clients : Working(d)'
<1>1. OnlyAgent' /\ Locked' /\ (file' = Empty \/ Known(file)')
  BY DEF RunSound, OnlyAgent, Locked, Known
<1>2. ASSUME NEW d \in Clients
      PROVE  Working(d)'
  <2>1. Working(d)
    BY DEF RunSound
  <2>2. QED
    BY <2>1 DEF Working, Known
<1>3. ASSUME NEW t \in Tokens, Unregistered(t)
      PROVE  Unregistered(t)'
  BY <1>3 DEF Unregistered, Early
<1>4. ASSUME NEW t \in Tokens, NEW v \in Versions, Registered(t, v)
      PROVE  Registered(t, v)'
  <2>1. \A d \in Clients : Late(d, t, v)
    BY <1>4 DEF Registered
  <2>2. ASSUME NEW d \in Clients
        PROVE  Late(d, t, v)'
    BY <2>1 DEF Late, Deployed, Succeeds
  <2>3. QED
    BY <1>4, <2>2 DEF Registered, Deployed
<1>5. Progress'
  BY <1>3, <1>4 DEF RunSound, Progress
<1>6. QED
  BY <1>1, <1>2, <1>5

\* RunSound holds whatever the connections, the operator and the API do.
THEOREM RunCorrect == RunSpec => []RunSound
<1>1. RunInit => RunSound
  <2> SUFFICES ASSUME RunInit
               PROVE  RunSound
    OBVIOUS
  <2>1. PICK t \in Tokens : file = Fresh(t)
    BY DEF RunInit
  <2>2. OnlyAgent /\ \A c \in Clients : Calling(c)
    BY <2>1, FreshIs, RegistrationStarts DEF RunInit
  <2>3. \A c \in Clients : phase[c] = "idle"
    BY DEF RunInit, RegistrationInit
  <2>4. Current /\ Locked
    BY <2>3 DEF Current, Locked, Resting
  <2>5. \A c \in Clients : Working(c) /\ Early(c, t)
    BY <2>3 DEF Working, Early, Steps, Resting
  <2>6. Progress /\ Known(file)
    BY <2>1, <2>5 DEF Progress, Unregistered, Known
  <2>7. QED
    BY <2>2, <2>4, <2>5, <2>6 DEF RunSound
<1>2. RunTypeOK /\ RunSound /\ [RunNext]_runVars => RunSound'
  <2> SUFFICES ASSUME RunTypeOK, RunSound, [RunNext]_runVars
               PROVE  RunSound'
    OBVIOUS
  <2>0. /\ RegistrationTypeOK
        /\ OnlyAgent
        /\ file = Empty \/ Known(file)
        /\ Current /\ Locked
        /\ \A c \in Clients : Calling(c) /\ Working(c)
        /\ Progress
    BY DEF RunTypeOK, RunSound
  <2>1. ASSUME NEW c \in Clients, Connect(c), UNCHANGED supervisor
        PROVE  RunSound'
    <3>1. OnlyAgent' /\ \A d \in Clients : Calling(d)'
      BY <2>0, <2>1, ConnectCalling, ConnectDeploys
    <3>2. (file' = Empty \/ Known(file)') /\ \A d \in Clients : Working(d)'
      BY <2>0, <2>1, ConnectWorking
    <3>3. Current' /\ Locked'
      BY <2>0, <2>1, ConnectLocked DEF supervisor
    <3>4. Progress'
      <4>1. ASSUME NEW t \in Tokens, Unregistered(t)
            PROVE  Unregistered(t)' \/ \E v \in Versions : Registered(t, v)'
        BY <2>0, <2>1, <4>1, ConnectEarly
      <4>2. ASSUME NEW t \in Tokens, NEW v \in Versions, Registered(t, v)
            PROVE  Registered(t, v)'
        BY <2>0, <2>1, <4>2, ConnectLate
      <4>3. bootstraps' = bootstraps
        BY <2>1 DEF supervisor
      <4>4. QED
        BY <2>0, <4>1, <4>2, <4>3 DEF Progress
    <3>5. QED
      BY <3>1, <3>2, <3>3, <3>4 DEF RunSound
  <2>2. ASSUME UNCHANGED <<service, at, job, target, ready, bootstraps>>,
               file' = file,
               NEW c \in Clients,
               \A d \in Clients \ {c} : /\ phase'[d] = phase[d] /\ conf'[d] = conf[d]
                                        /\ cur'[d] = cur[d],
               phase[c] # "deploying" /\ phase[c] # "online",
               \/ phase'[c] \in Resting
               \/ /\ phase'[c] = "dial"
                  /\ cur'[c] = conf'[c]
                  /\ \/ conf'[c] = conf[c] /\ phase[c] \notin Resting
                     \/ conf'[c] = file /\ IsConnection(file) /\ ~ file.disabled
        PROVE  /\ OnlyAgent' /\ Locked' /\ Progress'
               /\ file' = Empty \/ Known(file)'
               /\ \A d \in Clients : Calling(d)' /\ Working(d)'
    <3>1. \A d \in Clients : Calling(d)'
      <4>1. at[c] = "idle" /\ ready[c] = 0
        BY <2>0, <2>2 DEF Calling
      <4>2. Calling(c)'
        BY <2>2, <4>1 DEF Calling
      <4>3. \A d \in Clients \ {c} : Calling(d)'
        BY <2>0, <2>2 DEF Calling
      <4>4. QED
        BY <4>2, <4>3
    <3>2. \A d \in Clients : Working(d)'
      <4>1. phase'[c] = "dial" => Known(conf'[c])
        <5>1. CASE conf'[c] = conf[c] /\ phase[c] \notin Resting
          <6>1. Known(conf[c])
            BY <2>0, <5>1 DEF Working
          <6>2. QED
            BY <5>1, <6>1
        <5>2. CASE conf'[c] = file /\ IsConnection(file)
          <6>1. Known(file)
            BY <2>0, <5>2 DEF IsConnection
          <6>2. QED
            BY <5>2, <6>1
        <5>3. QED
          BY <2>2, <5>1, <5>2 DEF Resting
      <4>2. Working(c)'
        BY <2>2, <4>1 DEF Working, Steps, Resting
      <4>3. \A d \in Clients \ {c} : Working(d)'
        BY <2>0, <2>2 DEF Working
      <4>4. QED
        BY <4>2, <4>3
    <3>3. phase'[c] \notin {"truncate", "write"}
      BY <2>2 DEF Resting
    <3>4. Locked'
      BY <2>0, <2>2, <3>3 DEF Locked
    <3>5. ASSUME NEW t \in Tokens, Unregistered(t)
          PROVE  Unregistered(t)'
      <4>1. Early(c, t)'
        BY <2>2, <3>5 DEF Unregistered, Early, Resting
      <4>2. \A d \in Clients \ {c} : Early(d, t)'
        BY <2>2, <3>5 DEF Unregistered, Early
      <4>3. QED
        BY <2>2, <3>5, <4>1, <4>2 DEF Unregistered
    <3>6. ASSUME NEW t \in Tokens, NEW v \in Versions, Registered(t, v)
          PROVE  Registered(t, v)'
      <4>0. Credential(v, TRUE).disabled
        BY CredentialIs
      <4>1. IsConnection(file) /\ ~ file.disabled => file = Credential(v, FALSE)
        BY <3>6, <4>0 DEF Registered, IsConnection
      <4>2. Late(c, t, v)'
        <5>1. CASE phase'[c] \in Resting
          BY <5>1 DEF Late, Resting
        <5>2. CASE phase'[c] \notin Resting
          <6>1. /\ phase'[c] = "dial" /\ cur'[c] = conf'[c]
                /\ \/ conf'[c] = conf[c] /\ phase[c] \notin Resting
                   \/ conf'[c] = file /\ IsConnection(file) /\ ~ file.disabled
            BY <2>2, <5>2 DEF Resting
          <6>2. conf'[c] \in {Fresh(t), Credential(v, FALSE)}
            BY <3>6, <4>1, <6>1 DEF Registered, Late
          <6>3. QED
            BY <6>1, <6>2 DEF Late
        <5>3. QED
          BY <5>1, <5>2
      <4>3. ASSUME NEW d \in Clients \ {c}
            PROVE  Late(d, t, v)'
        <5>1. Late(d, t, v)
          BY <3>6 DEF Registered
        <5>2. /\ phase'[d] = phase[d] /\ conf'[d] = conf[d] /\ cur'[d] = cur[d]
              /\ UNCHANGED <<service, at>>
          BY <2>2
        <5>3. QED
          BY <5>1, <5>2 DEF Late, Deployed, Succeeds
      <4>4. QED
        BY <2>2, <3>6, <4>2, <4>3 DEF Registered, Deployed
    <3>7. Progress'
      BY <2>0, <2>2, <3>5, <3>6 DEF Progress
    <3>8. QED
      BY <2>0, <2>2, <3>1, <3>2, <3>4, <3>7 DEF OnlyAgent
  <2>3. ASSUME NEW c \in Clients, Again(c) \/ Finished(c)
        PROVE  RunSound'
    <3>1. /\ UNCHANGED <<service, at, job, target, ready, bootstraps, file, conf, stopped,
                         active>>
          /\ phase[c] \in {"bad", "good"}
          /\ \A d \in Clients \ {c} : phase'[d] = phase[d] /\ cur'[d] = cur[d]
      BY <2>0, <2>3 DEF Again, Finished, Enter, RegistrationTypeOK, serviceVars, dockerVars,
         callVars, apiVars, supervisor
    <3>2. \/ phase'[c] \in Resting
          \/ phase'[c] = "dial" /\ cur'[c] = conf'[c]
      BY <2>0, <2>3 DEF Again, Finished, Enter, RegistrationTypeOK, Resting
    <3>3. Current'
      BY <2>0, <3>1 DEF Current, Resting
    <3>4. QED
      BY <2>2, <3>1, <3>2, <3>3 DEF RunSound, Resting
  <2>4. CASE Reload
    <3>0. UNCHANGED <<service, at, job, target, ready, bootstraps, file>>
      BY <2>4 DEF Reload, serviceVars, dockerVars, callVars, apiVars
    <3>1. CASE UNCHANGED <<phase, conf, cur, stopped, active>>
      <4>1. Current' /\ \A d \in Clients : Calling(d)'
        BY <2>0, <3>0, <3>1 DEF Current, Calling
      <4>2. QED
        BY <3>0, <3>1, <4>1, RunUnchanged DEF RunSound
    <3>2. ASSUME NEW n \in Clients \union {None}, Restart(n)
          PROVE  RunSound'
      <4>1. Current'
        BY <2>0, <3>2 DEF Current, Restart
      <4>2. CASE n \in Clients
        <5>1. \A d \in Clients \ {n} : /\ phase'[d] = phase[d] /\ conf'[d] = conf[d]
                                       /\ cur'[d] = cur[d]
          BY <3>2 DEF Restart
        <5>2. /\ phase[n] \in Resting /\ phase'[n] = "dial" /\ cur'[n] = conf'[n]
              /\ conf'[n] = file /\ IsConnection(file) /\ ~ file.disabled
          BY <3>2, <4>2 DEF Restart, Spare
        <5>3. QED
          BY <2>2, <3>0, <4>1, <4>2, <5>1, <5>2 DEF RunSound, Resting
      <4>3. CASE n \notin Clients
        <5>1. phase' = phase /\ conf' = conf /\ cur' = cur
          BY <2>0, <3>2, <4>3 DEF Restart, RegistrationTypeOK
        <5>2. \A d \in Clients : Calling(d)'
          BY <2>0, <3>0, <5>1 DEF Calling
        <5>3. QED
          BY <3>0, <4>1, <5>1, <5>2, RunUnchanged DEF RunSound
      <4>4. QED
        BY <4>2, <4>3
    <3>3. QED
      BY <2>4, <3>1, <3>2, ReloadIs
  <2>5. CASE Bootstrap
    <3>1. UNCHANGED <<service, at, job, target, ready, phase, conf, cur, stopped, active>>
      BY <2>5 DEF Bootstrap, serviceVars, dockerVars, callVars, apiVars, connVars
    <3>2. Known(file)'
      BY <2>0, <2>5 DEF Bootstrap, Known, RegistrationTypeOK
    <3>3. bootstraps' # 0
      BY <2>5 DEF Bootstrap, RunTypeOK
    <3>4. OnlyAgent' /\ Current' /\ Locked' /\ Progress'
      BY <2>0, <3>1, <3>3 DEF OnlyAgent, Current, Locked, Progress
    <3>5. ASSUME NEW d \in Clients
          PROVE  Calling(d)' /\ Working(d)'
      <4>1. Calling(d) /\ Working(d)
        BY <2>0
      <4>2. QED
        BY <3>1, <4>1 DEF Calling, Working, Known
    <3>6. QED
      BY <3>2, <3>4, <3>5 DEF RunSound
  <2>6. CASE Crash
    <3>1. UNCHANGED <<service, file, bootstraps>>
      BY <2>6 DEF Crash, dockerVars
    <3>2. \A c \in Clients : phase'[c] = "idle" /\ at'[c] = "idle" /\ ready'[c] = 0
      BY <2>6 DEF Crash
    <3>3. \A c \in Clients : Calling(c)' /\ Working(c)'
      BY <3>2 DEF Calling, Working, Steps, Resting
    <3>4. Current' /\ Locked'
      BY <3>2 DEF Current, Locked, Resting
    <3>5. Progress'
      <4>1. ASSUME NEW t \in Tokens, NEW v
            PROVE  \A c \in Clients : Early(c, t)' /\ Late(c, t, v)'
        BY <3>2 DEF Early, Late, Resting
      <4>2. QED
        BY <2>0, <3>1, <4>1 DEF Progress, Unregistered, Registered, Deployed
    <3>6. QED
      BY <2>0, <3>1, <3>3, <3>4, <3>5 DEF RunSound, OnlyAgent, Known
  <2>7. CASE Api /\ UNCHANGED supervisor
    <3>1. /\ UNCHANGED <<file, phase, conf, cur, stopped, service, at>>
          /\ \A d \in Clients : Calling(d)'
      BY <2>0, <2>7, ApiCalling
    <3>2. active' = active /\ bootstraps' = bootstraps
      BY <2>7 DEF supervisor
    <3>3. Current'
      BY <2>0, <3>1, <3>2 DEF Current
    <3>4. QED
      BY <3>1, <3>2, <3>3, RunUnchanged DEF RunSound
  <2>8. CASE UNCHANGED runVars
    <3>1. UNCHANGED <<service, at, job, target, ready, file, phase, conf, cur, stopped,
                      active, bootstraps>>
      BY <2>8 DEF runVars, regVars, serviceVars, dockerVars, callVars, apiVars, connVars,
         supervisor
    <3>2. Current' /\ \A d \in Clients : Calling(d)'
      BY <2>0, <3>1 DEF Current, Calling
    <3>3. QED
      BY <3>1, <3>2, RunUnchanged DEF RunSound
  <2>9. QED
    BY <2>1, <2>3, <2>4, <2>5, <2>6, <2>7, <2>8 DEF RunNext, Worker
<1>3. QED
  BY <1>1, <1>2, RunTypeCorrect, PTL DEF RunSpec

\* At most one connection has not been told to end.
THEOREM ConnectedOnce == RunSpec => []OneConnection
<1>1. RunSound => OneConnection
  BY DEF RunSound, Current, OneConnection
<1>2. QED
  BY <1>1, RunCorrect, PTL

\* The agent disables itself only with the credential its service runs with.
THEOREM DisabledDeployed == RunSpec => []DisabledIsDeployed
<1>1. RunSound => DisabledIsDeployed
  <2> SUFFICES ASSUME RunSound, bootstraps = 0, IsConnection(file), file.disabled
               PROVE  Deployed(file.version)
    BY DEF DisabledIsDeployed
  <2>1. PICK t \in Tokens : Unregistered(t) \/ \E v \in Versions : Registered(t, v)
    BY DEF RunSound, Progress
  <2>2. ~ Unregistered(t)
    BY FreshIs DEF Unregistered
  <2>3. PICK v \in Versions : Registered(t, v)
    BY <2>1, <2>2
  <2>4. ~ Credential(v, FALSE).disabled /\ Credential(v, TRUE).version = v
    BY CredentialIs
  <2>5. QED
    BY <2>3, <2>4 DEF Registered, IsConnection
<1>2. QED
  BY <1>1, RunCorrect, PTL

-----------------------------------------------------------------------------
(* galaxy agent install.                                                   *)

\* Type correctness of galaxy agent install.
THEOREM InstallTypeCorrect == InstallSpec => []InstallTypeOK
<1>1. InstallInit => InstallTypeOK
  BY RegistrationStarts, InstallAssumption DEF InstallInit, InstallTypeOK
<1>2. InstallTypeOK /\ [InstallNext]_installVars => InstallTypeOK'
  <2> SUFFICES ASSUME InstallTypeOK, [InstallNext]_installVars
               PROVE  InstallTypeOK'
    OBVIOUS
  <2>0. RegistrationTypeOK /\ ServiceTypeOK /\ starts \in [Clients -> 0..MaxStarts]
    BY DEF InstallTypeOK, RegistrationTypeOK
  <2>1. NoConnection \in Connection
    BY DEF NoConnection, Connection
  <2>2. ASSUME NEW c \in Clients, Start(c) \/ Ask(c) \/ Load(c) \/ GiveUp(c) \/ CleanUp(c)
        PROVE  InstallTypeOK'
    <3>1. ServiceTypeOK' /\ UNCHANGED <<fresh, issued, ready, breaks, stopped>>
      BY <2>0, <2>2 DEF Start, Ask, Load, GiveUp, CleanUp, ServiceTypeOK, serviceVars,
         dockerVars, callVars, apiVars
    <3>2. phase' \in [Clients -> Phase]
      <4>1. PICK p \in Phase : Enter(c, p)
        BY <2>2 DEF Start, Ask, Load, GiveUp, CleanUp, Phase
      <4>2. QED
        BY <2>0, <4>1, EnterTypes
    <3>3. cur' \in [Clients -> Connection] /\ conf' \in [Clients -> Connection]
      <4>1. CASE Ask(c)
        BY <2>0, <4>1, FreshIs DEF Ask, RegistrationTypeOK
      <4>2. CASE Start(c) \/ Load(c) \/ GiveUp(c) \/ CleanUp(c)
        BY <2>0, <2>1, <4>2
        DEF Start, Load, GiveUp, CleanUp, RegistrationTypeOK, IsConnection
      <4>3. QED
        BY <2>2, <4>1, <4>2
    <3>4. file' \in Connection \union {Absent, Empty}
      BY <2>0, <2>2 DEF Start, Ask, Load, GiveUp, CleanUp, RegistrationTypeOK
    <3>5. starts' \in [Clients -> 0..MaxStarts]
      <4>1. CASE UNCHANGED starts
        BY <2>0, <4>1
      <4>2. CASE starts[c] < MaxStarts /\ starts' = [starts EXCEPT ![c] = @ + 1]
        BY <2>0, <4>2, InstallAssumption
      <4>3. QED
        BY <2>2, <4>1, <4>2 DEF Start, Ask, Load, GiveUp, CleanUp
    <3>6. QED
      BY <2>0, <3>1, <3>2, <3>3, <3>4, <3>5 DEF InstallTypeOK, RegistrationTypeOK
  <2>3. ASSUME NEW c \in Clients, Connect(c), UNCHANGED starts
        PROVE  InstallTypeOK'
    BY <2>0, <2>3, ConnectTypes DEF InstallTypeOK
  <2>4. ASSUME NEW c \in Clients, Kill(c)
        PROVE  InstallTypeOK'
    <3>1. ServiceTypeOK'
      BY <2>0, <2>4, SpecTypes
      DEF Kill, ServiceTypeOK, dockerVars, Request, Names
    <3>2. phase' \in [Clients -> Phase] /\ breaks' \in 0..MaxBreaks
      BY <2>0, <2>4, EnterTypes, BrokenTypes DEF Kill, RegistrationTypeOK, Phase
    <3>3. QED
      BY <2>0, <2>4, <3>1, <3>2 DEF Kill, InstallTypeOK, RegistrationTypeOK
  <2>5. CASE Api /\ UNCHANGED starts
    BY <2>0, <2>5, ApiTypes DEF InstallTypeOK
  <2>6. CASE UNCHANGED installVars
    <3>1. ServiceTypeOK'
      BY <2>0, <2>6
      DEF installVars, regVars, ServiceTypeOK, serviceVars, dockerVars, callVars
    <3>2. QED
      BY <2>0, <2>6, <3>1
      DEF InstallTypeOK, RegistrationTypeOK, installVars, regVars, apiVars, connVars
  <2>7. QED
    BY <2>2, <2>3, <2>4, <2>5, <2>6 DEF InstallNext, Command
<1>3. QED
  BY <1>1, <1>2, PTL DEF InstallSpec

\* What one connection does keeps what its command knows of the file and of
\* the service.
LEMMA ConnectInstalling ==
    ASSUME RegistrationTypeOK, OnlyAgent, NEW c \in Clients, Connect(c),
           Calling(c), Installing(c)
    PROVE  Installing(c)'
<1> USE DEF RegistrationTypeOK
<1>0. conf' = conf
  BY ConnectKeepsConf
<1>1. phase[c] # "deploying" => \A v \in Versions : Deployed(v) => Deployed(v)'
  BY ConnectDeploys
<1>2. CASE Dial(c) \/ Lose(c)
  <2>1. phase[c] \in {"dial", "online"} /\ phase'[c] \in {"online", "bad"}
    BY <1>2 DEF Dial, Lose, Enter
  <2>2. cur' = cur /\ file' = file
    BY <1>2 DEF Dial, Lose
  <2>3. QED
    BY <1>0, <2>1, <2>2 DEF Installing
<1>3. CASE ReadyNew(c)
  <2>1. phase[c] = "online" /\ ready[c] # 0 /\ phase'[c] = "save" /\ file' = file
    BY <1>3 DEF ReadyNew, Enter
  <2>2. \E u \in Versions : cur'[c] = Credential(u, FALSE)
    BY <1>3, ReadyNewIs
  <2>3. \E t \in Tokens : file = Fresh(t)
    <3>1. Known(file) /\ file.token \in Tokens
      BY <2>1 DEF Installing, Calling
    <3>2. ASSUME NEW v \in Versions, NEW done \in BOOLEAN, file = Credential(v, done)
          PROVE  FALSE
      BY <3>1, <3>2, CredentialIs, Apart
    <3>3. QED
      BY <3>1, <3>2 DEF Known
  <2>4. QED
    BY <2>1, <2>2, <2>3 DEF Installing
<1>4. CASE ReadyKnown(c)
  <2>1. /\ phase[c] = "online" /\ phase'[c] = "deploy" /\ file' = file /\ cur' = cur
        /\ at' = at /\ cur[c].pending
    BY <1>4 DEF ReadyKnown, Enter, serviceVars, callVars
  <2>2. at[c] = "idle" /\ Known(file) /\ cur[c] = file
    BY <2>1 DEF Calling, Installing
  <2>3. \E v \in Versions : cur[c] = Credential(v, FALSE)
    BY <2>1, <2>2, KnownPending
  <2>4. QED
    BY <2>1, <2>2, <2>3 DEF Installing, Succeeds
<1>5. CASE Save(c)
  <2>1. /\ phase[c] = "save" /\ phase'[c] \in {"truncate", "bad"}
        /\ file' = file /\ cur' = cur
    BY <1>5 DEF Save, Enter
  <2>2. (\E t \in Tokens : file = Fresh(t)) => ~ Pending(file)
    BY FreshIs DEF Pending
  <2>3. CASE /\ \E u \in Versions : cur[c] = Credential(u, FALSE)
             /\ \E t \in Tokens : file = Fresh(t)
    BY <2>1, <2>2, <2>3 DEF Installing, Pending, IsConnection
  <2>4. CASE \E v \in Versions, done \in BOOLEAN :
                cur[c] = Credential(v, TRUE) /\ file = Credential(v, done) /\ Deployed(v)
    BY <1>1, <2>1, <2>4 DEF Installing
  <2>5. QED
    BY <2>1, <2>3, <2>4 DEF Installing
<1>6. CASE Truncate(c)
  <2>1. phase[c] = "truncate" /\ phase'[c] = "write" /\ file' = Empty /\ cur' = cur
    BY <1>6 DEF Truncate, Enter
  <2>2. QED
    BY <1>1, <2>1 DEF Installing
<1>7. CASE Write(c)
  <2>1. /\ phase[c] = "write" /\ file' = cur[c] /\ cur' = cur /\ at' = at
        /\ phase'[c] = IF cur[c].version = 0 THEN "load"
                       ELSE IF cur[c].pending THEN "deploy" ELSE "good"
    BY <1>7 DEF Write, Enter, serviceVars, callVars
  <2>2. at[c] = "idle"
    BY <2>1 DEF Calling
  <2>3. ASSUME NEW t \in Tokens, cur[c] = Fresh(t)
        PROVE  Installing(c)'
    <3>1. phase'[c] = "load"
      BY <2>1, <2>3, FreshIs
    <3>2. QED
      BY <3>1 DEF Installing
  <2>4. ASSUME NEW v \in Versions, cur[c] = Credential(v, FALSE)
        PROVE  Installing(c)'
    <3>1. Credential(v, FALSE).version = v /\ Credential(v, FALSE).pending /\ v # 0
      BY CredentialIs, ServiceAssumption
    <3>2. phase'[c] = "deploy"
      BY <2>1, <2>4, <3>1
    <3>3. QED
      BY <2>1, <2>2, <2>4, <3>2 DEF Installing, Succeeds
  <2>5. ASSUME NEW v \in Versions, cur[c] = Credential(v, TRUE), Deployed(v)
        PROVE  Installing(c)'
    <3>1. Credential(v, TRUE).version = v /\ ~ Credential(v, TRUE).pending /\ v # 0
      BY CredentialIs, ServiceAssumption
    <3>2. phase'[c] = "good" /\ Deployed(v)'
      BY <1>1, <2>1, <2>5, <3>1
    <3>3. QED
      BY <2>1, <2>5, <3>2 DEF Installing
  <2>6. QED
    BY <2>1, <2>3, <2>4, <2>5 DEF Installing
<1>8. CASE DeployCall(c)
  <2>1. phase[c] = "deploy" /\ phase'[c] = "deploying" /\ file' = file /\ cur' = cur
    BY <1>8 DEF DeployCall, Enter
  <2>2. at'[c] # "ok"
    BY <1>8 DEF DeployCall, CallDeploy, Step, ServiceTypeOK
  <2>3. QED
    BY <2>1, <2>2 DEF Installing, Succeeds
<1>9. CASE DeployRequest(c)
  <2>1. phase[c] = "deploying" /\ phase'[c] = "deploying" /\ file' = file /\ cur' = cur
    BY <1>9 DEF DeployRequest, connVars
  <2>2. PICK v \in Versions : cur[c] = Credential(v, FALSE) /\ file = cur[c]
    BY <2>1 DEF Installing
  <2>3. cur[c].version = v
    BY <2>2, CredentialIs
  <2>4. at'[c] = "ok" => Deployed(v)'
    BY <2>1, <2>3, ConnectDeploys
  <2>5. QED
    BY <2>1, <2>2, <2>4 DEF Installing, Succeeds
<1>10. CASE DeployReturn(c)
  <2>1. phase[c] = "deploying" /\ file' = file
    BY <1>10 DEF DeployReturn
  <2>2. PICK v \in Versions :
          cur[c] = Credential(v, FALSE) /\ file = cur[c] /\ Succeeds(c, v)
    BY <2>1 DEF Installing
  <2>3. CASE at[c] = "ok"
    <3>1. cur'[c] = Credential(v, TRUE)
      <4>1. cur \in [Clients -> Connection]
        BY DEF RegistrationTypeOK
      <4>2. QED
        BY <4>1, <1>10, <2>2, <2>3, DeployReturnIs, Zenon
    <3>2. Deployed(v)'
      BY <2>2, <2>3, CredentialIs, ConnectDeploys DEF Succeeds
    <3>3. phase'[c] = "save"
      BY <1>10, <2>3 DEF DeployReturn, Enter
    <3>4. QED
      BY <2>1, <2>2, <3>1, <3>2, <3>3 DEF Installing
  <2>4. CASE at[c] # "ok"
    <3>1. phase'[c] = "bad"
      BY <1>10, <2>4 DEF DeployReturn, Enter
    <3>2. QED
      BY <3>1 DEF Installing
  <2>5. QED
    BY <2>3, <2>4
<1>11. QED
  BY <1>2, <1>3, <1>4, <1>5, <1>6, <1>7, <1>8, <1>9, <1>10 DEF Connect

\* InstallSound holds whatever fails and whenever a command is killed, as long
\* as no two commands run at a time.
THEOREM InstallCorrect ==
    ASSUME ~ Overlap
    PROVE  InstallSpec => []InstallSound
<1>1. InstallInit => InstallSound
  <2> SUFFICES ASSUME InstallInit
               PROVE  InstallSound
    OBVIOUS
  <2>1. OnlyAgent /\ file = Absent /\ \A c \in Clients : Calling(c)
    BY RegistrationStarts DEF InstallInit
  <2>2. \A c \in Clients : phase[c] = "idle"
    BY DEF InstallInit, RegistrationInit
  <2>3. Alone /\ \A c \in Clients : Installing(c)
    BY <2>2 DEF Alone, Over, Installing
  <2>4. QED
    BY <2>1, <2>3 DEF InstallSound
<1>2. InstallTypeOK /\ InstallSound /\ [InstallNext]_installVars => InstallSound'
  <2> SUFFICES ASSUME InstallTypeOK, InstallSound, [InstallNext]_installVars
               PROVE  InstallSound'
    OBVIOUS
  <2>0. /\ RegistrationTypeOK
        /\ OnlyAgent
        /\ file \in {Absent, Empty} \/ Known(file)
        /\ Alone
        /\ \A c \in Clients : Calling(c) /\ Installing(c)
    BY DEF InstallTypeOK, InstallSound
  <2>1. ASSUME NEW c \in Clients,
               \A d \in Clients \ {c} : phase[d] \in Over /\ phase'[d] = phase[d],
               Installing(c)'
        PROVE  Alone' /\ \A d \in Clients : Installing(d)'
    <3>1. \A d \in Clients \ {c} : Installing(d)'
      BY <2>1 DEF Installing, Over
    <3>2. Alone'
      BY <2>1 DEF Alone
    <3>3. QED
      BY <2>1, <3>1, <3>2
  <2>2. ASSUME NEW c \in Clients, phase[c] \notin {"online", "deploying"},
               phase'[c] # "deploying",
               UNCHANGED <<service, at, job, target, ready>>,
               \A d \in Clients \ {c} : phase'[d] = phase[d] /\ cur'[d] = cur[d]
        PROVE  OnlyAgent' /\ \A d \in Clients : Calling(d)'
    <3>1. at[c] = "idle" /\ ready[c] = 0
      BY <2>0, <2>2 DEF Calling
    <3>2. Calling(c)'
      BY <2>2, <3>1 DEF Calling
    <3>3. \A d \in Clients \ {c} : Calling(d)'
      BY <2>0, <2>2 DEF Calling
    <3>4. QED
      BY <2>0, <2>2, <3>2, <3>3 DEF OnlyAgent
  <2>3. ASSUME NEW c \in Clients, Start(c)
        PROVE  InstallSound'
    <3>1. /\ UNCHANGED <<service, at, job, target, ready, file>>
          /\ \A d \in Clients \ {c} : phase'[d] = phase[d] /\ cur'[d] = cur[d]
          /\ \A d \in Clients : phase[d] \in Over
          /\ phase[c] \in Over
      BY <2>0, <2>3 DEF Start, Enter, RegistrationTypeOK, serviceVars, dockerVars, callVars,
         apiVars
    <3>2. \/ phase'[c] = "load"
          \/ phase'[c] = "ask" /\ ~ (Pending(file) /\ file.version > 0)
      BY <2>0, <2>3 DEF Start, Enter, RegistrationTypeOK, Pending
    <3>3. Pending(file) => file.version > 0
      <4>1. ASSUME Pending(file)
            PROVE  file.version > 0
        <5>1. file.pending /\ Known(file)
          BY <2>0, <4>1 DEF Pending, IsConnection
        <5>2. PICK v \in Versions : file = Credential(v, FALSE)
          BY <5>1, KnownPending
        <5>3. file.version = v
          BY <5>2, CredentialIs
        <5>4. QED
          BY <5>3, ServiceAssumption
      <4>2. QED
        BY <4>1
    <3>4. Installing(c)'
      BY <3>1, <3>2, <3>3 DEF Installing, Pending, IsConnection
    <3>5. Alone' /\ \A d \in Clients : Installing(d)'
      BY <2>1, <3>1, <3>4
    <3>6. OnlyAgent' /\ \A d \in Clients : Calling(d)'
      BY <2>2, <3>1, <3>2 DEF Over
    <3>7. QED
      BY <2>0, <3>1, <3>5, <3>6 DEF InstallSound
  <2>4. ASSUME NEW c \in Clients, Ask(c) \/ Load(c) \/ GiveUp(c) \/ CleanUp(c)
        PROVE  InstallSound'
    <3>1. /\ UNCHANGED <<service, at, job, target, ready>>
          /\ phase[c] \in {"ask", "load", "bad", "good"}
          /\ \A d \in Clients \ {c} : phase'[d] = phase[d] /\ cur'[d] = cur[d]
      BY <2>0, <2>4 DEF Ask, Load, GiveUp, CleanUp, Enter, RegistrationTypeOK, serviceVars,
         dockerVars, callVars, apiVars
    <3>2. phase'[c] \in {"truncate", "failed", "dial", "done"}
      BY <2>0, <2>4 DEF Ask, Load, GiveUp, CleanUp, Enter, RegistrationTypeOK
    <3>3. Installing(c)'
      <4>1. CASE Ask(c)
        <5>1. \/ phase'[c] = "failed"
              \/ /\ phase'[c] = "truncate" /\ ~ Pending(file)
                 /\ \E t \in Tokens : cur'[c] = Fresh(t)
          BY <2>0, <4>1 DEF Ask, Enter, RegistrationTypeOK, Installing
        <5>2. file' = file
          BY <4>1 DEF Ask
        <5>3. QED
          BY <5>1, <5>2 DEF Installing, Pending, IsConnection
      <4>2. CASE Load(c)
        <5>1. \/ phase'[c] = "failed"
              \/ /\ phase'[c] = "dial" /\ IsConnection(file)
                 /\ cur'[c] = file /\ conf'[c] = file
          BY <2>0, <4>2 DEF Load, Enter, RegistrationTypeOK
        <5>2. file' = file /\ (IsConnection(file) => Known(file))
          BY <2>0, <4>2 DEF Load, IsConnection
        <5>3. QED
          BY <5>1, <5>2 DEF Installing, Known
      <4>3. CASE GiveUp(c) \/ CleanUp(c)
        <5>1. phase'[c] \in {"failed", "done"}
          BY <2>0, <4>3 DEF GiveUp, CleanUp, Enter, RegistrationTypeOK
        <5>2. QED
          BY <5>1 DEF Installing
      <4>4. QED
        BY <2>4, <4>1, <4>2, <4>3
    <3>4. \A d \in Clients \ {c} : phase[d] \in Over
      BY <2>0, <3>1 DEF Alone, Over
    <3>5. Alone' /\ \A d \in Clients : Installing(d)'
      BY <2>1, <3>1, <3>3, <3>4
    <3>6. OnlyAgent' /\ \A d \in Clients : Calling(d)'
      BY <2>2, <3>1, <3>2
    <3>7. file' = file \/ file' = Absent
      BY <2>4 DEF Ask, Load, GiveUp, CleanUp
    <3>8. file' \in {Absent, Empty} \/ Known(file)'
      BY <2>0, <3>7 DEF Known
    <3>9. QED
      BY <3>5, <3>6, <3>8 DEF InstallSound
  <2>5. ASSUME NEW c \in Clients, Connect(c), UNCHANGED starts
        PROVE  InstallSound'
    <3>1. phase[c] \notin Over
      BY <2>5 DEF Connect, Dial, ReadyNew, ReadyKnown, Lose, Save, Truncate, Write,
         DeployCall, DeployRequest, DeployReturn, Over
    <3>2. \A d \in Clients \ {c} : phase[d] \in Over /\ phase'[d] = phase[d]
      BY <2>0, <2>5, <3>1, ConnectElsewhere DEF Alone
    <3>3. Alone' /\ \A d \in Clients : Installing(d)'
      BY <2>0, <2>1, <2>5, <3>2, ConnectInstalling
    <3>4. OnlyAgent' /\ \A d \in Clients : Calling(d)'
      BY <2>0, <2>5, ConnectCalling, ConnectDeploys
    <3>5. file' \in {Absent, Empty} \/ Known(file)'
      <4>1. \/ file' = file
            \/ file' = Empty
            \/ phase[c] = "write" /\ file' = cur[c]
        BY <2>5 DEF Connect, Dial, ReadyNew, ReadyKnown, Lose, Save, Truncate, Write,
           DeployCall, DeployRequest, DeployReturn
      <4>2. phase[c] = "write" => Known(cur[c])
        BY <2>0 DEF Installing, Known
      <4>3. QED
        BY <2>0, <4>1, <4>2 DEF Known
    <3>6. QED
      BY <3>3, <3>4, <3>5 DEF InstallSound
  <2>6. ASSUME NEW c \in Clients, Kill(c)
        PROVE  InstallSound'
    <3>1. /\ UNCHANGED <<service, file>>
          /\ phase[c] \notin Over /\ phase'[c] = "failed" /\ at'[c] = "idle" /\ ready'[c] = 0
          /\ \A d \in Clients \ {c} : /\ phase'[d] = phase[d] /\ at'[d] = at[d]
                                      /\ job'[d] = job[d] /\ target'[d] = target[d]
                                      /\ ready'[d] = ready[d] /\ cur'[d] = cur[d]
      BY <2>0, <2>6
      DEF Kill, Enter, RegistrationTypeOK, ServiceTypeOK, dockerVars
    <3>2. Calling(c)' /\ Installing(c)'
      BY <3>1 DEF Calling, Installing
    <3>3. \A d \in Clients \ {c} : Calling(d)'
      BY <2>0, <3>1 DEF Calling
    <3>4. \A d \in Clients \ {c} : phase[d] \in Over
      BY <2>0, <3>1 DEF Alone
    <3>5. Alone' /\ \A d \in Clients : Installing(d)'
      BY <2>1, <3>1, <3>2, <3>4
    <3>6. QED
      BY <2>0, <3>1, <3>2, <3>3, <3>5 DEF InstallSound, OnlyAgent, Known
  <2>7. ASSUME UNCHANGED <<file, phase, conf, cur, service, at>>,
               \A d \in Clients : Calling(d)'
        PROVE  InstallSound'
    <3>1. ASSUME NEW d \in Clients
          PROVE  Installing(d)'
      <4>1. Installing(d)
        BY <2>0
      <4>2. QED
        BY <2>7, <4>1, ZenonT(40) DEF Installing, Known, Pending, IsConnection, Deployed, Succeeds
    <3>2. OnlyAgent' /\ Alone' /\ (file' \in {Absent, Empty} \/ Known(file)')
      BY <2>0, <2>7 DEF OnlyAgent, Alone, Known
    <3>3. QED
      BY <2>7, <3>1, <3>2 DEF InstallSound
  <2>8. CASE Api /\ UNCHANGED starts
    BY <2>0, <2>7, <2>8, ApiCalling
  <2>9. CASE UNCHANGED installVars
    <3>1. UNCHANGED <<service, at, job, target, ready, file, phase, conf, cur>>
      BY <2>9 DEF installVars, regVars, serviceVars, dockerVars, callVars, apiVars, connVars
    <3>2. \A d \in Clients : Calling(d)'
      BY <2>0, <3>1 DEF Calling
    <3>3. QED
      BY <2>7, <3>1, <3>2
  <2>10. QED
    BY <2>3, <2>4, <2>5, <2>6, <2>8, <2>9 DEF InstallNext, Command
<1>3. QED
  BY <1>1, <1>2, InstallTypeCorrect, PTL DEF InstallSpec

\* A command that reports the installation leaves the service it registered.
THEOREM InstalledDeployed ==
    ASSUME ~ Overlap
    PROVE  InstallSpec => InstalledIsDeployed
<1> DEFINE Allowed == \A c \in Clients : phase[c] # "done" /\ phase'[c] = "done" =>
                          Deployed(cur[c].version)
<1>1. InstallTypeOK /\ InstallSound /\ [InstallNext]_installVars => [Allowed]_installVars
  <2> SUFFICES ASSUME InstallTypeOK, InstallSound, InstallNext,
                      NEW c \in Clients, phase[c] # "done", phase'[c] = "done"
               PROVE  Deployed(cur[c].version)
    OBVIOUS
  <2>0. RegistrationTypeOK /\ OnlyAgent /\ \A d \in Clients : Calling(d) /\ Installing(d)
    BY DEF InstallTypeOK, InstallSound
  <2>1. ASSUME NEW d \in Clients, Connect(d)
        PROVE  FALSE
    <3>1. CASE d = c
      BY <2>0, <2>1, <3>1
      DEF Connect, Dial, ReadyNew, ReadyKnown, Lose, Save, Truncate, Write, DeployCall,
          DeployRequest, DeployReturn, Enter, connVars, RegistrationTypeOK
    <3>2. CASE d # c
      BY <2>0, <2>1, <3>2, ConnectElsewhere
    <3>3. QED
      BY <3>1, <3>2
  <2>2. ASSUME NEW d \in Clients, Start(d) \/ Ask(d) \/ Load(d) \/ GiveUp(d) \/ Kill(d)
        PROVE  FALSE
    BY <2>0, <2>2 DEF Start, Ask, Load, GiveUp, Kill, Enter, RegistrationTypeOK
  <2>3. ~ Api
    BY <2>0, ApiCalling
  <2>4. phase[c] = "good"
    <3>1. PICK d \in Clients : CleanUp(d)
      BY <2>1, <2>2, <2>3 DEF InstallNext, Command
    <3>2. d = c
      BY <2>0, <3>1 DEF CleanUp, Enter, RegistrationTypeOK
    <3>3. QED
      BY <3>1, <3>2 DEF CleanUp
  <2>5. PICK v \in Versions : cur[c] = Credential(v, TRUE) /\ Deployed(v)
    BY <2>0, <2>4 DEF Installing
  <2>6. QED
    BY <2>5, CredentialIs
<1>2. QED
  BY <1>1, InstallTypeCorrect, InstallCorrect, PTL DEF InstallSpec, InstalledIsDeployed

\* A credential in the file is neither removed nor overwritten before it is
\* deployed.
THEOREM CredentialNotLost ==
    ASSUME ~ Overlap
    PROVE  InstallSpec => CredentialKept
<1> DEFINE Allowed == IsConnection(file) /\ file.pending /\ file' # file =>
                          Deployed(file.version)
<1>1. InstallTypeOK /\ InstallSound /\ [InstallNext]_installVars => [Allowed]_installVars
  <2> SUFFICES ASSUME InstallTypeOK, InstallSound, InstallNext,
                      IsConnection(file), file.pending, file' # file
               PROVE  Deployed(file.version)
    OBVIOUS
  <2>0. RegistrationTypeOK /\ \A d \in Clients : Calling(d) /\ Installing(d)
    BY DEF InstallTypeOK, InstallSound
  <2>1. PICK c \in Clients : Truncate(c) \/ Write(c) \/ CleanUp(c)
    <3>1. ~ Api
      BY <2>0, ApiCalling
    <3>2. QED
      BY <3>1
      DEF InstallNext, Command, Start, Ask, Load, GiveUp, Kill, Connect, Dial, ReadyNew,
          ReadyKnown, Lose, Save, DeployCall, DeployRequest, DeployReturn
  <2>2. CASE Truncate(c)
    <3>1. PICK v \in Versions, done \in BOOLEAN :
            file = Credential(v, done) /\ Deployed(v)
      BY <2>0, <2>2 DEF Truncate, Installing, Pending
    <3>2. QED
      BY <3>1, CredentialIs
  <2>3. CASE Write(c)
    BY <2>0, <2>3 DEF Write, Installing, IsConnection
  <2>4. CASE CleanUp(c)
    <3>1. PICK v \in Versions : file = Credential(v, TRUE) /\ Deployed(v)
      BY <2>0, <2>4 DEF CleanUp, Installing
    <3>2. QED
      BY <3>1, CredentialIs
  <2>5. QED
    BY <2>1, <2>2, <2>3, <2>4
<1>2. QED
  BY <1>1, InstallTypeCorrect, InstallCorrect, PTL DEF InstallSpec, CredentialKept

=============================================================================
