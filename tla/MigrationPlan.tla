----------------------------- MODULE MigrationPlan -----------------------------
(***************************************************************************)
(* What galaxy docker compose migrate and container migrate deploy: the    *)
(* check turns a Compose project, or one container, into a stack file      *)
(* (cmd/docker/compose_migration.go, container_migration.go).  The check   *)
(* goes on after a failure and reports all of them; the file is deployed   *)
(* only if there was none (SwarmMigration models what happens then).       *)
(*                                                                         *)
(* Data on a node does not move, and Swarm chooses the node: the file has  *)
(* to tie each service to the data it has there.                           *)
(***************************************************************************)
EXTENDS Naturals

CONSTANTS
    Nodes,        \* the nodes of the cluster
    Here,         \* the node the command runs on
    Attribute,    \* Attribute[n][key]: what placement constraints compare
    Volumes,      \* named volumes
    Remote,       \* those whose driver keeps the data outside the nodes
    Names,        \* names of services
    PortNumbers,  \* ports that services listen on
    Projects,     \* the Compose projects that may be there
    Workloads,    \* the standalone containers that may be there
    NoService,    \* no service of the name
    NoPlan        \* no file

Keys == DOMAIN Attribute[Here]
Values == {Attribute[n][k] : n \in Nodes, k \in Keys}
Hostname == Attribute[Here]["node.hostname"]

\* "path": a bind mount; "anonymous": a volume without a name; otherwise the
\* name of a volume; "npipe" stands for the types of mount that are refused.
Mounts == Volumes \union {"path", "anonymous", "tmpfs", "npipe"}
Constraints == [key : Keys, op : {"==", "!="}, value : Values]

\* How the port of the host is written for a port of the service.  "digits": a
\* number as a string, as docker compose config and docker inspect write it;
\* "huge": more digits than an int holds; "range": 8000-8010; "random": left to
\* Docker.
Unfit == {"digits", "huge", "range", "random"}
Ports == [PortNumbers -> Unfit \union {"closed", "number"}]

\* image: whether there is one; name: the name that Compose v2 writes at the root.
Services == [image : BOOLEAN, mounts : SUBSET Mounts, ports : Ports,
             constraints : SUBSET Constraints]
Documents == [name : BOOLEAN, services : [Names -> Services \union {NoService}]]

\* What Swarm cannot run: see generateContainerStack.
Modes == {"privileged", "rm", "device", "gpu", "link", "network", "pid", "ipc"}
Containers == [owner : {"nobody", "compose", "swarm"}, modes : SUBSET Modes, service : Services]

ASSUME PlanAssumption ==
    /\ Here \in Nodes /\ Names # {} /\ Remote \subseteq Volumes
    /\ Volumes \cap {"path", "anonymous", "tmpfs", "npipe"} = {}
    /\ \A n \in Nodes : DOMAIN Attribute[n] = Keys
    /\ "node.hostname" \in Keys
    /\ \A n \in Nodes \ {Here} : Attribute[n]["node.hostname"] # Hostname
    /\ NoService \notin Services /\ NoPlan \notin Documents \union Containers
    /\ Projects \subseteq Documents /\ Workloads \subseteq Containers

VARIABLES
    planStep,     \* the next step of the check
    source,       \* what is migrated: a project or a container
    content,      \* resolvedContent, or generatedContainerStack.Content
    failed,       \* a check has the status "失败"
    manager       \* localSwarmContext.Ready

planVars == <<planStep, source, content, failed, manager>>

PlanSteps == {"none", "config", "context", "place", "generate",
              "normalize", "inspect", "report", "ready", "refused"}

PlanTypeOK ==
    /\ planStep \in PlanSteps
    /\ source \in Documents \union Containers \union {NoPlan}
    /\ content \in Documents \union {NoPlan}
    /\ failed \in BOOLEAN /\ manager \in BOOLEAN

PlanInit ==
    /\ planStep = "none"
    /\ source = NoPlan /\ content = NoPlan
    /\ failed = FALSE /\ manager = FALSE

IsProject == source \in Documents

-----------------------------------------------------------------------------
(* The operators of the check.                                             *)

\* Variant for the mutation runs: only bind mounts are local.
UsesBindMount(s) == "path" \in s.mounts

\* composeVolumeUsesLocalDriver, composeServiceUsesLocalStorage.
UsesLocalStorage(s) == s.mounts \cap ((Volumes \ Remote) \union {"path", "anonymous"}) # {}

\* The constraints that applyComposeBindPlacement does not accept.
Conflicts(c) ==
    /\ c.key = "node.hostname"
    /\ c.op = "==" <=> c.value # Hostname

\* "node.hostname == <this node>", unless it is there already.
Pinned(s) ==
    [s EXCEPT !.constraints = @ \union
        {[key |-> "node.hostname", op |-> "==", value |-> Hostname]}]

\* normalizeComposeStackConfig: strings of digits become numbers.
Normalized(s) ==
    [s EXCEPT !.ports = [p \in PortNumbers |-> IF @[p] = "digits" THEN "number" ELSE @[p]]]

Publishes(s, F) == \E p \in PortNumbers : s.ports[p] \in F

ServicesOf(doc) == {n \in Names : doc.services[n] # NoService}

\* docker stack config: the schema has no root name, and wants numbers.
StackAccepts(doc) ==
    /\ ~ doc.name
    /\ \A n \in ServicesOf(doc) : ~ Publishes(doc.services[n], Unfit)

-----------------------------------------------------------------------------
(* The check of a Compose project.                                         *)

\* discoverComposeInput, and the names and the directory that runCheck looks
\* at first: any of them ends the check.
Discover(d) ==
    /\ planStep = "none"
    /\ source' = d
    /\ planStep' \in {"config", "refused"}
    /\ UNCHANGED <<content, failed, manager>>

\* docker compose config, and what analyzeComposeMigrationConfig refuses.
ResolveConfig ==
    /\ planStep = "config"
    /\ planStep' = "context"
    /\ \/ failed' = TRUE /\ UNCHANGED content
       \/ /\ content' = source
          /\ failed' \in {TRUE,
                 \/ ServicesOf(source) = {}
                 \/ \E n \in ServicesOf(source) : ~ source.services[n].image}
    /\ UNCHANGED <<source, manager>>

\* inspectLocalSwarmContext: the node is a manager and tells its name.
InspectContext ==
    /\ planStep = "context"
    /\ manager' \in BOOLEAN
    /\ failed' = (failed \/ ~ manager')
    /\ planStep' = IF IsProject THEN "place" ELSE "generate"
    /\ UNCHANGED <<source, content>>

LocalServices(doc) == {n \in ServicesOf(doc) : UsesLocalStorage(doc.services[n])}

Placed(doc) ==
    [doc EXCEPT !.services =
        [n \in Names |-> IF n \in LocalServices(doc) THEN Pinned(@[n]) ELSE @[n]]]

\* applyComposeBindPlacement; the file stays as it is if one of the services has
\* constraints against it.
Place ==
    /\ planStep = "place"
    /\ planStep' = "normalize"
    /\ IF ~ manager \/ content = NoPlan THEN UNCHANGED <<content, failed>>
       ELSE IF \E n \in LocalServices(content) :
                    \E c \in content.services[n].constraints : Conflicts(c)
         THEN failed' = TRUE /\ UNCHANGED content
         ELSE content' = Placed(content) /\ UNCHANGED failed
    /\ UNCHANGED <<source, manager>>

Numbered(doc) ==
    [name |-> FALSE,
     services |-> [n \in Names |-> IF doc.services[n] = NoService THEN NoService
                                   ELSE Normalized(doc.services[n])]]

Normalize ==
    /\ planStep = "normalize"
    /\ planStep' = "inspect"
    /\ IF content = NoPlan THEN UNCHANGED <<content, failed>>
       ELSE IF \E n \in ServicesOf(content) : Publishes(content.services[n], {"huge"})
         THEN failed' = TRUE /\ UNCHANGED content
         ELSE content' = Numbered(content) /\ UNCHANGED failed
    /\ UNCHANGED <<source, manager>>

-----------------------------------------------------------------------------
(* The check of a standalone container.                                    *)

\* docker inspect ends the check if there is no such container; a container
\* of somebody else, or a name that Swarm does not take, is a failure.
InspectContainer(w) ==
    /\ planStep = "none"
    /\ source' = w
    /\ planStep' \in {"context", "refused"}
    /\ failed' \in {TRUE, w.owner # "nobody"}
    /\ UNCHANGED <<content, manager>>

\* Variant for the mutation runs: ports that are left out are no failure.
UnconvertibleButPorts(w) == w.modes # {} \/ "npipe" \in w.service.mounts

\* strconv.Atoi fails on them.
NoNumber == {"huge", "range", "random"}

\* A port without a number on the host, and a mount of another type, are
\* failures and are not in the file; so are the modes that Swarm does not have.
Convertible(s) ==
    [Normalized(s) EXCEPT
        !.mounts = @ \ {"npipe"},
        !.ports = [p \in PortNumbers |-> IF @[p] \in NoNumber THEN "closed" ELSE @[p]],
        !.constraints = {}]
Unconvertible(w) ==
    \/ w.modes # {}
    \/ "npipe" \in w.service.mounts
    \/ Publishes(w.service, NoNumber)

ServiceName == CHOOSE n \in Names : TRUE

Single(s) ==
    [name |-> FALSE,
     services |-> [n \in Names |-> IF n = ServiceName THEN s ELSE NoService]]

\* generateContainerStack; the name of the node is known to a manager.
Generate ==
    /\ planStep = "generate"
    /\ planStep' = "inspect"
    /\ IF ~ source.service.image
         THEN failed' = TRUE /\ UNCHANGED content
         ELSE /\ failed' = (failed \/ Unconvertible(source))
              /\ LET s == Convertible(source.service) IN
                 content' = Single(IF manager THEN Pinned(s) ELSE s)
    /\ UNCHANGED <<source, manager>>

-----------------------------------------------------------------------------
(* Both.                                                                   *)

\* inspectSwarmPlan: the file is valid, and on a manager no stack has the name;
\* each of the two commands may fail.
InspectPlan ==
    /\ planStep = "inspect"
    /\ planStep' = "report"
    /\ failed' \in {TRUE, failed \/ (content # NoPlan /\ ~ StackAccepts(content))}
    /\ UNCHANGED <<source, content, manager>>

Report ==
    /\ planStep = "report"
    /\ planStep' = IF failed THEN "refused" ELSE "ready"
    /\ UNCHANGED <<source, content, failed, manager>>

Check ==
    \/ \E d \in Projects : Discover(d)
    \/ \E w \in Workloads : InspectContainer(w)
    \/ ResolveConfig \/ InspectContext \/ Place \/ Normalize
    \/ Generate \/ InspectPlan \/ Report

PlanSpec == PlanInit /\ [][Check]_planVars

-----------------------------------------------------------------------------
(* Properties.                                                             *)

Satisfies(n, c) == (Attribute[n][c.key] = c.value) = (c.op = "==")

\* The nodes on which Swarm may run the service s of the file.
Eligible(s) == {n \in Nodes : \A c \in s.constraints : Satisfies(n, c)}

\* The service of the source that became the service n of the file.
Before(n) == IF IsProject THEN source.services[n] ELSE source.service

\* What the running service has on this node and nowhere else.
LocalData(s) == {m \in s.mounts : m \in {"path", "anonymous"} \/ m \in Volumes \ Remote}

\* A service with data on this node cannot be started on another one by the file
\* that is deployed ("迁移时将固定到当前节点", compose_migration.go:922), nor can a
\* migrated container, whose ports were those of this node.
LocalDataStays ==
    planStep = "ready" =>
        \A n \in ServicesOf(content) :
            ~ IsProject \/ LocalData(Before(n)) # {}
                => Eligible(content.services[n]) \subseteq {Here}

\* A file that is deployed has every service of the source with its image, its
\* mounts and its ports, all of them numbers; constraints are only added
\* ("迁移会保留镜像、命令、入口、环境变量、端口、挂载", README.md:149).
NothingLost ==
    planStep = "ready" =>
        /\ IsProject => ServicesOf(content) = ServicesOf(source)
        /\ ServicesOf(content) # {}
        /\ \A n \in ServicesOf(content) :
              LET s == content.services[n] IN
              /\ s.image
              /\ s.mounts = Before(n).mounts
              /\ s.ports = [p \in PortNumbers |->
                               IF Before(n).ports[p] = "closed" THEN "closed" ELSE "number"]
              /\ IsProject => Before(n).constraints \subseteq s.constraints

\* README.md:96: constraints that name or exclude other nodes make the check
\* fail, "不会生成不可调度的 Stack".
PinnedIsSchedulable ==
    planStep = "ready" =>
        \A n \in ServicesOf(content) :
            LocalData(Before(n)) # {} => Eligible(content.services[n]) # {}

=============================================================================
