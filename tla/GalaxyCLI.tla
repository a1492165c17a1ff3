------------------------------- MODULE GalaxyCLI -------------------------------
(***************************************************************************)
(* The command line (cmd/cmd.go, cmd/docker/docker.go): a process runs the *)
(* one command it was started with.  Commands that share no state, each    *)
(* with the host, the files or the cluster it works on; what belongs to    *)
(* another command stays as it is in some initial state of that one.       *)
(***************************************************************************)
EXTENDS SecureAPI, ProjectSync, ProjectDiff, MigrationPlan, ClientSession,
        ProjectBuild, HostsFile, ProjectFile, ResourceCommands, ReadCommands,
        RemoteCopy, RemoteTerminal, SelfUpgrade

VARIABLE command

\* "login": also logout and the commands that switch; "init": also switch and
\* delete project; "deploy": all commands on resources; "get": also info.
Commands == {"docker secure-api", "sync", "diff", "docker migrate", "login", "build",
             "hostctl", "init", "deploy", "get", "cp", "exec", "upgrade"}

-----------------------------------------------------------------------------
(* What a command finds that has nothing to do.                              *)

PlainHost ==
    /\ flags = "none" /\ loopback = TRUE
    /\ disk = [daemon |-> Absent, dropIn |-> Absent, certs |-> Absent, linked |-> FALSE]
EmptyProject ==
    /\ local = [p \in Paths |-> "absent"]
    /\ remote = [p \in Paths |-> "absent"]
\* A path that none is below begins as a file; diff is treated on few files.
LeavesAreFiles ==
    \A p \in Paths : (\A q \in Paths : p \notin Above[q]) => "dir" \notin {local[p], remote[p]}
FewFiles == \A p \in Paths : Above[p] # {} => local[p] = "absent" /\ remote[p] = "absent"
NoSession ==
    /\ config = Gone
    /\ session = [p \in Processes |-> Idle(CHOOSE i \in Invocations[p] : TRUE)]
NoBuild == step = "connect" /\ ci = NoLog /\ head = CHOOSE h \in Heads : TRUE
SomeHosts ==
    /\ hosts = CHOOSE f \in HostsFiles : TRUE
    /\ adding = CHOOSE r \in NewRoutes : TRUE
NoTask ==
    /\ projectFile = NoFile /\ tree = [remote |-> NoRepository, empty |-> TRUE]
    /\ catalog = [p \in ProjectIds |-> NoProject] /\ task = Begin("init")
SomeOrder ==
    /\ platform = CHOOSE p \in Platforms : TRUE
    /\ errand = Ready(CHOOSE o \in Orders : TRUE)
NoTrees ==
    /\ from = [p \in Spots |-> "absent"] /\ to = [p \in Spots |-> "absent"]
    /\ upload = TRUE
NoReading ==
    /\ query = CHOOSE q \in Queries : TRUE
    /\ context = CHOOSE c \in Contexts : TRUE
    /\ present = {}
NoTerminal == options = [single |-> TRUE, shell |-> FALSE, tty |-> FALSE]

CLIInit ==
    /\ command \in Commands
    /\ command # "docker secure-api" => PlainHost
    /\ command \notin {"sync", "diff"} => EmptyProject
    /\ command # "login" => NoSession
    /\ command # "build" => NoBuild
    /\ command # "hostctl" => SomeHosts
    /\ command # "init" => NoTask
    /\ command # "deploy" => SomeOrder
    /\ command # "get" => NoReading
    /\ command # "cp" => NoTrees
    /\ command # "exec" => NoTerminal
    /\ SecureInit /\ SyncInit /\ DiffInit /\ PlanInit /\ SessionInit /\ BuildInit
    /\ HostsInit /\ ProjectInit /\ ResourceInit /\ ReadInit /\ CopyInit /\ TerminalInit /\ UpgradeInit
    /\ LeavesAreFiles /\ (command = "diff" => FewFiles)

-----------------------------------------------------------------------------
containerVars == <<copyVars, terminalVars, readVars>>
syncVars == <<vars, diffVars>>
diskVars == <<secureVars, syncVars, planVars>>
platformVars == <<projectVars, resourceVars, containerVars>>
clientVars == <<sessionVars, buildVars, hostsVars, upgradeVars>>

\* NewGalaxyCommand, NewCmdDocker: the handler of the command, and what goes on
\* around it.
Execute ==
    \/ /\ command = "docker secure-api"
       /\ SecureNext
       /\ UNCHANGED <<command, syncVars, planVars, clientVars, platformVars>>
    \/ /\ command = "sync"
       /\ SyncNext
       /\ UNCHANGED <<command, secureVars, diffVars, planVars, clientVars, platformVars>>
    \/ /\ command = "diff"
       /\ DiffNext
       /\ UNCHANGED <<command, secureVars, planVars, clientVars, platformVars>>
    \/ /\ command = "docker migrate"
       /\ Check
       /\ UNCHANGED <<command, secureVars, syncVars, clientVars, platformVars>>
    \/ /\ command = "login"
       /\ SessionNext
       /\ UNCHANGED <<command, diskVars, buildVars, hostsVars, upgradeVars, platformVars>>
    \/ /\ command = "build"
       /\ BuildNext
       /\ UNCHANGED <<command, diskVars, sessionVars, hostsVars, upgradeVars, platformVars>>
    \/ /\ command = "hostctl"
       /\ HostsNext
       /\ UNCHANGED <<command, diskVars, sessionVars, buildVars, upgradeVars, platformVars>>
    \/ /\ command = "upgrade"
       /\ UpgradeNext
       /\ UNCHANGED <<command, diskVars, sessionVars, buildVars, hostsVars, platformVars>>
    \/ /\ command = "init"
       /\ ProjectNext
       /\ UNCHANGED <<command, diskVars, clientVars, resourceVars, containerVars>>
    \/ /\ command = "deploy"
       /\ ResourceNext
       /\ UNCHANGED <<command, diskVars, clientVars, projectVars, containerVars>>
    \/ /\ command = "cp"
       /\ CopyNext
       /\ UNCHANGED <<command, diskVars, clientVars, projectVars, resourceVars, terminalVars, readVars>>
    \/ /\ command = "get"
       /\ ReadNext
       /\ UNCHANGED <<command, diskVars, clientVars, projectVars, resourceVars, copyVars, terminalVars>>
    \/ /\ command = "exec"
       /\ TerminalNext
       /\ UNCHANGED <<command, diskVars, clientVars, projectVars, resourceVars, copyVars, readVars>>

CLISpec == CLIInit /\ [][Execute]_<<command, diskVars, clientVars, platformVars>>

-----------------------------------------------------------------------------
CLITypeOK == command \in Commands /\ SecureTypeOK /\ SyncTypeOK /\ PlanTypeOK /\ SessionTypeOK

(* A command that ends well has done what it was asked and nothing else, and   *)
(* one that fails leaves no more behind than each property says: init and what *)
(* belongs to a directory, the commands on resources, get and info, diff, cp   *)
(* and exec; with failures at every request, and with others who act in between. *)
DoneAsAsked ==
    /\ DirectoryIsBound /\ OnlyOrdered /\ ListedIsThere
    /\ command = "diff" => ComparedTruly
    /\ CopiedFaithfully /\ SessionIsShown

=============================================================================
