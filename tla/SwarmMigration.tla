---------------------------- MODULE SwarmMigration ----------------------------
(***************************************************************************)
(* galaxy docker container migrate / galaxy docker compose migrate:        *)
(* cmd/docker/swarm_migration.go (the engine both commands share),         *)
(* container_migration.go and compose_migration.go (check, confirmation,   *)
(* stop, deploy, wait, roll back, cleanup).                                *)
(*                                                                         *)
(* Several invocations run at the same time on one Docker host; nothing in *)
(* the code serialises them.  One step of an invocation is one docker      *)
(* command or one answer of the operator, because between two of those     *)
(* anything else may happen on the host.                                   *)
(***************************************************************************)
EXTENDS DockerHost

CONSTANTS
    Migrations,   \* invocations of a migrate command
    Files,        \* Compose configuration files
    Kind,         \* Kind[m]: "container" or "compose"
    Source,       \* Source[m]: the containers of the source workload
    Stack,        \* Stack[m]: the target stack
    Planned,      \* Planned[m]: the services in the generated stack file
    Config,       \* Config[m]: the Compose files of the source project
    Waits,        \* values of --wait: "timed" (> 0), "none" (= 0), "negative"
    Failures,     \* the kinds of command that may fail, and "kill"
    MaxRuns       \* how often a migration is started, all of them together

ASSUME MigrationAssumption ==
    /\ Kind \in [Migrations -> {"container", "compose"}]
    /\ Source \in [Migrations -> SUBSET Containers]
    /\ Stack \in [Migrations -> Stacks]
    /\ Planned \in [Migrations -> (SUBSET Services) \ {{}}]
    /\ \A m \in Migrations : \A s \in Planned[m] : Namespace[s] = Stack[m]
    /\ \A m \in Migrations : Kind[m] = "container" => Cardinality(Source[m]) = 1
    /\ Config \in [Migrations -> SUBSET Files]
    /\ Waits \subseteq {"timed", "none", "negative"}
    /\ Failures \subseteq
         {"check", "query", "stop", "deploy", "rm", "start", "discard", "kill"}
    /\ MaxRuns \in Nat

VARIABLES
    pc,           \* pc[m]: the next command of m
    wait,         \* wait[m]: the sign of o.waitTimeout
    existing,     \* existing[m]: existingIDs (Compose) or the inspected ID
    running,      \* running[m]: runningIDs (Compose) or the container if wasRunning
    expired,      \* expired[m]: the deadline of the current wait has passed
    cleanup,      \* cleanup[m]: result of removeSwarmStackIfExists
    deletable,    \* deletable[m]: deletableConfigFiles
    outcome,      \* outcome[m]: what the invocation has reported so far
    file,         \* the configuration files that exist
    runs,         \* how often a migration was started
    downed,       \* history: the containers that this run of m has stopped
    deployed,     \* history: the services that this run of m has deployed
    sawReady      \* history: this run of m saw every service of its stack ready

flowVars == <<pc, wait, existing, running, expired, cleanup, deletable, outcome>>
historyVars == <<downed, deployed, sawReady>>
vars == <<hostVars, flowVars, file, runs, historyVars>>

Step == {"idle", "recheck", "confirm", "list", "listRunning", "stop", "deploy",
         "wait", "rollback", "stackRm", "drain", "restore", "partition",
         "prompt", "discard", "discardFiles", "done"}

Outcome == {"none", "refused", "cancelled", "stopFailed", "failed", "restored",
            "stranded", "migrated", "killed"}

TypeOK ==
    /\ HostTypeOK
    /\ pc \in [Migrations -> Step]
    /\ wait \in [Migrations -> Waits \union {"unset"}]
    /\ existing \in [Migrations -> SUBSET Containers]
    /\ running \in [Migrations -> SUBSET Containers]
    /\ expired \in [Migrations -> BOOLEAN]
    /\ cleanup \in [Migrations -> {"none", "ok", "failed"}]
    /\ deletable \in [Migrations -> SUBSET Files]
    /\ outcome \in [Migrations -> Outcome]
    /\ file \in SUBSET Files
    /\ runs \in Nat
    /\ downed \in [Migrations -> SUBSET Containers]
    /\ deployed \in [Migrations -> SUBSET Services]
    /\ sawReady \in [Migrations -> BOOLEAN]

Init ==
    /\ HostInit
    /\ pc = [m \in Migrations |-> "idle"]
    /\ wait = [m \in Migrations |-> "unset"]
    /\ existing = [m \in Migrations |-> {}]
    /\ running = [m \in Migrations |-> {}]
    /\ expired = [m \in Migrations |-> FALSE]
    /\ cleanup = [m \in Migrations |-> "none"]
    /\ deletable = [m \in Migrations |-> {}]
    /\ outcome = [m \in Migrations |-> "none"]
    /\ file = Files
    /\ runs = 0
    /\ downed = [m \in Migrations |-> {}]
    /\ deployed = [m \in Migrations |-> {}]
    /\ sawReady = [m \in Migrations |-> FALSE]

-----------------------------------------------------------------------------
Goto(m, step) == pc' = [pc EXCEPT ![m] = step]

\* The invocation returns and reports o.
Finish(m, o) ==
    /\ Goto(m, "done")
    /\ outcome' = [outcome EXCEPT ![m] = o]

CanFail(kind) == kind \in Failures

\* The command is started with one of the values of --wait.
Start(m) ==
    /\ runs < MaxRuns
    /\ runs' = runs + 1
    /\ \E w \in Waits : wait' = [wait EXCEPT ![m] = w]

\* The target stack carries no service: no conflict to report.
NoConflict(m) == ServicesOf(Stack[m]) = {}

\* Compose projects other than m's that docker compose ls --all lists, which
\* are those that still have a container, and the files they were started from.
ReferencedByOthers(m) ==
    UNION {Config[n] : n \in {n \in Migrations \ {m} :
        /\ Kind[n] = "compose"
        /\ Source[n] # Source[m]
        /\ \E c \in Source[n] : container[c] # "removed"}}

-----------------------------------------------------------------------------
(* Check and confirmation: nothing is changed yet.                         *)

\* runCheck of container_migration.go.  Whether the container will have to be
\* stopped, inspect.State.Running, is read here, before the confirmation.
CheckContainer(m) ==
    /\ pc[m] = "idle"
    /\ Kind[m] = "container"
    /\ Start(m)
    /\ \/ /\ NoConflict(m)
          /\ \A c \in Source[m] : container[c] # "removed"
          /\ existing' = [existing EXCEPT ![m] = Source[m]]
          /\ running' = [running EXCEPT ![m] = AliveOf(Source[m])]
          /\ Goto(m, "confirm")
          /\ UNCHANGED outcome
       \/ /\ \/ ~ NoConflict(m)
             \/ CanFail("check")
             \/ \E c \in Source[m] : container[c] = "removed"
          /\ Finish(m, "refused")
          /\ UNCHANGED <<existing, running>>
    /\ UNCHANGED <<hostVars, expired, cleanup, deletable, file, historyVars>>

\* runCheck of compose_migration.go; the containers are only counted here.
CheckCompose(m) ==
    /\ pc[m] = "idle"
    /\ Kind[m] = "compose"
    /\ Start(m)
    /\ \/ /\ NoConflict(m)
          /\ Goto(m, "recheck")
          /\ UNCHANGED outcome
       \/ /\ ~ NoConflict(m) \/ CanFail("check")
          /\ Finish(m, "refused")
    /\ UNCHANGED <<hostVars, existing, running, expired, cleanup, deletable,
                   file, historyVars>>

\* Compose only: runConvert validates the plan and asks for conflicts again,
\* still before the confirmation.
Recheck(m) ==
    /\ pc[m] = "recheck"
    /\ \/ /\ NoConflict(m)
          /\ Goto(m, "confirm")
          /\ UNCHANGED outcome
       \/ /\ ~ NoConflict(m) \/ CanFail("query")
          /\ Finish(m, "refused")
    /\ UNCHANGED <<hostVars, wait, existing, running, expired, cleanup,
                   deletable, file, runs, historyVars>>

\* confirmSwarmMigration: the operator types yes (or gave --yes), or not.
Confirm(m) ==
    /\ pc[m] = "confirm"
    /\ \/ /\ Goto(m, IF Kind[m] = "compose" THEN "list" ELSE "stop")
          /\ UNCHANGED outcome
       \/ Finish(m, "cancelled")
    /\ UNCHANGED <<hostVars, wait, existing, running, expired, cleanup,
                   deletable, file, runs, historyVars>>

\* docker compose ps -q lists the containers that are not stopped.
List(m) ==
    /\ pc[m] = "list"
    /\ \/ /\ existing' = [existing EXCEPT ![m] = AliveOf(Source[m])]
          /\ Goto(m, "listRunning")
          /\ UNCHANGED outcome
       \/ /\ CanFail("query")
          /\ Finish(m, "refused")
          /\ UNCHANGED existing
    /\ UNCHANGED <<hostVars, wait, running, expired, cleanup, deletable, file,
                   runs, historyVars>>

\* docker compose ps --status running -q lists those whose state is running.
ListRunning(m) ==
    /\ pc[m] = "listRunning"
    /\ \/ /\ running' = [running EXCEPT
                 ![m] = {c \in Source[m] : container[c] = "running"}]
          /\ Goto(m, "stop")
          /\ UNCHANGED outcome
       \/ /\ CanFail("query")
          /\ Finish(m, "refused")
          /\ UNCHANGED running
    /\ UNCHANGED <<hostVars, wait, existing, expired, cleanup, deletable, file,
                   runs, historyVars>>

-----------------------------------------------------------------------------
(* executeSwarmMigration.                                                  *)

\* Variant for the mutation runs: --wait=0 leads to the cleanup prompt as well.
AcceptedAlwaysPrompts(m) ==
    /\ Goto(m, IF Kind[m] = "container" THEN "prompt" ELSE "partition")
    /\ outcome' = [outcome EXCEPT ![m] = "migrated"]

\* The engine returned without error.  container_migration.go returns for
\* every wait that is not positive; compose_migration.go only for zero.
Accepted(m) ==
    LET next == IF Kind[m] = "container" /\ wait[m] = "timed" THEN "prompt"
                ELSE IF Kind[m] = "compose" /\ wait[m] # "none" THEN "partition"
                ELSE "done"
    IN  /\ Goto(m, next)
        /\ outcome' = [outcome EXCEPT ![m] = "migrated"]

\* source.Stop is nil when nothing was seen running.  An error of the stop
\* command returns at once: the engine does not call Restore.
StopSource(m) ==
    /\ pc[m] = "stop"
    /\ \/ /\ running[m] = {}
          /\ Goto(m, "deploy")
          /\ UNCHANGED <<container, outcome, downed>>
       \/ /\ running[m] # {}
          /\ \A c \in running[m] : container[c] # "removed"
          /\ StopContainers(running[m])
          /\ downed' = [downed EXCEPT ![m] = AliveOf(running[m])]
          /\ Goto(m, "deploy")
          /\ UNCHANGED outcome
       \/ /\ running[m] # {}
          /\ CanFail("stop") \/ \E c \in running[m] : container[c] = "removed"
          /\ \E D \in SUBSET running[m] :
                /\ StopContainers(D)
                /\ downed' = [downed EXCEPT ![m] = AliveOf(D)]
          /\ Finish(m, "stopFailed")
    /\ UNCHANGED <<service, drift, wait, existing, running, expired, cleanup,
                   deletable, file, runs, deployed, sawReady>>

\* docker stack deploy creates what is missing and updates what is there.
Deploy(m) ==
    /\ pc[m] = "deploy"
    /\ \/ /\ \A s \in Planned[m] : service[s] # "removing"
          /\ DeployServices(Planned[m])
          /\ deployed' = [deployed EXCEPT ![m] = Planned[m]]
          /\ IF wait[m] = "timed"
               THEN Goto(m, "wait") /\ UNCHANGED outcome
               ELSE Accepted(m)
       \/ /\ CanFail("deploy") \/ \E s \in Planned[m] : service[s] = "removing"
          /\ \E D \in SUBSET {s \in Planned[m] : service[s] # "removing"} :
                /\ DeployServices(D)
                /\ deployed' = [deployed EXCEPT ![m] = D]
          /\ Goto(m, "rollback")
          /\ UNCHANGED outcome
    /\ expired' = [expired EXCEPT ![m] = FALSE]
    /\ UNCHANGED <<container, drift, wait, existing, running, cleanup,
                   deletable, file, runs, downed, sawReady>>

\* The deadline of waitForSwarmStack or of waitForStackRemoval passes.
Expire(m) ==
    /\ pc[m] \in {"wait", "drain"}
    /\ ~ expired[m]
    /\ expired' = [expired EXCEPT ![m] = TRUE]
    /\ UNCHANGED <<hostVars, pc, wait, existing, running, cleanup, deletable,
                   outcome, file, runs, historyVars>>

\* Variant for the mutation runs: the deadline is never looked at.
PollForever(m) ==
    /\ pc[m] = "wait"
    /\ ServicesOf(Stack[m]) # {} /\ AllReplicasUp(Stack[m])
    /\ sawReady' = [sawReady EXCEPT ![m] = TRUE]
    /\ Accepted(m)
    /\ UNCHANGED <<hostVars, wait, existing, running, expired, cleanup,
                   deletable, file, runs, downed, deployed>>

\* One round of waitForSwarmStack.  The replicas are looked at before the
\* deadline, so a stack that is ready late is still accepted.
Poll(m) ==
    /\ pc[m] = "wait"
    /\ \/ /\ ServicesOf(Stack[m]) # {}
          /\ AllReplicasUp(Stack[m])
          /\ sawReady' = [sawReady EXCEPT ![m] = TRUE]
          /\ Accepted(m)
       \/ /\ \/ CanFail("query")
             \/ /\ expired[m]
                /\ ServicesOf(Stack[m]) = {} \/ ~ AllReplicasUp(Stack[m])
          /\ Goto(m, "rollback")
          /\ UNCHANGED <<outcome, sawReady>>
    /\ UNCHANGED <<hostVars, wait, existing, running, expired, cleanup,
                   deletable, file, runs, downed, deployed>>

-----------------------------------------------------------------------------
(* rollbackSwarmMigration.                                                 *)

\* Variant for the mutation runs: the stack is left alone.
RollbackLeavesStack(m) ==
    /\ pc[m] = "rollback"
    /\ cleanup' = [cleanup EXCEPT ![m] = "ok"]
    /\ Goto(m, "restore")
    /\ UNCHANGED <<hostVars, wait, existing, running, expired, deletable,
                   outcome, file, runs, historyVars>>

\* removeSwarmStackIfExists asks which services carry the stack's label.
Rollback(m) ==
    /\ pc[m] = "rollback"
    /\ \/ /\ ServicesOf(Stack[m]) # {}
          /\ Goto(m, "stackRm")
          /\ UNCHANGED cleanup
       \/ /\ ServicesOf(Stack[m]) = {}
          /\ cleanup' = [cleanup EXCEPT ![m] = "ok"]
          /\ Goto(m, "restore")
       \/ /\ CanFail("query")
          /\ cleanup' = [cleanup EXCEPT ![m] = "failed"]
          /\ Goto(m, "restore")
    /\ UNCHANGED <<hostVars, wait, existing, running, expired, deletable,
                   outcome, file, runs, historyVars>>

\* docker stack rm removes every service that carries the label, whoever
\* created it.
StackRm(m) ==
    /\ pc[m] = "stackRm"
    /\ \/ /\ RemoveServices(ServicesOf(Stack[m]))
          /\ Goto(m, "drain")
          /\ UNCHANGED cleanup
       \/ /\ CanFail("rm")
          /\ \E D \in SUBSET ServicesOf(Stack[m]) : RemoveServices(D)
          /\ cleanup' = [cleanup EXCEPT ![m] = "failed"]
          /\ Goto(m, "restore")
    /\ expired' = [expired EXCEPT ![m] = FALSE]
    /\ UNCHANGED <<container, drift, wait, existing, running, deletable,
                   outcome, file, runs, historyVars>>

\* Variant for the mutation runs: the wait for the removal has no deadline.
DrainForever(m) ==
    /\ pc[m] = "drain"
    /\ ServicesOf(Stack[m]) = {}
    /\ cleanup' = [cleanup EXCEPT ![m] = "ok"]
    /\ Goto(m, "restore")
    /\ UNCHANGED <<hostVars, wait, existing, running, expired, deletable,
                   outcome, file, runs, historyVars>>

\* waitForStackRemoval ends when nothing is listed, on an error and after 15s.
Drain(m) ==
    /\ pc[m] = "drain"
    /\ ServicesOf(Stack[m]) = {} \/ expired[m] \/ CanFail("query")
    /\ cleanup' = [cleanup EXCEPT ![m] = "ok"]
    /\ Goto(m, "restore")
    /\ UNCHANGED <<hostVars, wait, existing, running, expired, deletable,
                   outcome, file, runs, historyVars>>

\* Variant for the mutation runs: a failed cleanup returns before Restore.
RestoreAfterCleanupOnly(m) ==
    /\ pc[m] = "restore"
    /\ IF cleanup[m] = "failed" \/ running[m] = {}
         THEN Finish(m, "failed") /\ UNCHANGED container
         ELSE StartContainers(running[m]) /\ Finish(m, "restored")
    /\ UNCHANGED <<service, drift, wait, existing, running, expired, cleanup,
                   deletable, file, runs, historyVars>>

\* source.Restore, called whether or not the stack could be removed.
Restore(m) ==
    /\ pc[m] = "restore"
    /\ \/ /\ running[m] = {}
          /\ Finish(m, "failed")
          /\ UNCHANGED container
       \/ /\ running[m] # {}
          /\ \A c \in running[m] : container[c] # "removed"
          /\ StartContainers(running[m])
          /\ Finish(m, "restored")
       \/ /\ running[m] # {}
          /\ CanFail("start") \/ \E c \in running[m] : container[c] = "removed"
          /\ \E D \in SUBSET running[m] : StartContainers(D)
          /\ Finish(m, "stranded")
    /\ UNCHANGED <<service, drift, wait, existing, running, expired, cleanup,
                   deletable, file, runs, historyVars>>

-----------------------------------------------------------------------------
(* Cleanup after a migration that was accepted.                            *)

\* Variant for the mutation runs: the project list is not consulted.
PartitionAll(m) ==
    /\ pc[m] = "partition"
    /\ deletable' = [deletable EXCEPT ![m] = Config[m]]
    /\ Goto(m, "prompt")
    /\ UNCHANGED <<hostVars, wait, existing, running, expired, cleanup, outcome,
                   file, runs, historyVars>>

\* partitionComposeConfigFiles; an error keeps every file.
Partition(m) ==
    /\ pc[m] = "partition"
    /\ \/ deletable' = [deletable EXCEPT ![m] = Config[m] \ ReferencedByOthers(m)]
       \/ CanFail("query") /\ UNCHANGED deletable
    /\ Goto(m, "prompt")
    /\ UNCHANGED <<hostVars, wait, existing, running, expired, cleanup, outcome,
                   file, runs, historyVars>>

\* confirmStandaloneContainerCleanup: a second yes that --yes does not give.
PromptContainer(m) ==
    /\ pc[m] = "prompt"
    /\ Kind[m] = "container"
    /\ Goto(m, "discard") \/ Goto(m, "done")
    /\ UNCHANGED <<hostVars, wait, existing, running, expired, cleanup,
                   deletable, outcome, file, runs, historyVars>>

\* confirmComposeCleanup, for the containers and the files together.
PromptCompose(m) ==
    /\ pc[m] = "prompt"
    /\ Kind[m] = "compose"
    /\ \/ Goto(m, IF existing[m] = {} THEN "discardFiles" ELSE "discard")
       \/ Goto(m, "done")
    /\ UNCHANGED <<hostVars, wait, existing, running, expired, cleanup,
                   deletable, outcome, file, runs, historyVars>>

\* docker container rm of the standalone container.
DiscardContainer(m) ==
    /\ pc[m] = "discard"
    /\ Kind[m] = "container"
    /\ \/ RemoveContainers(existing[m])
       \/ CanFail("discard") /\ UNCHANGED container
    /\ Goto(m, "done")
    /\ UNCHANGED <<service, drift, wait, existing, running, expired, cleanup,
                   deletable, outcome, file, runs, historyVars>>

\* removeComposeContainers leaves out the containers that are already gone;
\* the files are kept when a container could not be removed.
DiscardCompose(m) ==
    /\ pc[m] = "discard"
    /\ Kind[m] = "compose"
    /\ LET left == {c \in existing[m] : container[c] # "removed"}
       IN  \/ /\ \A c \in left : container[c] = "exited"
              /\ RemoveContainers(left)
              /\ Goto(m, "discardFiles")
           \/ /\ CanFail("discard") \/ \E c \in left : container[c] # "exited"
              /\ \E D \in SUBSET left : RemoveContainers(D)
              /\ Goto(m, "done")
    /\ UNCHANGED <<service, drift, wait, existing, running, expired, cleanup,
                   deletable, outcome, file, runs, historyVars>>

\* removeComposeConfigFiles: a file that cannot be removed is reported and
\* the next one is tried.
DiscardFiles(m) ==
    /\ pc[m] = "discardFiles"
    /\ \/ file' = file \ deletable[m]
       \/ CanFail("discard") /\ \E D \in SUBSET deletable[m] : file' = file \ D
    /\ Goto(m, "done")
    /\ UNCHANGED <<hostVars, wait, existing, running, expired, cleanup,
                   deletable, outcome, runs, historyVars>>

-----------------------------------------------------------------------------
\* The process is interrupted: nothing in the code handles a signal.
Kill(m) ==
    /\ CanFail("kill")
    /\ pc[m] \notin {"idle", "done"}
    /\ Finish(m, "killed")
    /\ UNCHANGED <<hostVars, wait, existing, running, expired, cleanup,
                   deletable, file, runs, historyVars>>

\* The operator starts the same command again; a new process remembers nothing.
Again(m) ==
    /\ pc[m] = "done"
    /\ runs < MaxRuns
    /\ Goto(m, "idle")
    /\ wait' = [wait EXCEPT ![m] = "unset"]
    /\ existing' = [existing EXCEPT ![m] = {}]
    /\ running' = [running EXCEPT ![m] = {}]
    /\ expired' = [expired EXCEPT ![m] = FALSE]
    /\ cleanup' = [cleanup EXCEPT ![m] = "none"]
    /\ deletable' = [deletable EXCEPT ![m] = {}]
    /\ outcome' = [outcome EXCEPT ![m] = "none"]
    /\ downed' = [downed EXCEPT ![m] = {}]
    /\ deployed' = [deployed EXCEPT ![m] = {}]
    /\ sawReady' = [sawReady EXCEPT ![m] = FALSE]
    /\ UNCHANGED <<hostVars, file, runs>>

Before(m) == \/ CheckContainer(m) \/ CheckCompose(m) \/ Recheck(m)
             \/ Confirm(m) \/ List(m) \/ ListRunning(m)
Engine(m) == StopSource(m) \/ Deploy(m) \/ Expire(m) \/ Poll(m)
Undo(m)   == Rollback(m) \/ StackRm(m) \/ Drain(m) \/ Restore(m)
After(m)  == \/ Partition(m) \/ PromptContainer(m) \/ PromptCompose(m)
             \/ DiscardContainer(m) \/ DiscardCompose(m) \/ DiscardFiles(m)

Next ==
    \/ \E m \in Migrations : \/ Before(m) \/ Engine(m) \/ Undo(m) \/ After(m)
                             \/ Kill(m) \/ Again(m)
    \/ /\ HostNext
       /\ UNCHANGED <<flowVars, file, runs, historyVars>>

Spec == Init /\ [][Next]_vars

\* An invocation that is running executes its next command, and time passes.
\* Nothing is assumed of the operator, of the Swarm or of anybody else.
Fairness == \A m \in Migrations :
    /\ WF_vars(Engine(m))
    /\ WF_vars(Undo(m))

FairSpec == Spec /\ Fairness

-----------------------------------------------------------------------------
(* Properties.                                                             *)

Serving(m) == {s \in deployed[m] : service[s] \in {"starting", "ready"}}

\* An old container or a configuration file disappears only by the hand of a
\* migration that saw every service of its stack up, and a container only
\* once it is stopped: the cleanup prompts of both commands promise that the
\* old resources no longer serve (container_migration.go:409,
\* compose_migration.go:469).
DiscardOnlyAfterReady ==
    [][/\ \A c \in Containers :
             container[c] # "removed" /\ container'[c] = "removed" =>
                 /\ container[c] = "exited"
                 /\ \E m \in Migrations : c \in Source[m] /\ sawReady[m]
       /\ \A f \in file \ file' :
             \E m \in Migrations : f \in Config[m] /\ sawReady[m]]_vars

\* While nobody else touches the host, a container that a migration took over
\* and a service that it deployed never serve at the same time (they would
\* share ports, bind mounts and volumes), unless the rollback reported that
\* it could not remove the stack.
OneSideServes ==
    drift = 0 => \A m \in Migrations :
        AliveOf(running[m]) # {} /\ Serving(m) # {} => cleanup[m] = "failed"

\* A migration that ends by undoing itself and reports that the source was
\* restored leaves every container that it stopped running again, although
\* the removal of the stack may have failed in between.
RestoredSourceServes ==
    [][\A m \in Migrations :
          pc[m] # "done" /\ pc'[m] = "done" /\ outcome'[m] \in {"restored", "failed"}
              => \A c \in downed[m] : container'[c] \in Alive]_vars

\* What a migration reported as migrated stays deployed, whatever the other
\* migrations on the host do: true while no two of them use one stack.
MigratedStackStands ==
    \A m \in Migrations :
        outcome[m] = "migrated" =>
            \A s \in Planned[m] : service[s] \in {"starting", "ready"}

\* A Compose file is deleted only when no other project that still has a
\* container was started from it (partitionComposeConfigFiles), although the
\* list of those projects was read before the operator was asked.
SharedConfigKept ==
    [][\A f \in file \ file' : \E m \in Migrations :
          /\ pc[m] = "discardFiles"
          /\ f \notin ReferencedByOthers(m)]_vars

\* Once confirmed, the engine returns, whatever the Swarm does: no wait of it is
\* unbounded.
ConfirmedMigrationReturns ==
    \A m \in Migrations :
        pc[m] = "stop" ~> pc[m] \in {"partition", "prompt", "done"}

\* A failed deployment is followed by the attempt to restart the source,
\* whatever becomes of the stack, unless the process is killed.
FailureAttemptsRestore ==
    \A m \in Migrations :
        pc[m] = "rollback" ~>
            outcome[m] \in {"failed", "restored", "stranded", "killed"}

-----------------------------------------------------------------------------
(* A statement of the repository that the code does not keep.              *)

\* compose_migration.go:377 asks for the confirmation with the words
\* "失败时自动恢复源项目".
FailureRestoresSource ==
    [][\A m \in Migrations :
          pc[m] # "done" /\ pc'[m] = "done"
            /\ outcome'[m] \in {"stopFailed", "failed", "restored"}
              => \A c \in downed'[m] : container'[c] \in Alive]_vars

-----------------------------------------------------------------------------
(* The specification implements WorkloadHandover.                          *)

stage == [m \in Migrations |->
    IF outcome[m] # "migrated" THEN "open"
    ELSE IF sawReady[m] THEN "ready" ELSE "accepted"]

Handover == INSTANCE WorkloadHandover WITH container <- container, drift <- drift, stage <- stage

ImplementsHandover == Handover!Spec

=============================================================================
