------------------------------- MODULE AgentRun -------------------------------
(***************************************************************************)
(* galaxy-agent run (cmd/docker/agent.go): one process that keeps a        *)
(* connection for the configuration file, reloads the file every five      *)
(* seconds and restarts the connection when its configuration changed.     *)
(*                                                                         *)
(* The connection changes that file itself, so the reload cancels a        *)
(* connection that is in the middle of a deployment and starts another     *)
(* one; and it reads the file without agentConfigWriteLock.                *)
(***************************************************************************)
EXTENDS AgentRegistration

CONSTANTS
    None,         \* no connection
    MaxBootstraps,\* how often galaxy-agent bootstrap rewrites the file
    MaxCrashes    \* how often the process dies and is started again

ASSUME RunAssumption ==
    /\ None \notin Clients
    /\ OneProcess
    /\ MaxBootstraps \in Nat
    /\ MaxCrashes \in Nat

VARIABLES
    active,       \* the connection in the map active, or None
    bootstraps,   \* how often the file was rewritten
    crashes       \* how often the process died

supervisor == <<active, bootstraps, crashes>>
runVars == <<regVars, supervisor>>

\* galaxy-agent bootstrap has written a Bootstrap Token.
RunInit ==
    /\ RegistrationInit
    /\ \E t \in Tokens : file = Fresh(t)
    /\ active = None
    /\ bootstraps = 0
    /\ crashes = 0

Resting == {"idle", "done", "failed"}

\* A goroutine that is free to become the next connection.
Spare(c) == phase[c] \in Resting

\* Variant for the mutation runs: what is no longer configured is forgotten,
\* and not cancelled.
ReconcileForgets(next) ==
    LET keep == active # None /\ next # None /\ conf[active] = next
        wanted == next # None /\ (next # None => ~ next.disabled)
    IN  IF keep THEN UNCHANGED <<phase, conf, cur, stopped, active>>
        ELSE \E c \in Clients \union {None} :
            /\ IF wanted THEN c # None /\ Spare(c) ELSE c = None
            /\ active' = c
            /\ stopped' = [d \in Clients |-> d # c /\ stopped[d]]
            /\ phase' = [d \in Clients |-> IF d = c THEN "dial" ELSE phase[d]]
            /\ conf' = [d \in Clients |-> IF d = c THEN next ELSE conf[d]]
            /\ cur' = [d \in Clients |-> IF d = c THEN next ELSE cur[d]]

\* reconcile: the connection whose configuration is gone or different is
\* cancelled, and the one of the file started, unless it is disabled.
Reconcile(next) ==
    LET keep == active # None /\ next # None /\ conf[active] = next
        wanted == next # None /\ (next # None => ~ next.disabled)
    IN  IF keep THEN UNCHANGED <<phase, conf, cur, stopped, active>>
        ELSE \E c \in Clients \union {None} :
            /\ IF wanted THEN c # None /\ Spare(c) ELSE c = None
            /\ active' = c
            /\ stopped' = [d \in Clients |->
                  IF d = c THEN FALSE ELSE d = active \/ stopped[d]]
            /\ phase' = [d \in Clients |-> IF d = c THEN "dial" ELSE phase[d]]
            /\ conf' = [d \in Clients |-> IF d = c THEN next ELSE conf[d]]
            /\ cur' = [d \in Clients |-> IF d = c THEN next ELSE cur[d]]

\* The ticker, and the start of the process.  A file that is not there keeps
\* what is running; one that is read while it is written has no connection.
Reload ==
    /\ file # Absent
    /\ Reconcile(IF file = Empty THEN None ELSE file)
    /\ UNCHANGED <<serviceVars, file, apiVars, bootstraps, crashes>>

\* Variant for the mutation runs: runConnection returns after an error.
AgainGivesUp(c) ==
    /\ phase[c] = "bad"
    /\ Enter(c, "failed")
    /\ UNCHANGED <<serviceVars, file, apiVars, conf, cur, stopped, supervisor>>

\* runConnection: after an error the next dial is made with the configuration
\* the connection was started with, not with the credential it has saved.
Again(c) ==
    /\ phase[c] = "bad"
    /\ IF stopped[c] THEN Enter(c, "failed") /\ UNCHANGED cur
       ELSE /\ Enter(c, "dial")
            /\ cur' = [cur EXCEPT ![c] = conf[c]]
    /\ UNCHANGED <<serviceVars, file, apiVars, conf, stopped, supervisor>>

\* connectOnce returned without error; the map active keeps the connection.
Finished(c) ==
    /\ phase[c] = "good"
    /\ Enter(c, "done")
    /\ UNCHANGED <<serviceVars, file, apiVars, conf, cur, stopped, supervisor>>

\* galaxy-agent bootstrap, by the operator, while the agent runs.
Bootstrap ==
    /\ bootstraps < MaxBootstraps
    /\ bootstraps' = bootstraps + 1
    /\ \E t \in fresh : file' = Fresh(t)
    /\ UNCHANGED <<serviceVars, apiVars, connVars, active, crashes>>

\* The process dies with all its connections; what is started instead begins
\* with the next Reload.
Crash ==
    /\ crashes < MaxCrashes
    /\ crashes' = crashes + 1
    /\ active' = None
    /\ phase' = [c \in Clients |-> "idle"]
    /\ ready' = [c \in Clients |-> 0]
    /\ at' = [c \in Clients |-> "idle"]
    /\ job' = [c \in Clients |-> NoJob]
    /\ target' = [c \in Clients |-> Agent]
    /\ seen' = [c \in Clients |-> NoService]
    /\ current' = [c \in Clients |-> FALSE]
    /\ UNCHANGED <<dockerVars, file, fresh, issued, breaks, conf, cur, stopped,
                   bootstraps>>

Worker(c) ==
    \/ Connect(c) /\ UNCHANGED supervisor
    \/ Again(c) \/ Finished(c)

RunNext ==
    \/ \E c \in Clients : Worker(c)
    \/ Reload
    \/ Bootstrap
    \/ Crash
    \/ Api /\ UNCHANGED supervisor

RunSpec == RunInit /\ [][RunNext]_runVars

\* The goroutines and the ticker of the process run, and Docker answers some
\* day.
RunFairness ==
    /\ \A c \in Clients : WF_runVars(Worker(c))
    /\ WF_runVars(Reload)
    /\ WF_runVars(Recover /\ UNCHANGED <<file, apiVars, connVars, supervisor>>)

RunFairSpec == RunSpec /\ RunFairness

-----------------------------------------------------------------------------
(* Properties.                                                             *)

\* At most one connection has not been told to end, although cancelled ones go
\* on deploying ("一个 galaxy-agent 配置只能绑定一个 Swarm 集群").
OneConnection ==
    \A c, d \in Clients :
        phase[c] \notin Resting /\ phase[d] \notin Resting
            /\ ~ stopped[c] /\ ~ stopped[d] => c = d

\* The agent disables itself only when the credential in its file is the one
\* the service runs with, however many connections deployed at a time, as long
\* as the operator does not replace the file (a cancelled connection does not
\* notice that, and may still deploy what it came with).
DisabledIsDeployed ==
    bootstraps = 0 /\ IsConnection(file) =>
        (file.disabled => Deployed(file.version))

\* What was registered and saved gets deployed and the agent disabled, though
\* the reload keeps cancelling the connection that does it, once the operator
\* has replaced the file and the process has died for the last time.  (A death
\* between the truncation and the write leaves no credential to deploy.)
RegistrationCompletes ==
    (IsConnection(file) /\ file.pending
        /\ bootstraps = MaxBootstraps /\ crashes = MaxCrashes)
        ~> IsConnection(file) /\ file.disabled

-----------------------------------------------------------------------------
(* A statement of the repository that the code does not keep.              *)

\* agent.go:528: a configuration that cannot be reloaded leaves the previous
\* one in use ("继续使用上一版本").
ReloadKeepsPrevious ==
    [][file = Empty /\ stopped' # stopped => FALSE]_runVars

=============================================================================
