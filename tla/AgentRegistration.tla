-------------------------- MODULE AgentRegistration --------------------------
(***************************************************************************)
(* connectOnce of cmd/docker/agent.go as far as it registers a Swarm: the  *)
(* connection with a Bootstrap Token or a machine credential, the ready    *)
(* message, updateAgentBootstrapState on the configuration file and the    *)
(* deployment of the Global Agent Service (GlobalAgentService).            *)
(*                                                                         *)
(* A client of GlobalAgentService is here one connection.  How connections *)
(* are started and ended is said by AgentInstall and by AgentRun.          *)
(*                                                                         *)
(* The Galaxy API is external.  A Bootstrap Token registers the Swarm and  *)
(* yields a machine credential with a version no credential had before; it *)
(* may expire at any moment, and is used up by the registration at once or *)
(* later.                                                                  *)
(***************************************************************************)
EXTENDS GlobalAgentService

CONSTANTS
    Tokens,       \* Bootstrap Tokens
    Absent,       \* the configuration file does not exist
    Empty,        \* it was truncated and not yet written
    OneProcess,   \* TRUE: all connections are goroutines of one process
    MaxBreaks     \* bound on the connections that are lost or refused

ASSUME RegistrationAssumption ==
    /\ Tokens \intersect Nat = {}
    /\ OneProcess \in BOOLEAN
    /\ MaxBreaks \in Nat

VARIABLES
    file,         \* the configuration file
    fresh,        \* the Bootstrap Tokens the API still accepts
    issued,       \* the version of the credential the API issued last
    phase,        \* phase[c]: what connection c does next
    conf,         \* conf[c]: the configuration c was started with
    cur,          \* cur[c]: connectOnce's own copy, changed by ready
    ready,        \* ready[c]: the credential in a ready message underway to c
    stopped,      \* stopped[c]: the context of c is cancelled
    breaks        \* connections lost or refused so far

apiVars == <<fresh, issued, ready, breaks>>
connVars == <<phase, conf, cur, stopped>>
regVars == <<serviceVars, file, apiVars, connVars>>

\* The machine credential of version v is written as v.
Connection == [token : Tokens \union Versions \union {0}, version : Versions \union {0},
               pending : BOOLEAN, disabled : BOOLEAN]

NoConnection == [token |-> 0, version |-> 0, pending |-> FALSE, disabled |-> FALSE]

Fresh(t) == [NoConnection EXCEPT !.token = t]

IsConnection(f) == f \notin {Absent, Empty}

Phase == {"idle", "start", "ask", "load", "dial", "online", "save", "truncate",
          "write", "deploy", "deploying", "good", "bad", "remove", "done",
          "failed"}

RegistrationTypeOK ==
    /\ ServiceTypeOK
    /\ file \in Connection \union {Absent, Empty}
    /\ fresh \in SUBSET Tokens
    /\ issued \in Versions \union {0}
    /\ phase \in [Clients -> Phase]
    /\ conf \in [Clients -> Connection]
    /\ cur \in [Clients -> Connection]
    /\ ready \in [Clients -> Versions \union {0}]
    /\ stopped \in [Clients -> BOOLEAN]
    /\ breaks \in 0..MaxBreaks

RegistrationInit ==
    /\ ServiceInit
    /\ network = "none"
    /\ \A v \in Versions : secret[v] = "none"
    /\ \A n \in Names : service[n] = NoService
    /\ fresh = Tokens
    /\ issued = 0
    /\ phase = [c \in Clients |-> "idle"]
    /\ conf = [c \in Clients |-> NoConnection]
    /\ cur = [c \in Clients |-> NoConnection]
    /\ ready = [c \in Clients |-> 0]
    /\ stopped = [c \in Clients |-> FALSE]
    /\ breaks = 0

-----------------------------------------------------------------------------
Enter(c, p) == phase' = [phase EXCEPT ![c] = p]

\* Of a failure there is only a bounded number.
Broken == breaks < MaxBreaks /\ breaks' = breaks + 1

Accepts(t) == t \in fresh \/ (t \in Versions /\ t <= issued)

\* The dial, with the preflight requests to Docker before it.
Dial(c) ==
    /\ phase[c] = "dial"
    /\ \/ /\ ~ stopped[c]
          /\ Accepts(cur[c].token)
          /\ Enter(c, "online")
          /\ UNCHANGED breaks
       \/ /\ stopped[c]
          /\ Enter(c, "bad")
          /\ UNCHANGED breaks
       \/ /\ ~ stopped[c] /\ ~ Accepts(cur[c].token)
          /\ Enter(c, "bad")
          /\ UNCHANGED breaks
       \/ /\ Broken
          /\ Enter(c, "bad")
    /\ UNCHANGED <<serviceVars, file, fresh, issued, ready, conf, cur, stopped>>

\* The API registers the Swarm and sends ready with a new machine credential.
Register(c) ==
    /\ phase[c] = "online"
    /\ ready[c] = 0
    /\ cur[c].token \in fresh
    /\ issued + 1 \in Versions
    /\ issued' = issued + 1
    /\ ready' = [ready EXCEPT ![c] = issued + 1]
    /\ fresh' \in {fresh, fresh \ {cur[c].token}}
    /\ UNCHANGED <<serviceVars, file, breaks, connVars>>

\* 15 minutes have passed, or a new token was generated.
Expire(t) ==
    /\ t \in fresh
    /\ fresh' = fresh \ {t}
    /\ UNCHANGED <<serviceVars, file, issued, ready, breaks, connVars>>

\* ready with a machine credential: it has to be saved before anything else.
ReadyNew(c) ==
    /\ phase[c] = "online"
    /\ ready[c] # 0
    /\ cur' = [cur EXCEPT ![c].token = ready[c], ![c].version = ready[c],
                          ![c].pending = TRUE, ![c].disabled = FALSE]
    /\ ready' = [ready EXCEPT ![c] = 0]
    /\ Enter(c, "save")
    /\ UNCHANGED <<serviceVars, file, fresh, issued, breaks, conf, stopped>>

\* ready to a connection that already has its credential.
ReadyKnown(c) ==
    /\ phase[c] = "online"
    /\ cur[c].token \in Versions
    /\ cur[c].pending
    /\ Enter(c, "deploy")
    /\ UNCHANGED <<serviceVars, file, apiVars, conf, cur, stopped>>

\* The connection is lost, by the API's will or by the cancelled context; a
\* ready message underway is lost with it.  A connection that saves or
\* deploys does not notice.
Lose(c) ==
    /\ phase[c] = "online"
    /\ IF stopped[c] \/ (cur[c].token \in Tokens \ fresh /\ ready[c] = 0)
         THEN UNCHANGED breaks
         ELSE Broken
    /\ ready' = [ready EXCEPT ![c] = 0]
    /\ Enter(c, "bad")
    /\ UNCHANGED <<serviceVars, file, fresh, issued, conf, cur, stopped>>

-----------------------------------------------------------------------------
(* updateAgentBootstrapState: load, check, truncate, write.                *)

\* agentConfigWriteLock is held from the load to the end of the write, within
\* one process.
LockFree(c) ==
    OneProcess => \A d \in Clients \ {c} : phase[d] \notin {"truncate", "write"}

\* The token the file must still have: the one to be written, or, when a new
\* credential is saved, the one this connection came with.
Unchanged(c) == \/ file.token = cur[c].token
                \/ cur[c].pending /\ file.token = conf[c].token

Save(c) ==
    /\ phase[c] = "save"
    /\ LockFree(c)
    /\ Enter(c, IF IsConnection(file) /\ Unchanged(c) THEN "truncate" ELSE "bad")
    /\ UNCHANGED <<serviceVars, file, apiVars, conf, cur, stopped>>

\* os.WriteFile truncates the file before it writes.
Truncate(c) ==
    /\ phase[c] = "truncate"
    /\ file' = Empty
    /\ Enter(c, "write")
    /\ UNCHANGED <<serviceVars, apiVars, conf, cur, stopped>>

\* A new token is followed by runInstallConnection, a new credential by the
\* deployment, the end of the deployment by the end of the connection.
Write(c) ==
    /\ phase[c] = "write"
    /\ file' = cur[c]
    /\ Enter(c, IF cur[c].version = 0 THEN "load"
                ELSE IF cur[c].pending THEN "deploy" ELSE "good")
    /\ UNCHANGED <<serviceVars, apiVars, conf, cur, stopped>>

-----------------------------------------------------------------------------
(* The deployment, which no cancellation interrupts.                       *)

DeployCall(c) ==
    /\ phase[c] = "deploy"
    /\ \E j \in Jobs : j.version = cur[c].version /\ CallDeploy(c, j)
    /\ Enter(c, "deploying")
    /\ UNCHANGED <<file, apiVars, conf, cur, stopped>>

DeployRequest(c) ==
    /\ phase[c] = "deploying"
    /\ Requests(c)
    /\ UNCHANGED <<file, apiVars, connVars>>

\* Variant for the mutation runs: the state is updated though the deployment
\* failed.
DeployReturnAnyhow(c) ==
    /\ phase[c] = "deploying"
    /\ cur' = [cur EXCEPT ![c].pending = FALSE, ![c].disabled = TRUE]
    /\ Enter(c, "save")
    /\ Return(c)
    /\ UNCHANGED <<file, apiVars, conf, stopped>>

DeployReturn(c) ==
    /\ phase[c] = "deploying"
    /\ IF at[c] = "ok"
         THEN /\ cur' = [cur EXCEPT ![c].pending = FALSE, ![c].disabled = TRUE]
              /\ Enter(c, "save")
         ELSE Enter(c, "bad") /\ UNCHANGED cur
    /\ Return(c)
    /\ UNCHANGED <<file, apiVars, conf, stopped>>

Connect(c) ==
    \/ Dial(c) \/ ReadyNew(c) \/ ReadyKnown(c) \/ Lose(c)
    \/ Save(c) \/ Truncate(c) \/ Write(c)
    \/ DeployCall(c) \/ DeployRequest(c) \/ DeployReturn(c)

Api ==
    \/ \E c \in Clients : Register(c)
    \/ \E t \in Tokens : Expire(t)
    \/ Recover /\ UNCHANGED <<file, apiVars, connVars>>

\* The service runs with the credential of version v.
Deployed(v) == service[Agent].owner = "ours" /\ service[Agent].version = v

=============================================================================
