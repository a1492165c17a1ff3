----------------------------- MODULE AgentInstall -----------------------------
(***************************************************************************)
(* galaxy agent install (cmd/docker/agent.go): one-shot processes that     *)
(* share the file agent-install.yaml, each of which registers the Swarm or *)
(* resumes a registration, deploys, and removes the file.  A process may   *)
(* be killed between any two steps and started again; two may run at once. *)
(***************************************************************************)
EXTENDS AgentRegistration

CONSTANTS
    MaxStarts,    \* how often each client may begin a new registration
    Overlap       \* TRUE: two commands may run at the same time

ASSUME InstallAssumption == MaxStarts \in Nat /\ Overlap \in BOOLEAN

VARIABLES starts  \* starts[c]: how often c has begun a new registration

installVars == <<regVars, starts>>

InstallInit ==
    /\ RegistrationInit
    /\ file = Absent
    /\ starts = [c \in Clients |-> 0]

Over == {"idle", "done", "failed"}

\* Variant for the mutation runs: every command begins a new registration.
StartAnew(c) ==
    /\ phase[c] \in Over
    /\ Overlap \/ \A d \in Clients : phase[d] \in Over
    /\ starts[c] < MaxStarts
    /\ starts' = [starts EXCEPT ![c] = @ + 1]
    /\ Enter(c, "ask")
    /\ conf' = [conf EXCEPT ![c] = NoConnection]
    /\ cur' = [cur EXCEPT ![c] = NoConnection]
    /\ UNCHANGED <<serviceVars, file, apiVars, stopped>>

\* install: a saved credential that is not deployed yet is taken up again,
\* everything else begins anew.
Start(c) ==
    /\ phase[c] \in Over
    /\ Overlap \/ \A d \in Clients : phase[d] \in Over
    /\ IF IsConnection(file) /\ file.pending /\ file.version > 0
         THEN Enter(c, "load") /\ UNCHANGED starts
         ELSE /\ starts[c] < MaxStarts
              /\ starts' = [starts EXCEPT ![c] = @ + 1]
              /\ Enter(c, "ask")
    /\ conf' = [conf EXCEPT ![c] = NoConnection]
    /\ cur' = [cur EXCEPT ![c] = NoConnection]
    /\ UNCHANGED <<serviceVars, file, apiVars, stopped>>

\* The Bootstrap Token is read, the manager is tested, and the temporary
\* state is written over whatever is there.
Ask(c) ==
    /\ phase[c] = "ask"
    /\ \/ /\ \E t \in Tokens : cur' = [cur EXCEPT ![c] = Fresh(t)]
          /\ Enter(c, "truncate")
       \/ Enter(c, "failed") /\ UNCHANGED cur
    /\ UNCHANGED <<serviceVars, file, apiVars, conf, stopped, starts>>

\* runInstallConnection loads the file again.
Load(c) ==
    /\ phase[c] = "load"
    /\ IF IsConnection(file)
         THEN /\ conf' = [conf EXCEPT ![c] = file]
              /\ cur' = [cur EXCEPT ![c] = file]
              /\ Enter(c, "dial")
         ELSE Enter(c, "failed") /\ UNCHANGED <<conf, cur>>
    /\ UNCHANGED <<serviceVars, file, apiVars, stopped, starts>>

\* connectOnce is called once; an error leaves the file for the next command.
GiveUp(c) ==
    /\ phase[c] = "bad"
    /\ Enter(c, "failed")
    /\ UNCHANGED <<serviceVars, file, apiVars, conf, cur, stopped, starts>>

\* Variant for the mutation runs: a failed connection is taken for the end of
\* the installation.
CleanUpAnyhow(c) ==
    /\ phase[c] \in {"good", "bad"}
    /\ file' = Absent
    /\ Enter(c, "done")
    /\ UNCHANGED <<serviceVars, apiVars, conf, cur, stopped, starts>>

\* The command removes its file and reports that the agent is installed.
CleanUp(c) ==
    /\ phase[c] = "good"
    /\ file' = Absent
    /\ Enter(c, "done")
    /\ UNCHANGED <<serviceVars, apiVars, conf, cur, stopped, starts>>

\* The process dies between two steps; its Docker request is forgotten.
Kill(c) ==
    /\ phase[c] \notin Over
    /\ Broken
    /\ Enter(c, "failed")
    /\ at' = [at EXCEPT ![c] = "idle"]
    /\ job' = [job EXCEPT ![c] = NoJob]
    /\ target' = [target EXCEPT ![c] = Agent]
    /\ seen' = [seen EXCEPT ![c] = NoService]
    /\ current' = [current EXCEPT ![c] = FALSE]
    /\ ready' = [ready EXCEPT ![c] = 0]
    /\ UNCHANGED <<dockerVars, file, fresh, issued, conf, cur, stopped, starts>>

Command(c) ==
    \/ Ask(c) \/ Load(c) \/ GiveUp(c) \/ CleanUp(c)
    \/ Connect(c) /\ UNCHANGED starts

InstallNext ==
    \/ \E c \in Clients : Start(c) \/ Command(c) \/ Kill(c)
    \/ Api /\ UNCHANGED starts

InstallSpec == InstallInit /\ [][InstallNext]_installVars

\* A command that was started goes on, the API and, some day, Docker answer,
\* and a command that failed is repeated; nothing is assumed of the operator's
\* tokens.
InstallFairness ==
    /\ \A c \in Clients :
          /\ WF_installVars(Start(c))
          /\ WF_installVars(Command(c))
          /\ WF_installVars(Register(c) /\ UNCHANGED starts)
    /\ WF_installVars(Recover /\ UNCHANGED <<file, apiVars, connVars, starts>>)

InstallFairSpec == InstallSpec /\ InstallFairness

-----------------------------------------------------------------------------
(* Properties.                                                             *)

InstallTypeOK == RegistrationTypeOK /\ starts \in [Clients -> 0..MaxStarts]

\* A command that reports the installation leaves the service it registered.
InstalledIsDeployed ==
    [][\A c \in Clients : phase[c] # "done" /\ phase'[c] = "done" =>
          Deployed(cur[c].version)]_installVars

\* A machine credential in the file is not lost before it is deployed: until
\* then the file is neither removed nor overwritten, whatever failed in
\* between.  (Only the credential can continue the registration: the
\* Bootstrap Token is used up.)
CredentialKept ==
    [][IsConnection(file) /\ file.pending /\ file' # file =>
          Deployed(file.version)]_installVars

\* An installation that saved its credential ends with the service deployed,
\* without another Bootstrap Token, once the failures end and the command is
\* repeated.  (A kill after the deployment may leave the file behind.)
ResumeCompletes ==
    \A v \in Versions :
        IsConnection(file) /\ file.pending /\ file.version = v ~> Deployed(v)

=============================================================================
