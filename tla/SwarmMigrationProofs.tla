------------------------- MODULE SwarmMigrationProofs -------------------------
(***************************************************************************)
(* Type correctness of SwarmMigration, the promise WorkloadHandover kept   *)
(* by it, and which side of a migration serves, for every number of        *)
(* migrations, containers and services.                                    *)
(***************************************************************************)
EXTENDS SwarmMigration, TLAPS

\* The state of the host, which every type argument needs, stays a state of
\* the host under each of the docker commands of DockerHost.
LEMMA HostCommandTypes ==
    ASSUME HostTypeOK
    PROVE  /\ \A D \in SUBSET Containers :
                 /\ StopContainers(D) => container' \in [Containers -> ContainerState]
                 /\ StartContainers(D) => container' \in [Containers -> ContainerState]
                 /\ RemoveContainers(D) => container' \in [Containers -> ContainerState]
           /\ \A D \in SUBSET Services :
                 /\ DeployServices(D) => service' \in [Services -> ServiceState]
                 /\ RemoveServices(D) => service' \in [Services -> ServiceState]
  BY DEF HostTypeOK, StopContainers, StartContainers, RemoveContainers,
         DeployServices, RemoveServices, ContainerState, ServiceState

\* Whatever the Swarm or anybody else does keeps the host well-typed.
LEMMA HostNextTypes ==
    ASSUME HostTypeOK, HostNext
    PROVE  HostTypeOK'
<1>1. ASSUME NEW s \in Services, ServiceUp(s) \/ ServiceGone(s) \/ ServiceDown(s)
      PROVE  HostTypeOK'
  BY <1>1, HostAssumption DEF HostTypeOK, ServiceUp, ServiceGone, ServiceDown, ServiceState
<1>2. ASSUME NEW c \in Containers, ContainerDrift(c)
      PROVE  HostTypeOK'
  BY <1>2, HostAssumption DEF HostTypeOK, ContainerDrift, ContainerState
<1>3. QED
  BY <1>1, <1>2 DEF HostNext

\* A step that goes on, or returns, leaves the control state well-typed.
LEMMA ControlTypes ==
    ASSUME TypeOK, NEW m \in Migrations
    PROVE  /\ \A x \in Step : Goto(m, x) => pc' \in [Migrations -> Step]
           /\ \A o \in Outcome : Finish(m, o) =>
                 /\ pc' \in [Migrations -> Step]
                 /\ outcome' \in [Migrations -> Outcome]
  BY DEF TypeOK, Goto, Finish, Step

\* The control state after each action of a migration is well-typed.
LEMMA ActionControlTypes ==
    ASSUME TypeOK, NEW m \in Migrations,
           Before(m) \/ Engine(m) \/ Undo(m) \/ After(m) \/ Kill(m) \/ Again(m)
    PROVE  pc' \in [Migrations -> Step] /\ outcome' \in [Migrations -> Outcome]
<1> USE ControlTypes DEF Step, Outcome
<1>0. pc \in [Migrations -> Step] /\ outcome \in [Migrations -> Outcome]
  BY DEF TypeOK
<1>1. CASE Before(m)
  BY <1>0, <1>1 DEF Before, CheckContainer, CheckCompose, Recheck, Confirm, List, ListRunning
<1>2. CASE Engine(m)
  BY <1>0, <1>2 DEF Engine, StopSource, Deploy, Accepted, Expire, Poll
<1>3. CASE Undo(m)
  BY <1>0, <1>3 DEF Undo, Rollback, StackRm, Drain, Restore
<1>4. CASE After(m)
  BY <1>0, <1>4 DEF After, Partition, PromptContainer, PromptCompose,
     DiscardContainer, DiscardCompose, DiscardFiles
<1>5. CASE Kill(m)
  BY <1>0, <1>5 DEF Kill
<1>6. CASE Again(m)
  BY <1>0, <1>6 DEF Again
<1>7. QED
  BY <1>1, <1>2, <1>3, <1>4, <1>5, <1>6

\* Type correctness of the migration commands on every host.
THEOREM TypeCorrect == Spec => []TypeOK
<1>1. Init => TypeOK
  BY HostAssumption, MigrationAssumption
  DEF Init, TypeOK, HostInit, HostTypeOK, ContainerState, ServiceState, Step, Outcome
<1>2. TypeOK /\ [Next]_vars => TypeOK'
  <2> SUFFICES ASSUME TypeOK, [Next]_vars
               PROVE  TypeOK'
    OBVIOUS
  <2> USE HostAssumption, MigrationAssumption DEF TypeOK
  <2>1. ASSUME NEW m \in Migrations, Before(m)
        PROVE  TypeOK'
    <3>0. pc' \in [Migrations -> Step] /\ outcome' \in [Migrations -> Outcome]
      BY <2>1, ActionControlTypes
    <3>1. CASE CheckContainer(m)
      <4>1. /\ existing' \in [Migrations -> SUBSET Containers]
            /\ running' \in [Migrations -> SUBSET Containers]
        <5>1. /\ existing' \in {existing, [existing EXCEPT ![m] = Source[m]]}
              /\ running' \in {running, [running EXCEPT ![m] = AliveOf(Source[m])]}
          BY <3>1 DEF CheckContainer
        <5>2. Source[m] \in SUBSET Containers /\ AliveOf(Source[m]) \in SUBSET Containers
          BY DEF AliveOf
        <5>3. QED
          BY <5>1, <5>2
      <4>2. runs' \in Nat /\ wait' \in [Migrations -> Waits \union {"unset"}]
        BY <3>1 DEF CheckContainer, Start
      <4>3. QED
        BY <3>0, <3>1, <4>1, <4>2 DEF CheckContainer, hostVars, historyVars, HostTypeOK
    <3>2. CASE CheckCompose(m)
      BY <3>0, <3>2 DEF CheckCompose, Start, hostVars, historyVars, HostTypeOK
    <3>3. CASE Recheck(m)
      BY <3>0, <3>3 DEF Recheck, hostVars, historyVars, HostTypeOK
    <3>4. CASE Confirm(m)
      BY <3>0, <3>4 DEF Confirm, hostVars, historyVars, HostTypeOK
    <3>5. CASE List(m)
      BY <3>0, <3>5 DEF List, AliveOf, hostVars, historyVars, HostTypeOK
    <3>6. CASE ListRunning(m)
      <4>1. {c \in Source[m] : container[c] = "running"} \in SUBSET Containers
        OBVIOUS
      <4>2. running' \in [Migrations -> SUBSET Containers]
        BY <3>6, <4>1 DEF ListRunning
      <4>3. QED
        BY <4>2, <3>0, <3>6 DEF ListRunning, hostVars, historyVars, HostTypeOK
    <3>7. QED
      BY <2>1, <3>1, <3>2, <3>3, <3>4, <3>5, <3>6 DEF Before
  <2>2. ASSUME NEW m \in Migrations, Engine(m)
        PROVE  TypeOK'
    <3>0. pc' \in [Migrations -> Step] /\ outcome' \in [Migrations -> Outcome]
      BY <2>2, ActionControlTypes
    <3>1. CASE StopSource(m)
      <4>1. container' \in [Containers -> ContainerState]
        BY <3>1, HostCommandTypes DEF StopSource, HostTypeOK
      <4>2. downed' \in [Migrations -> SUBSET Containers]
        BY <3>1 DEF StopSource, AliveOf
      <4>3. QED
        BY <3>0, <3>1, <4>1, <4>2 DEF StopSource, HostTypeOK
    <3>2. CASE Deploy(m)
      <4>1. service' \in [Services -> ServiceState]
        BY <3>2, HostCommandTypes DEF Deploy, HostTypeOK
      <4>2. deployed' \in [Migrations -> SUBSET Services]
        BY <3>2 DEF Deploy
      <4>3. QED
        BY <3>0, <3>2, <4>1, <4>2 DEF Deploy, HostTypeOK
    <3>3. CASE Expire(m)
      BY <3>0, <3>3 DEF Expire, hostVars, historyVars, HostTypeOK
    <3>4. CASE Poll(m)
      BY <3>0, <3>4 DEF Poll, hostVars, HostTypeOK
    <3>5. QED
      BY <2>2, <3>1, <3>2, <3>3, <3>4 DEF Engine
  <2>3. ASSUME NEW m \in Migrations, Undo(m)
        PROVE  TypeOK'
    <3>0. pc' \in [Migrations -> Step] /\ outcome' \in [Migrations -> Outcome]
      BY <2>3, ActionControlTypes
    <3>1. CASE Rollback(m)
      BY <3>0, <3>1 DEF Rollback, hostVars, historyVars, HostTypeOK
    <3>2. CASE StackRm(m)
      <4>1. service' \in [Services -> ServiceState]
        BY <3>2, HostCommandTypes DEF StackRm, HostTypeOK, ServicesOf
      <4>2. QED
        BY <3>0, <3>2, <4>1 DEF StackRm, historyVars, HostTypeOK
    <3>3. CASE Drain(m)
      BY <3>0, <3>3 DEF Drain, hostVars, historyVars, HostTypeOK
    <3>4. CASE Restore(m)
      <4>1. container' \in [Containers -> ContainerState]
        BY <3>4, HostCommandTypes DEF Restore, HostTypeOK
      <4>2. QED
        BY <3>0, <3>4, <4>1 DEF Restore, historyVars, HostTypeOK
    <3>5. QED
      BY <2>3, <3>1, <3>2, <3>3, <3>4 DEF Undo
  <2>4. ASSUME NEW m \in Migrations, After(m)
        PROVE  TypeOK'
    <3>0. pc' \in [Migrations -> Step] /\ outcome' \in [Migrations -> Outcome]
      BY <2>4, ActionControlTypes
    <3>1. CASE Partition(m)
      BY <3>0, <3>1 DEF Partition, hostVars, historyVars, HostTypeOK
    <3>2. CASE PromptContainer(m) \/ PromptCompose(m)
      BY <3>0, <3>2 DEF PromptContainer, PromptCompose, hostVars, historyVars, HostTypeOK
    <3>3. CASE DiscardContainer(m)
      <4>1. container' \in [Containers -> ContainerState]
        BY <3>3, HostCommandTypes DEF DiscardContainer, HostTypeOK
      <4>2. QED
        BY <3>0, <3>3, <4>1 DEF DiscardContainer, historyVars, HostTypeOK
    <3>4. CASE DiscardCompose(m)
      <4>1. container' \in [Containers -> ContainerState]
        BY <3>4, HostCommandTypes DEF DiscardCompose, HostTypeOK
      <4>2. QED
        BY <3>0, <3>4, <4>1 DEF DiscardCompose, historyVars, HostTypeOK
    <3>5. CASE DiscardFiles(m)
      BY <3>0, <3>5 DEF DiscardFiles, hostVars, historyVars, HostTypeOK
    <3>6. QED
      BY <2>4, <3>1, <3>2, <3>3, <3>4, <3>5 DEF After
  <2>5. ASSUME NEW m \in Migrations, Kill(m) \/ Again(m)
        PROVE  TypeOK'
    <3>0. pc' \in [Migrations -> Step] /\ outcome' \in [Migrations -> Outcome]
      BY <2>5, ActionControlTypes
    <3>1. CASE Kill(m)
      BY <3>0, <3>1 DEF Kill, hostVars, historyVars, HostTypeOK
    <3>2. CASE Again(m)
      BY <3>0, <3>2 DEF Again, hostVars, HostTypeOK
    <3>3. QED
      BY <2>5, <3>1, <3>2
  <2>6. CASE HostNext /\ UNCHANGED <<flowVars, file, runs, historyVars>>
    BY <2>6, HostNextTypes DEF flowVars, historyVars
  <2>7. CASE UNCHANGED vars
    BY <2>7 DEF vars, hostVars, flowVars, historyVars, HostTypeOK
  <2>8. QED
    BY <2>1, <2>2, <2>3, <2>4, <2>5, <2>6, <2>7 DEF Next
<1>3. QED
  BY <1>1, <1>2, PTL DEF Spec

-----------------------------------------------------------------------------
(* The promise of WorkloadHandover.                                        *)

Working == Step \ {"idle", "partition", "prompt", "discard", "discardFiles", "done"}

\* What each invocation knows at each point of its course.
CourseOf(m) ==
    /\ pc[m] # "idle" => wait[m] \in Waits
    /\ running[m] \subseteq Source[m]
    /\ existing[m] \subseteq Source[m]
    /\ deletable[m] \subseteq Config[m]
    /\ pc[m] \in Working \union {"idle"} => outcome[m] = "none" /\ ~ sawReady[m]
    /\ pc[m] \in {"partition", "prompt", "discard", "discardFiles"} =>
          outcome[m] = "migrated" /\ sawReady[m]

Course == \A m \in Migrations : CourseOf(m)

\* A step of one migration leaves the course of the others alone.
LEMMA OthersUnchanged ==
    ASSUME TypeOK, NEW m \in Migrations, NEW n \in Migrations, n # m,
           Before(m) \/ Engine(m) \/ Undo(m) \/ After(m) \/ Kill(m) \/ Again(m)
    PROVE  /\ pc'[n] = pc[n] /\ wait'[n] = wait[n] /\ outcome'[n] = outcome[n]
           /\ running'[n] = running[n] /\ existing'[n] = existing[n]
           /\ deletable'[n] = deletable[n] /\ sawReady'[n] = sawReady[n]
<1> USE DEF TypeOK, Goto, Finish, historyVars
<1>1. CASE Before(m)
  BY <1>1 DEF Before, CheckContainer, CheckCompose, Start, Recheck, Confirm, List, ListRunning
<1>2. CASE Engine(m)
  BY <1>2 DEF Engine, StopSource, Deploy, Accepted, Expire, Poll
<1>3. CASE Undo(m)
  BY <1>3 DEF Undo, Rollback, StackRm, Drain, Restore
<1>4. CASE After(m)
  BY <1>4 DEF After, Partition, PromptContainer, PromptCompose,
     DiscardContainer, DiscardCompose, DiscardFiles
<1>5. CASE Kill(m) \/ Again(m)
  BY <1>5 DEF Kill, Again
<1>6. QED
  BY <1>1, <1>2, <1>3, <1>4, <1>5

\* The course of a migration is kept by its own steps.
LEMMA OwnCourse ==
    ASSUME TypeOK, NEW m \in Migrations, CourseOf(m), "negative" \notin Waits,
           Before(m) \/ Engine(m) \/ Undo(m) \/ After(m) \/ Kill(m) \/ Again(m)
    PROVE  CourseOf(m)'
<1> USE DEF TypeOK, CourseOf, Working, Step, Goto, Finish, historyVars
<1>1. CASE Before(m)
  <2>1. CASE CheckContainer(m)
    BY <2>1 DEF CheckContainer, Start, AliveOf
  <2>2. CASE CheckCompose(m)
    BY <2>2 DEF CheckCompose, Start
  <2>3. CASE Recheck(m) \/ Confirm(m)
    BY <2>3 DEF Recheck, Confirm
  <2>4. CASE List(m) \/ ListRunning(m)
    BY <2>4 DEF List, ListRunning, AliveOf
  <2>5. QED
    BY <1>1, <2>1, <2>2, <2>3, <2>4 DEF Before
<1>2. CASE Engine(m)
  <2>1. CASE StopSource(m) \/ Expire(m)
    BY <2>1 DEF StopSource, Expire
  <2>2. CASE Deploy(m)
    <3>1. wait[m] \in {"timed", "none"}
      BY <2>2, MigrationAssumption DEF Deploy
    <3>2. \/ pc'[m] \in {"wait", "rollback"} /\ outcome' = outcome
          \/ pc'[m] = "done"
      BY <2>2, <3>1 DEF Deploy, Accepted
    <3>3. UNCHANGED <<wait, running, existing, deletable, sawReady>>
      BY <2>2 DEF Deploy
    <3>4. pc[m] = "deploy"
      BY <2>2 DEF Deploy
    <3>5. QED
      BY <3>1, <3>2, <3>3, <3>4
  <2>3. CASE Poll(m)
    BY <2>3 DEF Poll, Accepted
  <2>4. QED
    BY <1>2, <2>1, <2>2, <2>3 DEF Engine
<1>3. CASE Undo(m)
  BY <1>3 DEF Undo, Rollback, StackRm, Drain, Restore
<1>4. CASE After(m)
  BY <1>4 DEF After, Partition, PromptContainer, PromptCompose,
     DiscardContainer, DiscardCompose, DiscardFiles
<1>5. CASE Kill(m) \/ Again(m)
  BY <1>5 DEF Kill, Again
<1>6. QED
  BY <1>1, <1>2, <1>3, <1>4, <1>5

\* Every migration keeps its course, provided --wait is not negative.
THEOREM CourseKept == "negative" \notin Waits /\ Spec => []Course
<1> SUFFICES ASSUME "negative" \notin Waits
             PROVE  Spec => []Course
  OBVIOUS
<1>1. Init => Course
  BY MigrationAssumption DEF Init, Course, CourseOf, Working, Step
<1>2. TypeOK /\ Course /\ [Next]_vars => Course'
  <2> SUFFICES ASSUME TypeOK, Course, [Next]_vars, NEW n \in Migrations
               PROVE  CourseOf(n)'
    BY DEF Course
  <2>1. CourseOf(n)
    BY DEF Course
  <2>2. ASSUME NEW m \in Migrations,
               Before(m) \/ Engine(m) \/ Undo(m) \/ After(m) \/ Kill(m) \/ Again(m)
        PROVE  CourseOf(n)'
    <3>1. CASE n = m
      BY <2>1, <2>2, <3>1, OwnCourse
    <3>2. CASE n # m
      BY <2>1, <2>2, <3>2, OthersUnchanged DEF CourseOf
    <3>3. QED
      BY <3>1, <3>2
  <2>3. CASE UNCHANGED <<flowVars, historyVars>>
    BY <2>1, <2>3 DEF flowVars, historyVars, CourseOf
  <2>4. QED
    BY <2>2, <2>3 DEF Next, vars
<1>3. QED
  BY <1>1, <1>2, TypeCorrect, PTL DEF Spec

\* Containers and files are discarded only by a migration that saw its stack
\* ready, for every number of migrations: the cleanup prompts keep their word
\* when --wait is not negative.
THEOREM DiscardSafe == "negative" \notin Waits /\ Spec => DiscardOnlyAfterReady
<1> SUFFICES ASSUME "negative" \notin Waits
             PROVE  Spec => DiscardOnlyAfterReady
  OBVIOUS
<1> DEFINE Allowed ==
      /\ \A c \in Containers :
            container[c] # "removed" /\ container'[c] = "removed" =>
                /\ container[c] = "exited"
                /\ \E m \in Migrations : c \in Source[m] /\ sawReady[m]
      /\ \A f \in file \ file' :
            \E m \in Migrations : f \in Config[m] /\ sawReady[m]
<1>1. TypeOK /\ Course /\ [Next]_vars => [Allowed]_vars
  <2> SUFFICES ASSUME TypeOK, Course, Next
               PROVE  Allowed
    OBVIOUS
  <2> USE DEF TypeOK, HostTypeOK, hostVars
  <2>1. ASSUME NEW m \in Migrations, Before(m) \/ Kill(m) \/ Again(m)
        PROVE  UNCHANGED <<container, file>>
    BY <2>1 DEF Before, CheckContainer, CheckCompose, Recheck, Confirm, List,
       ListRunning, Kill, Again
  <2>2. ASSUME NEW m \in Migrations, Engine(m) \/ Undo(m)
        PROVE  /\ \A c \in Containers : container'[c] = "removed" => container[c] = "removed"
               /\ UNCHANGED file
    <3>1. CASE Engine(m)
      BY <3>1 DEF Engine, StopSource, Deploy, Expire, Poll, StopContainers
    <3>2. CASE Undo(m)
      BY <3>2 DEF Undo, Rollback, StackRm, Drain, Restore, StartContainers
    <3>3. QED
      BY <2>2, <3>1, <3>2
  <2>3. ASSUME NEW m \in Migrations, After(m)
        PROVE  Allowed
    <3>1. CourseOf(m)
      BY DEF Course
    <3>2. CASE Partition(m) \/ PromptContainer(m) \/ PromptCompose(m)
      BY <3>2 DEF Partition, PromptContainer, PromptCompose
    <3>3. CASE DiscardContainer(m) \/ DiscardCompose(m)
      BY <3>1, <3>3 DEF DiscardContainer, DiscardCompose, RemoveContainers, CourseOf
    <3>4. CASE DiscardFiles(m)
      BY <3>1, <3>4 DEF DiscardFiles, CourseOf
    <3>5. QED
      BY <2>3, <3>2, <3>3, <3>4 DEF After
  <2>4. CASE HostNext /\ UNCHANGED <<flowVars, file, runs, historyVars>>
    BY <2>4 DEF HostNext, ServiceUp, ServiceGone, ServiceDown, ContainerDrift
  <2>5. QED
    BY <2>1, <2>2, <2>3, <2>4 DEF Next
<1>2. QED
  BY <1>1, TypeCorrect, CourseKept, PTL DEF Spec, DiscardOnlyAfterReady

\* The docker commands on containers are the moves of the promise.
LEMMA CommandsAreMoves ==
    ASSUME NEW D \in SUBSET Containers
    PROVE  /\ StopContainers(D) => Handover!Move(D, {"running", "restarting"}, "exited")
           /\ StartContainers(D) => Handover!Move(D, {"exited"}, "running")
           /\ RemoveContainers(D) => Handover!Move(D, {"exited"}, "removed")
  BY DEF StopContainers, StartContainers, RemoveContainers, Handover!Move, AliveOf, Alive

\* One step of a migration is a step of the promise or leaves it alone.
LEMMA StepHandover ==
    ASSUME TypeOK, NEW m \in Migrations, CourseOf(m),
           Before(m) \/ Engine(m) \/ Undo(m) \/ After(m) \/ Kill(m) \/ Again(m)
    PROVE  Handover!Next \/ UNCHANGED Handover!hvars
<1> USE DEF TypeOK, HostTypeOK, hostVars, historyVars, Goto, Finish, stage, Handover!hvars
<1>0. /\ running[m] \in SUBSET Source[m]
      /\ existing[m] \in SUBSET Source[m]
  BY DEF CourseOf
<1>1. CASE Before(m)
  <2>1. outcome[m] = "none" /\ outcome'[m] # "migrated"
    BY <1>1 DEF Before, CheckContainer, CheckCompose, Recheck, Confirm, List,
       ListRunning, CourseOf, Working, Step
  <2>2. UNCHANGED <<container, drift, sawReady>>
    BY <1>1 DEF Before, CheckContainer, CheckCompose, Recheck, Confirm, List, ListRunning
  <2>3. \A n \in Migrations \ {m} : outcome'[n] = outcome[n]
    BY <1>1 DEF Before, CheckContainer, CheckCompose, Recheck, Confirm, List, ListRunning
  <2>4. stage' = stage
    BY <2>1, <2>2, <2>3
  <2>5. QED
    BY <2>2, <2>4
<1>2. CASE StopSource(m)
  <2>1. stage' = stage /\ stage[m] = "open" /\ drift' = drift
    <3>1. outcome[m] = "none" /\ outcome'[m] # "migrated"
      BY <1>2 DEF StopSource, CourseOf, Working, Step
    <3>2. \A n \in Migrations \ {m} : outcome'[n] = outcome[n]
      BY <1>2 DEF StopSource
    <3>3. UNCHANGED <<drift, sawReady>>
      BY <1>2 DEF StopSource
    <3>4. QED
      BY <3>1, <3>2, <3>3
  <2>2. container' = container \/ \E D \in SUBSET running[m] : StopContainers(D)
    BY <1>2 DEF StopSource
  <2>3. container' = container \/
        \E D \in SUBSET Source[m] : Handover!Move(D, {"running", "restarting"}, "exited")
    BY <1>0, <2>2, MigrationAssumption, CommandsAreMoves
  <2>4. QED
    BY <2>1, <2>3 DEF Handover!Next, Handover!Halt
<1>3. CASE Deploy(m) \/ Poll(m) \/ Expire(m)
  <2>1. container' = container /\ drift' = drift /\ stage[m] = "open"
    BY <1>3 DEF Deploy, Poll, Expire, CourseOf, Working, Step
  <2>2. stage' = stage \/ \E x \in {"accepted", "ready"} : stage' = [stage EXCEPT ![m] = x]
    <3>0. outcome[m] = "none" /\ ~ sawReady[m]
      BY <1>3 DEF Deploy, Poll, Expire, CourseOf, Working, Step
    <3>1. CASE Deploy(m)
      <4>1. sawReady' = sawReady
        BY <3>1 DEF Deploy
      <4>2. CASE outcome' = outcome
        BY <4>1, <4>2
      <4>3. CASE outcome' = [outcome EXCEPT ![m] = "migrated"]
        <5>1. stage' = [stage EXCEPT ![m] = "accepted"]
          BY <3>0, <4>1, <4>3
        <5>2. QED
          BY <5>1
      <4>4. QED
        BY <3>1, <4>2, <4>3 DEF Deploy, Accepted
    <3>2. CASE Poll(m)
      <4>1. CASE UNCHANGED <<outcome, sawReady>>
        BY <4>1
      <4>2. CASE /\ outcome' = [outcome EXCEPT ![m] = "migrated"]
                 /\ sawReady' = [sawReady EXCEPT ![m] = TRUE]
        <5>1. stage' = [stage EXCEPT ![m] = "ready"]
          BY <4>2
        <5>2. QED
          BY <5>1
      <4>3. QED
        BY <3>2, <4>1, <4>2 DEF Poll, Accepted
    <3>3. CASE Expire(m)
      BY <3>3 DEF Expire
    <3>4. QED
      BY <1>3, <3>1, <3>2, <3>3
  <2>3. QED
    BY <2>1, <2>2 DEF Handover!Next, Handover!HandOver
<1>4. CASE Undo(m)
  <2>1. stage' = stage /\ stage[m] = "open" /\ drift' = drift
    <3>1. outcome[m] = "none" /\ outcome'[m] # "migrated"
      BY <1>4 DEF Undo, Rollback, StackRm, Drain, Restore, CourseOf, Working, Step
    <3>2. \A n \in Migrations \ {m} : outcome'[n] = outcome[n]
      BY <1>4 DEF Undo, Rollback, StackRm, Drain, Restore
    <3>3. UNCHANGED <<drift, sawReady>>
      BY <1>4 DEF Undo, Rollback, StackRm, Drain, Restore
    <3>4. QED
      BY <3>1, <3>2, <3>3
  <2>2. container' = container \/ \E D \in SUBSET running[m] : StartContainers(D)
    BY <1>4 DEF Undo, Rollback, StackRm, Drain, Restore
  <2>3. container' = container \/
        \E D \in SUBSET Source[m] : Handover!Move(D, {"exited"}, "running")
    BY <1>0, <2>2, MigrationAssumption, CommandsAreMoves
  <2>4. QED
    BY <2>1, <2>3 DEF Handover!Next, Handover!Revive
<1>5. CASE After(m)
  <2>1. stage' = stage /\ stage[m] = "ready" /\ drift' = drift
    <3>1. outcome[m] = "migrated" /\ sawReady[m]
      BY <1>5 DEF After, Partition, PromptContainer, PromptCompose, DiscardContainer,
         DiscardCompose, DiscardFiles, CourseOf
    <3>2. UNCHANGED <<drift, outcome, sawReady>>
      BY <1>5 DEF After, Partition, PromptContainer, PromptCompose, DiscardContainer,
         DiscardCompose, DiscardFiles
    <3>3. QED
      BY <3>1, <3>2
  <2>2. container' = container \/ \E D \in SUBSET existing[m] : RemoveContainers(D)
    BY <1>5 DEF After, Partition, PromptContainer, PromptCompose, DiscardContainer,
       DiscardCompose, DiscardFiles
  <2>3. container' = container \/
        \E D \in SUBSET Source[m] : Handover!Move(D, {"exited"}, "removed")
    BY <1>0, <2>2, MigrationAssumption, CommandsAreMoves
  <2>4. QED
    BY <2>1, <2>3 DEF Handover!Next, Handover!Discard
<1>6. CASE Kill(m) \/ Again(m)
  <2>1. UNCHANGED <<container, drift>>
    BY <1>6 DEF Kill, Again
  <2>2. stage' = [stage EXCEPT ![m] = "open"]
    BY <1>6 DEF Kill, Again
  <2>3. QED
    BY <2>1, <2>2 DEF Handover!Next, Handover!Close
<1>7. QED
  BY <1>1, <1>2, <1>3, <1>4, <1>5, <1>6 DEF Engine

\* The migration commands implement WorkloadHandover: containers are stopped
\* and started only while a migration is open, and deleted only once its
\* stack was seen ready.
THEOREM Implementation == "negative" \notin Waits /\ Spec => ImplementsHandover
<1> SUFFICES ASSUME "negative" \notin Waits
             PROVE  Spec => ImplementsHandover
  OBVIOUS
<1>1. Init => Handover!Init
  BY DEF Init, HostInit, Handover!Init, Handover!Present, stage, ContainerState
<1>2. TypeOK /\ Course /\ [Next]_vars => [Handover!Next]_(Handover!hvars)
  <2> SUFFICES ASSUME TypeOK, Course, [Next]_vars
               PROVE  Handover!Next \/ UNCHANGED Handover!hvars
    OBVIOUS
  <2>1. ASSUME NEW m \in Migrations,
               Before(m) \/ Engine(m) \/ Undo(m) \/ After(m) \/ Kill(m) \/ Again(m)
        PROVE  Handover!Next \/ UNCHANGED Handover!hvars
    BY <2>1, StepHandover DEF Course
  <2>2. CASE HostNext /\ UNCHANGED <<flowVars, file, runs, historyVars>>
    <3>1. stage' = stage
      BY <2>2 DEF stage, flowVars, historyVars
    <3>2. CASE \E s \in Services : ServiceUp(s) \/ ServiceGone(s)
      BY <3>1, <3>2 DEF ServiceUp, ServiceGone, Handover!hvars
    <3>3. CASE \E s \in Services : ServiceDown(s)
      BY <3>1, <3>3 DEF ServiceDown, Handover!Next, Handover!Drift, Handover!Present,
         TypeOK, HostTypeOK, ContainerState
    <3>4. CASE \E c \in Containers : ContainerDrift(c)
      BY <3>1, <3>4 DEF ContainerDrift, Handover!Next, Handover!Drift, Handover!Present,
         TypeOK, HostTypeOK, ContainerState
    <3>5. QED
      BY <2>2, <3>2, <3>3, <3>4 DEF HostNext
  <2>3. CASE UNCHANGED vars
    BY <2>3 DEF vars, hostVars, flowVars, historyVars, stage, Handover!hvars
  <2>4. QED
    BY <2>1, <2>2, <2>3 DEF Next
<1>3. QED
  BY <1>1, <1>2, TypeCorrect, CourseKept, PTL DEF Spec, ImplementsHandover, Handover!Spec

-----------------------------------------------------------------------------
(* One side serves.                                                        *)

StepOf(m) == Before(m) \/ Engine(m) \/ Undo(m) \/ After(m) \/ Kill(m) \/ Again(m)

\* No two migrations are about the same container or the same stack.
Separate ==
    \A m, n \in Migrations : m # n => Source[m] \cap Source[n] = {} /\ Stack[m] # Stack[n]

Fresh == {"idle", "recheck", "confirm", "list", "listRunning", "stop"}
Halted == {"deploy", "wait", "rollback", "stackRm", "drain"}

\* What a run has listed, stopped and deployed is of its own workload.
OwnOf(m) ==
    /\ running[m] \subseteq Source[m] /\ existing[m] \subseteq Source[m]
    /\ deployed[m] \subseteq Planned[m] /\ downed[m] \subseteq running[m]
    /\ pc[m] \in Fresh => deployed[m] = {} /\ downed[m] = {}
    /\ pc[m] \in Fresh \union Halted \union {"restore"} => outcome[m] = "none"
    /\ pc[m] \in {"partition", "prompt", "discard", "discardFiles"} => outcome[m] = "migrated"

\* From the stop to the restoration the source is down, and before it is started
\* again the stack does not serve, unless its removal failed.
SidesOf(m) ==
    /\ drift = 0 /\ pc[m] \in Halted => AliveOf(running[m]) = {}
    /\ pc[m] = "drain" \/ (pc[m] = "restore" /\ cleanup[m] # "failed") => Serving(m) = {}
    /\ drift = 0 => AliveOf(running[m]) = {} \/ Serving(m) = {} \/ cleanup[m] = "failed"
    /\ pc[m] = "wait" \/ outcome[m] = "migrated" =>
          \A s \in Planned[m] : service[s] \in {"starting", "ready"}

Own == \A m \in Migrations : OwnOf(m)
Sides == \A m \in Migrations : SidesOf(m)

\* A run keeps to its own workload.
LEMMA StepOwn ==
    ASSUME TypeOK, NEW m \in Migrations, OwnOf(m), StepOf(m)
    PROVE  OwnOf(m)'
<1> USE DEF TypeOK, OwnOf, Fresh, Halted, Goto, Finish, historyVars
<1>1. CASE Before(m)
  <2>1. CASE CheckContainer(m)
    BY <2>1 DEF CheckContainer, Start, AliveOf
  <2>2. CASE CheckCompose(m) \/ Recheck(m) \/ Confirm(m)
    BY <2>2 DEF CheckCompose, Start, Recheck, Confirm
  <2>3. CASE List(m) \/ ListRunning(m)
    BY <2>3 DEF List, ListRunning, AliveOf
  <2>4. QED
    BY <1>1, <2>1, <2>2, <2>3 DEF Before
<1>2. CASE Engine(m)
  <2>1. CASE StopSource(m)
    BY <2>1 DEF StopSource, AliveOf
  <2>2. CASE Deploy(m)
    <3>1. /\ pc[m] = "deploy" /\ UNCHANGED <<running, existing, downed>>
          /\ deployed'[m] \subseteq Planned[m]
      BY <2>2 DEF Deploy
    <3>2. \/ pc'[m] \in {"wait", "rollback"} /\ outcome' = outcome
          \/ pc'[m] \in {"prompt", "partition", "done"} /\ outcome'[m] = "migrated"
      BY <2>2 DEF Deploy, Accepted
    <3>3. QED
      BY <3>1, <3>2
  <2>3. CASE Expire(m) \/ Poll(m)
    BY <2>3 DEF Expire, Poll, Accepted
  <2>4. QED
    BY <1>2, <2>1, <2>2, <2>3 DEF Engine
<1>3. CASE Undo(m)
  BY <1>3 DEF Undo, Rollback, StackRm, Drain, Restore
<1>4. CASE After(m)
  BY <1>4 DEF After, Partition, PromptContainer, PromptCompose,
     DiscardContainer, DiscardCompose, DiscardFiles
<1>5. CASE Kill(m) \/ Again(m)
  BY <1>5 DEF Kill, Again
<1>6. QED
  BY <1>1, <1>2, <1>3, <1>4, <1>5 DEF StepOf

\* A run touches its own containers and the services of its own stack.
LEMMA StepTouches ==
    ASSUME TypeOK, NEW m \in Migrations, OwnOf(m), StepOf(m)
    PROVE  /\ drift' = drift
           /\ \A c \in Containers \ Source[m] : container'[c] = container[c]
           /\ \A s \in Services : Namespace[s] # Stack[m] => service'[s] = service[s]
<1> USE DEF TypeOK, HostTypeOK, OwnOf, hostVars, historyVars
<1>1. CASE Before(m) \/ Kill(m) \/ Again(m)
  BY <1>1 DEF Before, CheckContainer, CheckCompose, Recheck, Confirm, List, ListRunning,
     Kill, Again
<1>2. CASE Engine(m)
  <2>1. CASE StopSource(m)
    BY <2>1 DEF StopSource, StopContainers, AliveOf
  <2>2. CASE Deploy(m)
    BY <2>2, MigrationAssumption DEF Deploy, DeployServices
  <2>3. CASE Expire(m) \/ Poll(m)
    BY <2>3 DEF Expire, Poll
  <2>4. QED
    BY <1>2, <2>1, <2>2, <2>3 DEF Engine
<1>3. CASE Undo(m)
  <2>1. CASE StackRm(m)
    BY <2>1 DEF StackRm, RemoveServices, ServicesOf
  <2>2. CASE Restore(m)
    BY <2>2 DEF Restore, StartContainers
  <2>3. CASE Rollback(m) \/ Drain(m)
    BY <2>3 DEF Rollback, Drain
  <2>4. QED
    BY <1>3, <2>1, <2>2, <2>3 DEF Undo
<1>4. CASE After(m)
  BY <1>4 DEF After, Partition, PromptContainer, PromptCompose,
     DiscardContainer, DiscardCompose, DiscardFiles, RemoveContainers
<1>5. QED
  BY <1>1, <1>2, <1>3, <1>4 DEF StepOf

\* A step of one run leaves alone what the others have stopped and deployed.
LEMMA OthersHistory ==
    ASSUME TypeOK, NEW m \in Migrations, NEW n \in Migrations, n # m, StepOf(m)
    PROVE  /\ pc'[n] = pc[n] /\ outcome'[n] = outcome[n] /\ running'[n] = running[n]
           /\ existing'[n] = existing[n] /\ deletable'[n] = deletable[n]
           /\ cleanup'[n] = cleanup[n] /\ deployed'[n] = deployed[n] /\ downed'[n] = downed[n]
<1>1. /\ pc'[n] = pc[n] /\ outcome'[n] = outcome[n] /\ running'[n] = running[n]
      /\ existing'[n] = existing[n] /\ deletable'[n] = deletable[n]
  BY OthersUnchanged DEF StepOf
<1> USE DEF TypeOK, historyVars
<1>2. CASE Before(m)
  BY <1>1, <1>2 DEF Before, CheckContainer, CheckCompose, Recheck, Confirm, List, ListRunning
<1>3. CASE Engine(m)
  BY <1>1, <1>3 DEF Engine, StopSource, Deploy, Expire, Poll
<1>4. CASE Undo(m)
  BY <1>1, <1>4 DEF Undo, Rollback, StackRm, Drain, Restore
<1>5. CASE After(m) \/ Kill(m) \/ Again(m)
  BY <1>1, <1>5 DEF After, Partition, PromptContainer, PromptCompose, DiscardContainer,
     DiscardCompose, DiscardFiles, Kill, Again
<1>6. QED
  BY <1>2, <1>3, <1>4, <1>5 DEF StepOf

\* Which side serves is not touched by what happens to other workloads.
LEMMA SidesAside ==
    ASSUME TypeOK, NEW m \in Migrations, OwnOf(m), SidesOf(m), drift' = drift,
           pc'[m] = pc[m], outcome'[m] = outcome[m], running'[m] = running[m],
           deployed'[m] = deployed[m], cleanup'[m] = cleanup[m],
           \A c \in Source[m] : container'[c] = container[c],
           \A s \in Planned[m] : service'[s] = service[s]
    PROVE  SidesOf(m)'
<1>1. AliveOf(running[m])' = AliveOf(running[m])
  BY DEF AliveOf, OwnOf
<1>2. Serving(m)' = Serving(m)
  BY DEF Serving, OwnOf
<1>3. QED
  BY <1>1, <1>2 DEF SidesOf

\* The steps of a run that stop, start or remove containers.
LEMMA ContainerStepSides ==
    ASSUME TypeOK, NEW m \in Migrations, OwnOf(m), SidesOf(m),
           StopSource(m) \/ Restore(m) \/ DiscardContainer(m) \/ DiscardCompose(m)
    PROVE  SidesOf(m)'
<1>0. UNCHANGED <<service, drift, running, cleanup, deployed>> /\ Serving(m)' = Serving(m)
  BY DEF StopSource, Restore, DiscardContainer, DiscardCompose, historyVars, Serving
<1>1. pc \in [Migrations -> Step] /\ outcome \in [Migrations -> Outcome]
      /\ container \in [Containers -> ContainerState] /\ running[m] \subseteq Containers
      /\ existing[m] \subseteq Containers
  BY MigrationAssumption DEF TypeOK, HostTypeOK, OwnOf
<1>2. CASE StopSource(m)
  <2>1. pc[m] = "stop" /\ deployed[m] = {} /\ outcome[m] = "none"
    BY <1>2 DEF StopSource, OwnOf, Fresh
  <2>2. Serving(m)' = {}
    BY <1>0, <2>1 DEF Serving
  <2>3. \/ pc'[m] = "deploy" /\ outcome'[m] = "none" /\ AliveOf(running[m])' = {}
        \/ pc'[m] = "done" /\ outcome'[m] = "stopFailed"
    <3>1. CASE running[m] = {} /\ Goto(m, "deploy") /\ UNCHANGED outcome
      BY <1>0, <1>1, <2>1, <3>1 DEF Goto, AliveOf
    <3>2. CASE StopContainers(running[m]) /\ Goto(m, "deploy") /\ UNCHANGED outcome
      <4>1. \A c \in running[m] : container'[c] \notin Alive
        BY <1>1, <3>2 DEF StopContainers, AliveOf, Alive, ContainerState
      <4>2. AliveOf(running[m])' = {}
        BY <1>0, <4>1 DEF AliveOf
      <4>3. QED
        BY <1>1, <2>1, <3>2, <4>2 DEF Goto
    <3>3. CASE Finish(m, "stopFailed")
      BY <1>1, <3>3 DEF Finish, Goto
    <3>4. QED
      BY <1>2, <3>1, <3>2, <3>3 DEF StopSource
  <2>4. QED
    BY <2>2, <2>3 DEF SidesOf, Halted
<1>3. CASE Restore(m)
  <2>1. pc[m] = "restore" /\ pc'[m] = "done" /\ outcome'[m] \in {"failed", "restored", "stranded"}
    BY <1>1, <1>3 DEF Restore, Finish, Goto
  <2>2. cleanup[m] = "failed" \/ Serving(m)' = {}
    BY <1>0, <2>1 DEF SidesOf
  <2>3. QED
    BY <1>0, <2>1, <2>2 DEF SidesOf, Halted
<1>4. CASE DiscardContainer(m) \/ DiscardCompose(m)
  <2>1. pc'[m] \in {"done", "discardFiles"} /\ outcome' = outcome
    BY <1>1, <1>4 DEF DiscardContainer, DiscardCompose, Goto
  <2>2. \A c \in Containers : container'[c] \in {container[c], "removed"}
    BY <1>1, <1>4 DEF DiscardContainer, DiscardCompose, RemoveContainers
  <2>3. AliveOf(running[m])' \subseteq AliveOf(running[m])
    BY <1>0, <1>1, <2>2 DEF AliveOf, Alive
  <2>4. QED
    BY <1>0, <2>1, <2>3 DEF SidesOf, Halted
<1>5. QED
  BY <1>2, <1>3, <1>4

\* A run that deploys its services.
LEMMA DeploySides ==
    ASSUME TypeOK, NEW m \in Migrations, OwnOf(m), SidesOf(m), Deploy(m)
    PROVE  SidesOf(m)'
<1>1. /\ pc \in [Migrations -> Step] /\ outcome \in [Migrations -> Outcome]
      /\ Planned[m] \subseteq Services
  BY MigrationAssumption DEF TypeOK
<1>2. /\ pc[m] = "deploy" /\ outcome[m] = "none"
      /\ UNCHANGED <<container, drift, running, cleanup>>
  BY DEF Deploy, OwnOf, Halted
<1>3. AliveOf(running[m])' = AliveOf(running[m]) /\ (drift = 0 => AliveOf(running[m]) = {})
  BY <1>2 DEF AliveOf, SidesOf, Halted
<1>4. pc'[m] \notin {"drain", "restore"}
  BY <1>1 DEF Deploy, Accepted, Goto
<1>5. CASE DeployServices(Planned[m])
  <2>1. \A s \in Planned[m] : service'[s] = "starting"
    BY <1>1, <1>5 DEF DeployServices
  <2>2. QED
    BY <1>2, <1>3, <1>4, <2>1 DEF SidesOf
<1>6. CASE Goto(m, "rollback") /\ UNCHANGED outcome
  BY <1>1, <1>2, <1>3, <1>4, <1>6 DEF SidesOf, Goto
<1>7. QED
  BY <1>5, <1>6 DEF Deploy

\* A run that looks for the services of its stack, or removes them.
LEMMA StackStepSides ==
    ASSUME TypeOK, NEW m \in Migrations, OwnOf(m), SidesOf(m),
           Poll(m) \/ Rollback(m) \/ StackRm(m) \/ Drain(m)
    PROVE  SidesOf(m)'
<1>1. /\ pc \in [Migrations -> Step] /\ outcome \in [Migrations -> Outcome]
      /\ cleanup \in [Migrations -> {"none", "ok", "failed"}]
      /\ service \in [Services -> ServiceState] /\ Planned[m] \subseteq Services
      /\ deployed[m] \subseteq Planned[m]
      /\ \A s \in Planned[m] : Namespace[s] = Stack[m]
  BY MigrationAssumption DEF TypeOK, HostTypeOK, OwnOf
<1>2. /\ UNCHANGED <<container, drift, running, deployed>>
      /\ pc[m] \in {"wait", "rollback", "stackRm", "drain"} /\ outcome[m] = "none"
  BY DEF Poll, Rollback, StackRm, Drain, hostVars, historyVars, OwnOf, Halted
<1>3. AliveOf(running[m])' = AliveOf(running[m]) /\ (drift = 0 => AliveOf(running[m]) = {})
  BY <1>2 DEF AliveOf, SidesOf, Halted
<1>4. ServicesOf(Stack[m]) = {} => Serving(m) = {}
  BY <1>1 DEF ServicesOf, Serving
<1>5. CASE Poll(m)
  <2>1. service' = service /\ pc[m] = "wait" /\ pc'[m] \notin {"drain", "restore", "wait"}
    BY <1>1, <1>5 DEF Poll, Accepted, Goto, hostVars
  <2>2. QED
    BY <1>2, <1>3, <2>1 DEF SidesOf
<1>6. CASE Rollback(m)
  <2>1. service' = service /\ outcome' = outcome /\ Serving(m)' = Serving(m)
    BY <1>2, <1>6 DEF Rollback, hostVars, Serving
  <2>2. \/ pc'[m] = "stackRm"
        \/ pc'[m] = "restore" /\ Serving(m) = {}
        \/ pc'[m] = "restore" /\ cleanup'[m] = "failed"
    BY <1>1, <1>4, <1>6 DEF Rollback, Goto
  <2>3. QED
    BY <1>2, <1>3, <2>1, <2>2 DEF SidesOf
<1>7. CASE StackRm(m)
  <2>1. outcome' = outcome
    BY <1>7 DEF StackRm
  <2>2. \/ pc'[m] = "drain" /\ RemoveServices(ServicesOf(Stack[m]))
        \/ pc'[m] = "restore" /\ cleanup'[m] = "failed"
    BY <1>1, <1>7 DEF StackRm, Goto
  <2>3. RemoveServices(ServicesOf(Stack[m])) =>
          \A s \in deployed[m] : service'[s] \in {"removing", "absent"}
    BY <1>1 DEF RemoveServices, ServicesOf
  <2>4. RemoveServices(ServicesOf(Stack[m])) => Serving(m)' = {}
    BY <1>2, <2>3 DEF Serving
  <2>5. QED
    BY <1>2, <1>3, <2>1, <2>2, <2>4 DEF SidesOf
<1>8. CASE Drain(m)
  <2>1. service' = service /\ outcome' = outcome /\ pc[m] = "drain" /\ pc'[m] = "restore"
    BY <1>1, <1>8 DEF Drain, Goto, hostVars
  <2>2. Serving(m)' = Serving(m) /\ Serving(m) = {}
    BY <1>2, <2>1 DEF Serving, SidesOf
  <2>3. QED
    BY <1>2, <1>3, <2>1, <2>2 DEF SidesOf
<1>9. QED
  BY <1>5, <1>6, <1>7, <1>8

\* The steps of a run that neither touch the host nor bring it closer to it.
LEMMA QuietStepSides ==
    ASSUME TypeOK, NEW m \in Migrations, OwnOf(m), SidesOf(m),
           \/ Before(m) \/ Expire(m) \/ Partition(m) \/ PromptContainer(m) \/ PromptCompose(m)
           \/ DiscardFiles(m) \/ Kill(m) \/ Again(m)
    PROVE  SidesOf(m)'
<1>1. pc \in [Migrations -> Step] /\ outcome \in [Migrations -> Outcome]
      /\ deployed \in [Migrations -> SUBSET Services]
  BY DEF TypeOK
<1>2. UNCHANGED <<container, service, drift>>
  BY DEF Before, CheckContainer, CheckCompose, Recheck, Confirm, List, ListRunning, Expire,
     Partition, PromptContainer, PromptCompose, DiscardFiles, Kill, Again, hostVars
<1>3. CASE Before(m)
  <2>1. /\ deployed[m] = {} /\ deployed'[m] = {} /\ outcome[m] = "none"
    BY <1>3 DEF Before, CheckContainer, CheckCompose, Recheck, Confirm, List, ListRunning,
       OwnOf, Fresh, historyVars
  <2>2. pc'[m] \in {"recheck", "confirm", "list", "listRunning", "stop", "done"}
        /\ outcome'[m] # "migrated"
    BY <1>1, <1>3, <2>1 DEF Before, CheckContainer, CheckCompose, Recheck, Confirm, List,
       ListRunning, Goto, Finish
  <2>3. Serving(m)' = {}
    BY <2>1 DEF Serving
  <2>4. QED
    BY <2>2, <2>3 DEF SidesOf, Halted
<1>4. CASE Again(m)
  <2>1. deployed'[m] = {} /\ pc'[m] = "idle" /\ outcome'[m] = "none"
    BY <1>1, <1>4 DEF Again, Goto
  <2>2. Serving(m)' = {}
    BY <2>1 DEF Serving
  <2>3. QED
    BY <2>1, <2>2 DEF SidesOf, Halted
<1>5. CASE ~ Before(m) /\ ~ Again(m)
  <2>1. UNCHANGED <<running, cleanup, deployed>>
    BY <1>5 DEF Expire, Partition, PromptContainer, PromptCompose, DiscardFiles, Kill, historyVars
  <2>2. AliveOf(running[m])' = AliveOf(running[m]) /\ Serving(m)' = Serving(m)
    BY <1>2, <2>1 DEF AliveOf, Serving
  <2>3. \/ pc' = pc /\ outcome' = outcome
        \/ pc'[m] \in {"prompt", "discard", "discardFiles", "done"}
           /\ (outcome' = outcome \/ outcome'[m] = "killed")
    BY <1>1, <1>5 DEF Expire, Partition, PromptContainer, PromptCompose, DiscardFiles, Kill,
       Goto, Finish
  <2>4. QED
    BY <1>2, <2>1, <2>2, <2>3 DEF SidesOf, Halted
<1>6. QED
  BY <1>3, <1>4, <1>5

\* A run keeps its two sides apart.
LEMMA StepSides ==
    ASSUME TypeOK, NEW m \in Migrations, OwnOf(m), SidesOf(m), StepOf(m)
    PROVE  SidesOf(m)'
BY QuietStepSides, ContainerStepSides, DeploySides, StackStepSides
DEF StepOf, Engine, Undo, After

\* The Swarm keeps what is deployed deployed and what is removed removed.
LEMMA HostSides ==
    ASSUME TypeOK, NEW m \in Migrations, OwnOf(m), SidesOf(m),
           HostNext, UNCHANGED <<flowVars, historyVars>>
    PROVE  SidesOf(m)'
<1>1. UNCHANGED <<pc, outcome, running, cleanup, deployed>>
  BY DEF flowVars, historyVars
<1>2. /\ drift \in Nat /\ deployed[m] \subseteq Services /\ Planned[m] \subseteq Services
      /\ service \in [Services -> ServiceState]
  BY HostAssumption, MigrationAssumption DEF TypeOK, HostTypeOK
<1>3. ASSUME NEW s \in Services, ServiceUp(s) \/ ServiceGone(s) \/ ServiceDown(s)
      PROVE  /\ container' = container /\ drift' \in {drift, drift + 1}
             /\ \A z \in Services : service'[z] \in {"starting", "ready"} <=>
                                    service[z] \in {"starting", "ready"}
  BY <1>2, <1>3 DEF ServiceUp, ServiceGone, ServiceDown
<1>4. ASSUME NEW c \in Containers, ContainerDrift(c)
      PROVE  service' = service /\ drift' = drift + 1
  BY <1>4 DEF ContainerDrift
<1>5. Serving(m)' = Serving(m)
      /\ \A s \in Planned[m] : service'[s] \in {"starting", "ready"} <=>
                               service[s] \in {"starting", "ready"}
  <2>1. \A z \in Services : service'[z] \in {"starting", "ready"} <=>
                            service[z] \in {"starting", "ready"}
    BY <1>3, <1>4 DEF HostNext
  <2>2. QED
    BY <1>1, <1>2, <2>1 DEF Serving
<1>6. drift' = 0 => drift = 0 /\ AliveOf(running[m])' = AliveOf(running[m])
  BY <1>1, <1>2, <1>3, <1>4 DEF HostNext, AliveOf
<1>7. QED
  BY <1>1, <1>5, <1>6 DEF SidesOf

\* Every run keeps to its own workload, also where workloads overlap.
THEOREM OwnKept == Spec => []Own
<1>1. Init => Own
  BY MigrationAssumption DEF Init, Own, OwnOf, Fresh, Halted
<1>2. TypeOK /\ Own /\ [Next]_vars => Own'
  <2> SUFFICES ASSUME TypeOK, Own, [Next]_vars, NEW n \in Migrations
               PROVE  OwnOf(n)'
    BY DEF Own
  <2>0. OwnOf(n)
    BY DEF Own
  <2>1. ASSUME NEW m \in Migrations, StepOf(m)
        PROVE  OwnOf(n)'
    <3>1. CASE n = m
      BY <2>0, <2>1, <3>1, StepOwn
    <3>2. CASE n # m
      BY <2>0, <2>1, <3>2, OthersHistory DEF OwnOf
    <3>3. QED
      BY <3>1, <3>2
  <2>2. CASE UNCHANGED <<flowVars, historyVars>>
    BY <2>0, <2>2 DEF OwnOf, flowVars, historyVars
  <2>3. QED
    BY <2>1, <2>2 DEF Next, StepOf, vars
<1>3. QED
  BY <1>1, <1>2, TypeCorrect, PTL DEF Spec

\* As long as no two migrations are about the same container or stack, each of
\* them keeps its two sides apart, whatever the others do and whatever fails.
THEOREM SidesKept == Separate /\ Spec => []Sides
<1> SUFFICES ASSUME Separate
             PROVE  Spec => []Sides
  OBVIOUS
<1>1. Init => Sides
  BY MigrationAssumption DEF Init, Sides, SidesOf, Halted, Serving
<1>2. TypeOK /\ Own /\ Sides /\ [Next]_vars => Sides'
  <2> SUFFICES ASSUME TypeOK, Own, Sides, [Next]_vars, NEW n \in Migrations
               PROVE  SidesOf(n)'
    BY DEF Sides
  <2>0. OwnOf(n) /\ SidesOf(n)
    BY DEF Own, Sides
  <2>1. ASSUME NEW m \in Migrations, StepOf(m)
        PROVE  SidesOf(n)'
    <3>0. OwnOf(m)
      BY DEF Own
    <3>1. CASE n = m
      BY <2>0, <2>1, <3>1, StepSides
    <3>2. CASE n # m
      <4>1. /\ pc'[n] = pc[n] /\ outcome'[n] = outcome[n] /\ running'[n] = running[n]
            /\ cleanup'[n] = cleanup[n] /\ deployed'[n] = deployed[n]
        BY <2>1, <3>2, OthersHistory
      <4>2. \A c \in Source[n] : c \in Containers \ Source[m]
        BY <3>2, MigrationAssumption DEF Separate
      <4>3. \A s \in Planned[n] : s \in Services /\ Namespace[s] # Stack[m]
        BY <3>2, MigrationAssumption DEF Separate
      <4>4. /\ drift' = drift
            /\ \A c \in Source[n] : container'[c] = container[c]
            /\ \A s \in Planned[n] : service'[s] = service[s]
        BY <2>1, <3>0, <4>2, <4>3, StepTouches
      <4>5. QED
        BY <2>0, <4>1, <4>4, SidesAside
    <3>3. QED
      BY <3>1, <3>2
  <2>2. CASE HostNext /\ UNCHANGED <<flowVars, file, runs, historyVars>>
    BY <2>0, <2>2, HostSides
  <2>3. CASE UNCHANGED vars
    <3>1. UNCHANGED <<pc, outcome, running, cleanup, deployed, drift, container, service>>
      BY <2>3 DEF vars, flowVars, historyVars, hostVars
    <3>2. QED
      BY <2>0, <3>1, SidesAside
  <2>4. QED
    BY <2>1, <2>2, <2>3 DEF Next, StepOf
<1>3. QED
  BY <1>1, <1>2, TypeCorrect, OwnKept, PTL DEF Spec

\* While nobody else touches the host, old containers and new services of a
\* workload do not serve together, unless the rollback could not remove the
\* stack (executeSwarmMigration, rollbackSwarmMigration).
THEOREM OneServes == Separate /\ Spec => []OneSideServes
<1>1. Sides => OneSideServes
  BY DEF Sides, SidesOf, OneSideServes
<1>2. QED
  BY <1>1, SidesKept, PTL

\* What is reported as migrated stays deployed.
THEOREM MigratedStands == Separate /\ Spec => []MigratedStackStands
<1>1. Sides => MigratedStackStands
  BY DEF Sides, SidesOf, MigratedStackStands
<1>2. QED
  BY <1>1, SidesKept, PTL

\* A run that undid itself and reports so has started every container again that
\* it had stopped (source.Restore), although the removal of the stack may have
\* failed in between; others may do what they like.
THEOREM SourceServesAgain == Spec => RestoredSourceServes
<1> DEFINE Restored(m) ==
      pc[m] # "done" /\ pc'[m] = "done" /\ outcome'[m] \in {"restored", "failed"}
         => \A c \in downed[m] : container'[c] \in Alive
<1>1. TypeOK /\ Own /\ [Next]_vars => [\A m \in Migrations : Restored(m)]_vars
  <2> SUFFICES ASSUME TypeOK, Own, Next, NEW n \in Migrations
               PROVE  Restored(n)
    OBVIOUS
  <2>0. /\ OwnOf(n) /\ pc \in [Migrations -> Step] /\ outcome \in [Migrations -> Outcome]
        /\ container \in [Containers -> ContainerState]
    BY DEF Own, TypeOK, HostTypeOK
  <2>1. ASSUME NEW m \in Migrations, StepOf(m), n # m
        PROVE  Restored(n)
    <3>1. pc'[n] = pc[n]
      BY <2>1, OthersHistory
    <3>2. QED
      BY <3>1
  <2>2. ASSUME StepOf(n), ~ Restore(n)
        PROVE  Restored(n)
    <3>1. CASE Before(n) \/ Kill(n) \/ Again(n)
      BY <2>0, <3>1 DEF Before, CheckContainer, CheckCompose, Recheck, Confirm, List,
         ListRunning, Kill, Again, Goto, Finish
    <3>2. CASE Engine(n)
      <4>1. \/ pc'[n] \in {"deploy", "wait", "rollback"} \/ pc'[n] = pc[n]
            \/ outcome'[n] \in {"stopFailed", "migrated"}
        BY <2>0, <3>2 DEF Engine, StopSource, Deploy, Expire, Poll, Accepted, Goto, Finish
      <4>2. QED
        BY <4>1
    <3>3. CASE Rollback(n) \/ StackRm(n) \/ Drain(n)
      BY <2>0, <3>3 DEF Rollback, StackRm, Drain, Goto
    <3>4. CASE After(n)
      <4>1. outcome' = outcome /\ outcome[n] = "migrated"
        BY <2>0, <3>4 DEF OwnOf, After, Partition, PromptContainer, PromptCompose,
           DiscardContainer, DiscardCompose, DiscardFiles
      <4>2. QED
        BY <4>1
    <3>5. QED
      BY <2>2, <3>1, <3>2, <3>3, <3>4 DEF StepOf, Undo
  <2>3. CASE Restore(n)
    <3>1. CASE running[n] = {}
      BY <2>0, <3>1 DEF OwnOf
    <3>2. CASE StartContainers(running[n]) /\ \A c \in running[n] : container[c] # "removed"
      <4>1. \A c \in running[n] : c \in Containers
        BY <2>0, MigrationAssumption DEF OwnOf
      <4>2. \A c \in running[n] : container'[c] \in Alive
        BY <2>0, <3>2, <4>1 DEF StartContainers, ContainerState, Alive
      <4>3. QED
        BY <2>0, <4>2 DEF OwnOf
    <3>3. CASE Finish(n, "stranded")
      BY <2>0, <3>3 DEF Finish
    <3>4. QED
      BY <2>3, <3>1, <3>2, <3>3 DEF Restore
  <2>4. CASE HostNext /\ UNCHANGED <<flowVars, file, runs, historyVars>>
    BY <2>4 DEF flowVars
  <2>5. QED
    BY <2>1, <2>2, <2>3, <2>4 DEF Next, StepOf
<1>2. QED
  BY <1>1, TypeCorrect, OwnKept, PTL DEF Spec, RestoredSourceServes

-----------------------------------------------------------------------------
(* The configuration files.                                                *)

\* No file that a run means to delete is that of another project with containers.
Unshared == \A m \in Migrations : deletable[m] \cap ReferencedByOthers(m) = {}

\* A container that is gone stays gone.
LEMMA RemovedStays ==
    ASSUME TypeOK, [Next]_vars, NEW c \in Containers, container[c] = "removed"
    PROVE  container'[c] = "removed"
<1> USE DEF TypeOK, HostTypeOK, hostVars
<1>1. ASSUME NEW m \in Migrations, Before(m) \/ Kill(m) \/ Again(m)
      PROVE  container' = container
  BY <1>1 DEF Before, CheckContainer, CheckCompose, Recheck, Confirm, List, ListRunning,
     Kill, Again
<1>2. ASSUME NEW m \in Migrations, Engine(m)
      PROVE  container'[c] = "removed"
  BY <1>2 DEF Engine, StopSource, Deploy, Expire, Poll, StopContainers, AliveOf, Alive
<1>3. ASSUME NEW m \in Migrations, Undo(m)
      PROVE  container'[c] = "removed"
  BY <1>3 DEF Undo, Rollback, StackRm, Drain, Restore, StartContainers
<1>4. ASSUME NEW m \in Migrations, After(m)
      PROVE  container'[c] = "removed"
  BY <1>4 DEF After, Partition, PromptContainer, PromptCompose, DiscardContainer,
     DiscardCompose, DiscardFiles, RemoveContainers
<1>5. CASE HostNext
  BY <1>5 DEF HostNext, ServiceUp, ServiceGone, ServiceDown, ContainerDrift
<1>6. QED
  BY <1>1, <1>2, <1>3, <1>4, <1>5 DEF Next, vars

\* Projects drop out of the list of those that are referenced, and do not come back.
LEMMA ReferencesShrink ==
    ASSUME TypeOK, [Next]_vars, NEW m \in Migrations
    PROVE  ReferencedByOthers(m)' \subseteq ReferencedByOthers(m)
<1>1. ASSUME NEW n \in Migrations, \E c \in Source[n] : container'[c] # "removed"
      PROVE  \E c \in Source[n] : container[c] # "removed"
  <2>1. PICK c \in Source[n] : container'[c] # "removed"
    BY <1>1
  <2>2. c \in Containers
    BY MigrationAssumption
  <2>3. QED
    BY <2>1, <2>2, RemovedStays
<1>2. QED
  BY <1>1 DEF ReferencedByOthers

\* What a run means to delete is decided once, in partitionComposeConfigFiles.
LEMMA DeletableSet ==
    ASSUME TypeOK, [Next]_vars, NEW m \in Migrations
    PROVE  \/ deletable'[m] = deletable[m]
           \/ deletable'[m] = {}
           \/ /\ deletable'[m] = Config[m] \ ReferencedByOthers(m)
              /\ container' = container
<1> USE DEF TypeOK, hostVars, flowVars
<1>1. ASSUME NEW n \in Migrations, Before(n) \/ Engine(n) \/ Undo(n) \/ Kill(n)
      PROVE  deletable' = deletable
  BY <1>1 DEF Before, CheckContainer, CheckCompose, Recheck, Confirm, List, ListRunning,
     Engine, StopSource, Deploy, Expire, Poll, Undo, Rollback, StackRm, Drain, Restore, Kill
<1>2. ASSUME NEW n \in Migrations, Partition(n)
      PROVE  \/ deletable'[m] = deletable[m]
             \/ /\ deletable'[m] = Config[m] \ ReferencedByOthers(m)
                /\ container' = container
  BY <1>2 DEF Partition
<1>3. ASSUME NEW n \in Migrations, After(n), ~ Partition(n)
      PROVE  deletable' = deletable
  BY <1>3 DEF After, PromptContainer, PromptCompose, DiscardContainer, DiscardCompose, DiscardFiles
<1>4. ASSUME NEW n \in Migrations, Again(n)
      PROVE  deletable'[m] \in {deletable[m], {}}
  BY <1>4 DEF Again
<1>5. CASE UNCHANGED flowVars
  BY <1>5
<1>6. QED
  BY <1>1, <1>2, <1>3, <1>4, <1>5 DEF Next, vars

\* The list of the other projects, although read before the operator is asked,
\* is good when the files are deleted: no file of a project with a container
\* goes (partitionComposeConfigFiles, removeComposeConfigFiles).
THEOREM SharedKept == Spec => SharedConfigKept
<1>1. Init => Unshared
  BY DEF Init, Unshared
<1>2. TypeOK /\ Unshared /\ [Next]_vars => Unshared'
  <2> SUFFICES ASSUME TypeOK, Unshared, [Next]_vars, NEW m \in Migrations
               PROVE  deletable'[m] \cap ReferencedByOthers(m)' = {}
    BY DEF Unshared
  <2>1. ReferencedByOthers(m)' \subseteq ReferencedByOthers(m)
    BY ReferencesShrink
  <2>2. QED
    BY <2>1, DeletableSet DEF Unshared
<1> DEFINE Kept == \A f \in file \ file' : \E m \in Migrations :
                      /\ pc[m] = "discardFiles"
                      /\ f \notin ReferencedByOthers(m)
<1>3. TypeOK /\ Unshared /\ [Next]_vars => [Kept]_vars
  <2> SUFFICES ASSUME TypeOK, Unshared, Next, NEW f \in file \ file'
               PROVE  \E m \in Migrations : pc[m] = "discardFiles" /\ f \notin ReferencedByOthers(m)
    OBVIOUS
  <2>1. ASSUME NEW m \in Migrations,
               Before(m) \/ Engine(m) \/ Undo(m) \/ Kill(m) \/ Again(m)
        PROVE  file' = file
    BY <2>1 DEF Before, CheckContainer, CheckCompose, Recheck, Confirm, List, ListRunning,
       Engine, StopSource, Deploy, Expire, Poll, Undo, Rollback, StackRm, Drain, Restore,
       Kill, Again
  <2>2. ASSUME NEW m \in Migrations, After(m), ~ DiscardFiles(m)
        PROVE  file' = file
    BY <2>2 DEF After, Partition, PromptContainer, PromptCompose, DiscardContainer, DiscardCompose
  <2>3. PICK m \in Migrations : DiscardFiles(m)
    BY <2>1, <2>2 DEF Next
  <2>4. pc[m] = "discardFiles" /\ f \in deletable[m]
    BY <2>3 DEF DiscardFiles
  <2>5. QED
    BY <2>4 DEF Unshared
<1>4. QED
  BY <1>1, <1>2, <1>3, TypeCorrect, PTL DEF Spec, SharedConfigKept

=============================================================================
