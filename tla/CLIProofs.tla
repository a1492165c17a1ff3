------------------------------- MODULE CLIProofs -------------------------------
(***************************************************************************)
(* The command line as a whole (GalaxyCLI): a process runs one command, and *)
(* what is proved of the command alone holds of the process, so that every  *)
(* property of the commands holds of every run of the executable.           *)
(***************************************************************************)
EXTENDS GalaxyCLI, DockerCommandProofs, ProjectSyncProofs, CommandProofs, PlatformProofs

CLIVars == <<command, diskVars, clientVars, platformVars>>

\* Every command's own variables begin as those of that command.
LEMMA Starts ==
    CLIInit =>
        /\ command \in Commands
        /\ SecureInit /\ SyncInit /\ DiffInit /\ PlanInit /\ SessionInit /\ BuildInit
        /\ HostsInit /\ ProjectInit /\ ResourceInit /\ ReadInit /\ CopyInit /\ TerminalInit /\ UpgradeInit
BY DEF CLIInit

\* A step of the process is one of the command it was started with, and for every
\* other command a step that changes nothing.
LEMMA OwnSteps ==
    [Execute]_CLIVars =>
        /\ [SecureNext]_secureVars /\ [Check]_planVars
        /\ [SessionNext]_sessionVars /\ [BuildNext]_buildVars /\ [HostsNext]_hostsVars
        /\ [UpgradeNext]_upgradeVars /\ [ProjectNext]_projectVars /\ [ResourceNext]_resourceVars
        /\ [ReadNext]_readVars /\ [CopyNext]_copyVars /\ [TerminalNext]_terminalVars
BY DEF Execute, CLIVars, diskVars, clientVars, platformVars, containerVars

\* sync and diff work on the same tree and container; a process runs one of them.
LEMMA SyncOrDiff ==
    [Execute]_CLIVars =>
        /\ UNCHANGED command
        /\ command # "diff" => [SyncNext]_vars
        /\ command = "diff" => [DiffNext]_<<vars, diffVars>>
BY DEF Execute, CLIVars, diskVars, syncVars

\* The command line runs each command as its own specification says, whatever the
\* process was started for: what is proved of a command alone is true of it here.
THEOREM CommandsAreParts ==
    CLISpec => /\ SecureSpec /\ PlanSpec /\ SessionSpec /\ BuildSpec /\ HostsSpec /\ UpgradeSpec
               /\ ProjectSpec /\ ResourceSpec /\ ReadSpec /\ CopySpec /\ TerminalSpec
BY Starts, OwnSteps, PTL DEF CLISpec, CLIVars, SecureSpec, PlanSpec, SessionSpec, BuildSpec, HostsSpec, UpgradeSpec,
   ProjectSpec, ResourceSpec, ReadSpec, CopySpec, TerminalSpec

-----------------------------------------------------------------------------
(* sync and diff, which share their variables.                             *)

\* The invariant of the one of the two that can run.
TreesSound ==
    /\ command \in Commands
    /\ command = "diff" => DiffSound
    /\ command # "diff" => SyncTypeOK /\ Honest

\* It holds from the start, for every command.
LEMMA TreesStart == CLIInit => TreesSound
BY Starts, DiffStarts, SyncTypesStart, HonestStarts DEF TreesSound

\* No step of any command breaks it.
LEMMA TreesStep == TreesSound /\ [Execute]_CLIVars => TreesSound'
BY SyncOrDiff, DiffStep, SyncTypesStep, HonestStep DEF TreesSound

\* It holds of every behaviour of the command line.
THEOREM TreesKept == CLISpec => []TreesSound
BY TreesStart, TreesStep, PTL DEF CLISpec, CLIVars

\* It says what sync promises, of diff as well: that writes nothing.
LEMMA TreesPromise == TreesSound => SyncTypeOK /\ ReportedUntouched /\ SuccessMeansSynced
<1>1. DiffSound => SyncTypeOK /\ ReportedUntouched /\ SuccessMeansSynced
  BY DEF DiffSound, DiffShape, NothingTouched, ReportedUntouched, SuccessMeansSynced
<1> QED
  BY <1>1, HonestUntouched, HonestSynced DEF TreesSound

-----------------------------------------------------------------------------
(* The command line.                                                       *)

\* The state that the commands share keeps its type, whichever runs.
THEOREM CLITypeCorrect == CLISpec => []CLITypeOK
<1>1. TreesSound => command \in Commands /\ SyncTypeOK
  BY TreesPromise DEF TreesSound
<1> QED
  BY <1>1, TreesKept, CommandsAreParts, SecureCorrect, PlanTypeCorrect, SessionTypeCorrect, PTL DEF CLITypeOK

\* Whatever command a process runs: what secure-api, sync, migrate, the commands
\* of the session and upgrade promise holds all the time.
THEOREM CommandsKeepTheirPromises ==
    CLISpec => [](/\ RestoredIsOriginal /\ OriginalRecoverable /\ VerifiedMeansSecure
                  /\ ReportedUntouched /\ SuccessMeansSynced
                  /\ LocalDataStays /\ NothingLost
                  /\ CredentialsAgree /\ ExecutableIsWhole)
<1>1. TreesSound => ReportedUntouched /\ SuccessMeansSynced
  BY TreesPromise
<1> QED
  BY <1>1, TreesKept, CommandsAreParts, RollbackRestores, OriginalKept, VerifiedIsSecure, DataStays, NothingIsLost,
     OneAccount, ExecutableKept, PTL

\* No step of any command replaces a directory of the container, but diff's
\* neighbours and sync's, who count as others.
LEMMA TreesDirectories == TreesSound /\ [Execute]_CLIVars => [DirectoriesStay]_vars
<1>1. DiffSound /\ [DiffNext]_<<vars, diffVars>> => [DirectoriesStay]_vars
  <2> SUFFICES ASSUME DiffSound, [DiffNext]_<<vars, diffVars>>, changes' = changes
               PROVE  remote' = remote
    BY DEF DirectoriesStay
  <2>1. changes \in Nat
    BY SyncAssumption DEF DiffSound, DiffShape, SyncTypeOK
  <2>2. CASE StartDiff
    BY <2>2 DEF StartDiff, ReadChanges, SelectTarget
  <2>3. CASE CompareLocal
    BY <2>3 DEF CompareLocal, Seen
  <2>4. CASE CompareExists
    BY <2>4 DEF CompareExists, Seen
  <2>5. CASE CompareContent
    BY <2>5 DEF CompareContent, Seen
  <2>6. CASE MeanwhileDiff
    <3>1. CASE EditLocal
      BY <3>1 DEF EditLocal
    <3>2. CASE OthersWrite
      BY <2>1, <3>2 DEF OthersWrite
    <3>3. CASE OthersSync
      BY <2>1, <3>3 DEF OthersSync
    <3> QED
      BY <2>6, <3>1, <3>2, <3>3 DEF MeanwhileDiff
  <2>7. CASE UNCHANGED <<vars, diffVars>>
    BY <2>7 DEF vars
  <2> QED
    BY <2>2, <2>3, <2>4, <2>5, <2>6, <2>7 DEF DiffNext
<1> QED
  BY <1>1, SyncOrDiff, DirectoriesStep DEF TreesSound

\* And what their steps may not do, they do not do.
THEOREM CommandsStepAsPromised ==
    CLISpec => DownIsReported /\ DirectoriesKept /\ Isolated /\ ImplementsLogRelay
<1>1. CLISpec => DirectoriesKept
  <2>1. CLISpec => [][TreesSound /\ [Execute]_CLIVars]_CLIVars
    BY TreesKept, PTL DEF CLISpec, CLIVars
  <2>2. [TreesSound /\ [Execute]_CLIVars]_CLIVars => [DirectoriesStay]_vars
    BY TreesDirectories DEF CLIVars, diskVars, syncVars, vars
  <2> QED
    BY <2>1, <2>2, PTL DEF DirectoriesKept, DirectoriesStay
<1> QED
  BY <1>1, CommandsAreParts, DownReported, LeavesAsAsked, LogRelayed, PTL

\* init and all that belongs to a directory, the commands on resources, get and info,
\* diff, cp and exec: whatever fails and whatever others do meanwhile, a command that
\* ends well has done what it was asked and nothing else.
THEOREM CommandsDoAsAsked == CLISpec => []DoneAsAsked
<1>1. TreesSound /\ command = "diff" => ComparedTruly
  BY SoundVerdicts DEF TreesSound, DiffSound, NothingTouched, ComparedTruly
<1> QED
  BY <1>1, TreesKept, CommandsAreParts, DirectoryBound, OrderedAndNothingElse, ListingsAreTrue,
     CopyLosesNothing, SessionShown, PTL DEF DoneAsAsked

=============================================================================
