--------------------------- MODULE PlatformProofs ---------------------------
(***************************************************************************)
(* The commands that work on the platform, for every platform, tree, answer *)
(* and order of what others do: a session of galaxy exec shows what was said *)
(* (RemoteTerminal); a directory is bound to what it was initialised for   *)
(* (ProjectFile); the commands on resources leave what was ordered and     *)
(* nothing else (ResourceCommands); galaxy cp loses nothing (RemoteCopy); and *)
(* get and info show what is there (ReadCommands).                         *)
(***************************************************************************)
EXTENDS ProjectFile, RemoteTerminal, ResourceCommands, RemoteCopy, ReadCommands,
        FiniteSetTheorems, SequenceTheorems, TLAPS

\* Of numbers, one is the smallest.
LEMMA Smallest == ASSUME NEW S \in SUBSET Nat, S # {} PROVE \E n \in S : \A m \in S : n <= m
<1>1. PICK n \in S : \A m \in S : ~ (<<m, n>> \in OpToRel(<, Nat))
  BY WFMin, NatLessThanWellFounded
<1>2. \A m \in S : ~ (m < n)
  BY <1>1 DEF OpToRel
<1> QED
  BY <1>2

-----------------------------------------------------------------------------
(* The terminal (exec).                                                    *)

Wires == {"none", "open", "normal", "away", "lost"}
InSession == {"session", "restore", "restoreFailed"}

\* The terminal is raw only where something is left that puts it back, or after
\* a kill; before the session, and without a terminal, there is no connection.
TerminalShape ==
    /\ options \in [single : BOOLEAN, shell : BOOLEAN, tty : BOOLEAN]
    /\ exec \in {"start", "command", "raw", "guard"} \union InSession \union ExecEnded
    /\ wire \in Wires /\ program \in {"none", "running"} \union Exited
    /\ written \in Nat /\ shown \in Nat
    /\ terminal \in {"cooked", "raw"}
    /\ terminal = "raw" => exec \in {"guard", "killed"} \union InSession

\* What is on the screen is of what was written; a connection that is closed as
\* at the end of the command has all of it behind it.
ScreenSound ==
    /\ shown <= written
    /\ wire = "normal" => program \in Exited
    /\ options.single => wire = "none" /\ exec \in {"start", "done", "failed", "killed"}
    /\ options.single /\ exec = "done" => program = "passed" /\ shown = written
    /\ ~ options.single /\ exec \in {"restore", "done"} =>
          wire \in {"normal", "away"} /\ shown = written

TerminalSound == TerminalShape /\ ScreenSound

\* The beginning.
LEMMA TerminalStarts == TerminalInit => TerminalSound
BY DEF TerminalInit, TerminalSound, TerminalShape, ScreenSound, Wires, Exited, ExecEnded, InSession

\* Every step of the command, the container and the API keeps it.
LEMMA TerminalStep == TerminalSound /\ [TerminalNext]_terminalVars => TerminalSound'
<1> SUFFICES ASSUME TerminalSound, [TerminalNext]_terminalVars
             PROVE  TerminalSound'
  OBVIOUS
<1> USE DEF TerminalSound, TerminalShape, ScreenSound, Wires, Exited, ExecEnded, InSession, To
<1>1. CASE ExecOnce
  BY <1>1, TerminalAssumption DEF ExecOnce
<1>2. CASE DialTerminal
  BY <1>2 DEF DialTerminal
<1>3. CASE SendCommand
  BY <1>3 DEF SendCommand
<1>4. CASE MakeRaw
  BY <1>4 DEF MakeRaw
<1>5. CASE Guard
  BY <1>5 DEF Guard
<1>6. CASE ReadOutput
  BY <1>6 DEF ReadOutput
<1>7. CASE ReadClose
  BY <1>7 DEF ReadClose
<1>8. CASE Type
  BY <1>8 DEF Type
<1>9. CASE Restore
  BY <1>9 DEF Restore
<1>10. CASE Signalled
  BY <1>10 DEF Signalled
<1>11. CASE KilledExec
  BY <1>11 DEF KilledExec
<1>12. CASE ContainerWrites
  BY <1>12 DEF ContainerWrites
<1>13. CASE ContainerExits
  BY <1>13 DEF ContainerExits
<1>14. CASE WireEnds
  BY <1>14 DEF WireEnds
<1>15. CASE UNCHANGED terminalVars
  BY <1>15 DEF terminalVars
<1> QED
  BY <1>1, <1>2, <1>3, <1>4, <1>5, <1>6, <1>7, <1>8, <1>9, <1>10, <1>11, <1>12, <1>13, <1>14,
     <1>15 DEF TerminalNext

\* galaxy exec shows what the container wrote and gives the terminal back,
\* however much is printed and typed.
THEOREM SessionShown == TerminalSpec => []SessionIsShown
<1>1. TerminalSound => SessionIsShown
  BY DEF TerminalSound, TerminalShape, ScreenSound, SessionIsShown, Wires, Exited, ExecEnded, InSession
<1> QED
  BY <1>1, TerminalStarts, TerminalStep, PTL DEF TerminalSpec


-----------------------------------------------------------------------------
(* The project of a directory (init, switch, delete).                      *)

FileRecords == [default : ProjectIds, listed : Seq(Listed)]
Bindings == {f \in FileRecords : f.listed # <<>> /\ f.default \in Ids(f)}
CatalogProjects == [develop : BOOLEAN, repo : Sources]

Tasks == [command : {"init", "switch", "delete"},
          at : {"start", "select", "basic", "repository", "clone", "create", "save", "remove",
                "done", "failed"},
          loaded : {NoFile} \union Bindings, id : ProjectIds \union {NoProject},
          src : Sources, fresh : BOOLEAN]

\* A file, now or as it was loaded, lists its default; a project that builds from
\* an image has no repository.
DirectoryShape ==
    /\ projectFile \in {NoFile} \union Bindings
    /\ tree \in [remote : Sources, empty : BOOLEAN]
    /\ catalog \in [ProjectIds -> {NoProject} \union CatalogProjects]
    /\ \A p \in ProjectIds : catalog[p] # NoProject /\ ~catalog[p].develop =>
          catalog[p].repo = NoRepository
    /\ task \in Tasks
    /\ task.at \in {"basic", "repository", "save"} => task.id \in ProjectIds

\* What an init that nobody disturbs knows of the project it has chosen.
ChosenIsThere == task.id \in ProjectIds /\ catalog[task.id] # NoProject
InitKnows ==
    /\ At("init", "start") \/ At("init", "select") =>
          task.id = NoProject /\ task.src = NoRepository
    /\ At("init", "basic") => ChosenIsThere /\ task.src = NoRepository
    /\ At("init", "repository") => ChosenIsThere /\ catalog[task.id].develop
    /\ At("init", "clone") /\ task.id # NoProject => ChosenIsThere /\ catalog[task.id].repo = task.src
    /\ At("init", "create") => task.id = NoProject /\ task.src = tree.remote
    /\ At("init", "save") =>
          /\ ChosenIsThere /\ catalog[task.id].repo = task.src
          /\ catalog[task.id].develop => tree.remote = task.src
    /\ At("init", "done") =>
          /\ ChosenIsThere /\ projectFile # NoFile
          /\ Ids(projectFile) = {task.id} /\ projectFile.listed[1].src = catalog[task.id].repo
          /\ catalog[task.id].develop => tree.remote = catalog[task.id].repo

DirectorySound == DirectoryShape /\ (task.fresh => InitKnows)

\* A file that lists one project, which is its default.
LEMMA OneBinding ==
    ASSUME NEW p \in ProjectIds, NEW s \in Sources
    PROVE  LET f == [listed |-> <<[id |-> p, src |-> s]>>, default |-> p]
           IN f \in Bindings /\ f # NoFile /\ Ids(f) = {p} /\ f.listed[1].src = s
<1> DEFINE e == [id |-> p, src |-> s]
           f == [listed |-> <<e>>, default |-> p]
<1>1. e \in Listed /\ e.id = p /\ e.src = s
  BY DEF Listed
<1> HIDE DEF e
<1>2. /\ f.listed = <<e>> /\ f.default = p /\ <<e>> \in Seq(Listed)
      /\ <<e>> # <<>> /\ DOMAIN <<e>> = {1} /\ <<e>>[1] = e
  BY <1>1
<1>3. f \in FileRecords
  BY <1>2 DEF FileRecords
<1>4. f # NoFile
  BY <1>3, ProjectAssumption DEF FileRecords
<1>5. Ids(f) = {p}
  BY <1>1, <1>2, <1>4 DEF Ids
<1> QED
  BY <1>1, <1>2, <1>3, <1>4, <1>5 DEF Bindings, e

\* A file with another of its projects as the default.
LEMMA OtherDefault ==
    ASSUME NEW f \in Bindings, NEW p \in Ids(f), f # NoFile
    PROVE  [listed |-> f.listed, default |-> p] \in Bindings
<1> DEFINE g == [listed |-> f.listed, default |-> p]
<1>1. f \in FileRecords /\ f.listed # <<>> /\ f.listed \in Seq(Listed)
  BY DEF Bindings, FileRecords
<1>2. p \in ProjectIds
  <2>1. PICK i \in DOMAIN f.listed : p = f.listed[i].id
    BY DEF Ids
  <2>2. f.listed[i] \in Listed
    BY <1>1
  <2> QED
    BY <2>1, <2>2 DEF Listed
<1>3. g \in FileRecords /\ g.listed = f.listed /\ g.default = p
  BY <1>1, <1>2 DEF FileRecords
<1>4. g # NoFile
  BY <1>3, ProjectAssumption DEF FileRecords
<1>5. Ids(g) = Ids(f)
  BY <1>3, <1>4 DEF Ids
<1> QED
  BY <1>1, <1>3, <1>5 DEF Bindings

\* The first project of a file is one of them.
LEMMA FirstListed ==
    ASSUME NEW f \in Bindings, f # NoFile
    PROVE  f.listed[1].id \in Ids(f) /\ f.listed[1].id \in ProjectIds
<1>1. f.listed \in Seq(Listed) /\ f.listed # <<>>
  BY DEF Bindings, FileRecords
<1>2. 1 \in DOMAIN f.listed /\ f.listed[1] \in Listed
  BY <1>1
<1> QED
  BY <1>2 DEF Ids, Listed

\* The file with its first project as the default, as delete project leaves it.
LEMMA ForgottenBinds ==
    ASSUME NEW f \in Bindings, f # NoFile, NEW p
    PROVE  Forgotten(f, p) \in {NoFile} \union Bindings
<1>1. CASE Len(f.listed) = 1 /\ f.listed[1].id = p
  BY <1>1 DEF Forgotten
<1>2. CASE ~(Len(f.listed) = 1 /\ f.listed[1].id = p)
  <2>1. f \in FileRecords
    BY DEF Bindings
  <2>2. [f EXCEPT !.default = f.listed[1].id] = [listed |-> f.listed, default |-> f.listed[1].id]
    BY <2>1 DEF FileRecords
  <2>3. Forgotten(f, p) = [listed |-> f.listed, default |-> f.listed[1].id]
    BY <1>2, <2>2 DEF Forgotten
  <2>4. f.listed[1].id \in Ids(f)
    BY FirstListed
  <2> QED
    BY <2>3, <2>4, OtherDefault
<1> QED
  BY <1>1, <1>2

\* The projects that others or init create.
LEMMA NewProjects ==
    /\ \A u \in Sources : /\ Project(TRUE, u) \in CatalogProjects
                          /\ Project(TRUE, u).develop /\ Project(TRUE, u).repo = u
    /\ Projects0 \subseteq CatalogProjects
    /\ \A q \in Projects0 : ~q.develop => q.repo = NoRepository
    /\ NoProject \notin CatalogProjects /\ NoProject \notin ProjectIds
BY ProjectAssumption DEF Project, Projects0, CatalogProjects, Sources

\* A task before its first request.
LEMMA BeginTask ==
    ASSUME NEW c \in {"init", "switch", "delete"}
    PROVE  /\ Begin(c) \in Tasks /\ Begin(c).at = "start"
           /\ Begin(c).id = NoProject /\ Begin(c).src = NoRepository
BY DEF Begin, Tasks, Sources


-----------------------------------------------------------------------------
\* It holds before a task begins.
LEMMA DirectoryStarts == ProjectInit => DirectorySound
<1> SUFFICES ASSUME ProjectInit PROVE DirectorySound
  OBVIOUS
<1>1. projectFile \in {NoFile} \union Bindings
  BY ProjectAssumption DEF ProjectInit, Bindings, FileRecords
<1>2. tree \in [remote : Sources, empty : BOOLEAN]
  <2>1. CASE tree \in [remote : Sources, empty : {FALSE}]
    BY <2>1
  <2>2. CASE tree = [remote |-> NoRepository, empty |-> TRUE]
    BY <2>2 DEF Sources
  <2> QED
    BY <2>1, <2>2 DEF ProjectInit
<1>3. catalog \in [ProjectIds -> {NoProject} \union Projects0]
  BY DEF ProjectInit
<1>4. catalog \in [ProjectIds -> {NoProject} \union CatalogProjects]
  BY <1>3, NewProjects
<1>5. \A p \in ProjectIds : catalog[p] # NoProject /\ ~catalog[p].develop =>
          catalog[p].repo = NoRepository
  BY <1>3, NewProjects
<1>6. task \in Tasks /\ task.at = "start" /\ task.id = NoProject /\ task.src = NoRepository
  BY BeginTask DEF ProjectInit
<1>7. InitKnows
  BY <1>6 DEF InitKnows, At
<1> QED
  BY <1>1, <1>2, <1>4, <1>5, <1>6, <1>7 DEF DirectorySound, DirectoryShape

\* No step of a task, and none of others, breaks it.
LEMMA DirectoryStep == DirectorySound /\ [ProjectNext]_projectVars => DirectorySound'
<1> SUFFICES ASSUME DirectorySound, [ProjectNext]_projectVars
             PROVE  DirectorySound'
  OBVIOUS
<1> USE DEF At, Does
<1>t. /\ task \in Tasks /\ projectFile \in {NoFile} \union Bindings
      /\ tree \in [remote : Sources, empty : BOOLEAN]
      /\ catalog \in [ProjectIds -> {NoProject} \union CatalogProjects]
  BY DEF DirectorySound, DirectoryShape
<1>k. task.fresh => InitKnows
  BY DEF DirectorySound
<1>i. task.at \in {"basic", "repository", "save"} => task.id \in ProjectIds
  BY DEF DirectorySound, DirectoryShape
<1>a. ASSUME ApiSame, UNCHANGED projectFile, task' \in Tasks, task'.fresh => InitKnows',
             task'.at \in {"basic", "repository", "save"} => task'.id \in ProjectIds
      PROVE  DirectorySound'
  BY <1>a DEF DirectorySound, DirectoryShape, ApiSame
<1>1. CASE LoadProject
  <2>1. task.at = "start" /\ task' = [task EXCEPT !.at = "select", !.loaded = projectFile]
        /\ ApiSame /\ UNCHANGED projectFile
    BY <1>1 DEF LoadProject
  <2>2. /\ task' \in Tasks /\ task'.at = "select" /\ task'.id = task.id /\ task'.src = task.src
        /\ task'.fresh = task.fresh /\ task'.command = task.command
    BY <2>1, <1>t DEF Tasks
  <2> QED
    BY <2>1, <2>2, <1>a, <1>k DEF InitKnows
<1>2. CASE GiveUpTask
  <2>1. task' = [task EXCEPT !.at = "failed"] /\ ApiSame /\ UNCHANGED projectFile
    BY <1>2 DEF GiveUpTask
  <2>2. task' \in Tasks /\ task'.at = "failed"
    BY <2>1, <1>t DEF Tasks
  <2> QED
    BY <2>1, <2>2, <1>a DEF InitKnows
<1>3. CASE NextTask
  <2>1. PICK c \in {"init", "switch", "delete"} : task' = Begin(c)
    BY <1>3 DEF NextTask
  <2>2. task' \in Tasks /\ task'.at = "start" /\ task'.id = NoProject /\ task'.src = NoRepository
    BY <2>1, BeginTask
  <2>3. InitKnows'
    BY <2>2 DEF InitKnows
  <2>4. UNCHANGED <<projectFile, tree, catalog>>
    BY <1>3 DEF NextTask
  <2> QED
    BY <2>2, <2>3, <2>4 DEF DirectorySound, DirectoryShape
<1>4. CASE OthersAct
  <2>1. task' = [task EXCEPT !.fresh = FALSE]
    BY <1>4 DEF OthersAct
  <2>2. /\ task' \in Tasks /\ ~task'.fresh
        /\ task'.at = task.at /\ task'.id = task.id
    BY <2>1, <1>t DEF Tasks
  <2>3. CASE UNCHANGED <<projectFile, tree>>
             /\ \E p \in ProjectIds : catalog' \in {[catalog EXCEPT ![p] = q] : q \in {NoProject} \union Projects0}
    <3>1. PICK p \in ProjectIds, q \in {NoProject} \union Projects0 : catalog' = [catalog EXCEPT ![p] = q]
      BY <2>3
    <3> QED
      BY <2>2, <2>3, <3>1, <1>t, NewProjects DEF DirectorySound, DirectoryShape
  <2>4. CASE UNCHANGED catalog /\ projectFile' \in ProjectFiles
             /\ tree' = [tree EXCEPT !.empty = @ /\ projectFile' = NoFile]
    <3>1. projectFile' \in {NoFile} \union Bindings
      BY <2>4, ProjectAssumption DEF Bindings, FileRecords
    <3>2. tree' \in [remote : Sources, empty : BOOLEAN]
      BY <2>4, <1>t
    <3> QED
      BY <2>2, <2>4, <3>1, <3>2 DEF DirectorySound, DirectoryShape
  <2> QED
    BY <1>4, <2>3, <2>4 DEF OthersAct
<1>5. CASE SelectProject
  <2>1. /\ UNCHANGED <<projectFile, tree, catalog>> /\ ApiSame
        /\ task.command = "init" /\ task.at = "select"
    BY <1>5 DEF SelectProject, ApiSame
  <2>2. ASSUME NEW p \in ProjectIds, catalog[p] # NoProject,
               task' = [task EXCEPT !.at = "basic", !.id = p]
        PROVE  DirectorySound'
    <3>1. /\ task' \in Tasks /\ task'.at = "basic" /\ task'.id = p /\ task'.fresh = task.fresh
          /\ task'.src = task.src
      BY <2>2, <1>t DEF Tasks
    <3> QED
      BY <2>1, <2>2, <3>1, <1>a, <1>k DEF InitKnows, ChosenIsThere
  <2>3. ASSUME task' = [task EXCEPT !.at = IF tree.remote = NoRepository THEN "clone" ELSE "create",
                                    !.src = tree.remote]
        PROVE  DirectorySound'
    <3>1. /\ task' \in Tasks /\ task'.at \in {"clone", "create"} /\ task'.id = task.id
          /\ task'.fresh = task.fresh /\ task'.src = tree.remote
      BY <2>3, <1>t DEF Tasks
    <3> QED
      BY <2>1, <3>1, <1>a, <1>k DEF InitKnows
  <2> QED
    BY <1>5, <2>2, <2>3 DEF SelectProject
<1>6. CASE ReadBasic
  <2> DEFINE p == catalog[task.id]
             at == IF p = NoProject THEN "failed" ELSE IF p.develop THEN "repository" ELSE "save"
  <2>1. /\ UNCHANGED <<projectFile, tree, catalog>> /\ ApiSame
        /\ task.command = "init" /\ task.at = "basic" /\ task' = [task EXCEPT !.at = at]
    BY <1>6 DEF ReadBasic, ApiSame
  <2>2. /\ task' \in Tasks /\ task'.at = at /\ task'.id = task.id /\ task'.fresh = task.fresh
        /\ task'.src = task.src
    BY <2>1, <1>t DEF Tasks
  <2> QED
    BY <2>1, <2>2, <1>a, <1>k, <1>i DEF InitKnows, ChosenIsThere, DirectorySound, DirectoryShape
<1>7. CASE ReadRepository
  <2> DEFINE p == catalog[task.id]
             known == p # NoProject /\ p.repo # NoRepository
             src == IF known THEN p.repo ELSE NoRepository
             at == IF known THEN Compared(p.repo) ELSE "failed"
  <2>1. /\ UNCHANGED <<projectFile, tree, catalog>> /\ ApiSame
        /\ task.command = "init" /\ task.at = "repository"
        /\ task' = [task EXCEPT !.src = src, !.at = at]
    BY <1>7 DEF ReadRepository, ApiSame
  <2>2. at \in {"clone", "save", "failed"} /\ (at = "save" => known /\ tree.remote = p.repo)
        /\ (at = "clone" => known)
    BY DEF Compared
  <2>3. src \in Sources
    BY <2>1, <1>t, <1>i DEF CatalogProjects, Sources
  <2>4. /\ task' \in Tasks /\ task'.at = at /\ task'.id = task.id /\ task'.fresh = task.fresh
        /\ task'.src = src
    BY <2>1, <2>2, <2>3, <1>t DEF Tasks
  <2> QED
    BY <2>1, <2>2, <2>4, <1>a, <1>k, <1>i DEF InitKnows, ChosenIsThere
<1>8. CASE CloneRepository
  <2>1. PICK u \in IF task.id = NoProject THEN Urls ELSE {task.src} :
          /\ tree' = [remote |-> u, empty |-> FALSE]
          /\ task' = [task EXCEPT !.src = u, !.at = IF task.id = NoProject THEN "create" ELSE "save"]
    BY <1>8 DEF CloneRepository
  <2>2. /\ UNCHANGED <<projectFile, catalog>> /\ task.command = "init" /\ task.at = "clone"
    BY <1>8 DEF CloneRepository
  <2>3. u \in Sources
    BY <2>1, <1>t DEF Sources, Tasks
  <2>4. /\ task' \in Tasks /\ task'.at = IF task.id = NoProject THEN "create" ELSE "save"
        /\ task'.id = task.id /\ task'.fresh = task.fresh /\ task'.src = u
    BY <2>1, <2>3, <1>t DEF Tasks
  <2>5. tree' \in [remote : Sources, empty : BOOLEAN] /\ tree'.remote = u
    BY <2>1, <2>3
  <2>6. task'.fresh => InitKnows'
    BY <2>1, <2>2, <2>4, <2>5, <1>k DEF InitKnows, ChosenIsThere
  <2>7. task'.at \in {"basic", "repository", "save"} => task'.id \in ProjectIds
    BY <2>4, <1>t DEF Tasks
  <2> QED
    BY <2>2, <2>4, <2>5, <2>6, <2>7 DEF DirectorySound, DirectoryShape
<1>9. CASE CreateProject
  <2>1. PICK p \in ProjectIds, at \in {"save", "failed"} :
          /\ catalog' = [catalog EXCEPT ![p] = Project(TRUE, task.src)]
          /\ task' = [task EXCEPT !.at = at, !.id = p]
    BY <1>9 DEF CreateProject
  <2>2. /\ UNCHANGED <<projectFile, tree>> /\ task.command = "init" /\ task.at = "create"
    BY <1>9 DEF CreateProject
  <2>3. /\ task' \in Tasks /\ task'.at = at /\ task'.id = p /\ task'.fresh = task.fresh
        /\ task'.src = task.src
    BY <2>1, <1>t DEF Tasks
  <2>4. task.src \in Sources
    BY <1>t DEF Tasks
  <2> DEFINE new == Project(TRUE, task.src)
  <2>5. /\ new \in CatalogProjects /\ new # NoProject
        /\ new.develop /\ new.repo = task.src
    BY <2>4, NewProjects
  <2> HIDE DEF new
  <2>6. /\ catalog' \in [ProjectIds -> {NoProject} \union CatalogProjects]
        /\ catalog'[p] = new /\ \A q \in ProjectIds \ {p} : catalog'[q] = catalog[q]
    BY <2>1, <2>5, <1>t DEF new
  <2>7. \A q \in ProjectIds : catalog'[q] # NoProject /\ ~catalog'[q].develop =>
          catalog'[q].repo = NoRepository
    BY <2>5, <2>6 DEF DirectorySound, DirectoryShape
  <2>8. task'.fresh => InitKnows'
    BY <2>2, <2>3, <2>5, <2>6, <1>k DEF InitKnows, ChosenIsThere
  <2> QED
    BY <2>2, <2>3, <2>6, <2>7, <2>8, <1>t DEF DirectorySound, DirectoryShape
<1>10. CASE SaveInit
  <2> DEFINE f == [listed |-> <<[id |-> task.id, src |-> task.src]>>, default |-> task.id]
  <2>1. /\ UNCHANGED catalog /\ task.command = "init" /\ task.at = "save"
        /\ task' = [task EXCEPT !.at = "done"] /\ tree' = [tree EXCEPT !.empty = FALSE]
    BY <1>10 DEF SaveInit
  <2>2. task.id \in ProjectIds /\ task.src \in Sources
    BY <2>1, <1>i, <1>t DEF Tasks
  <2>3. projectFile' = f
    <3> DEFINE l == <<[id |-> task.id, src |-> task.src]>>
    <3>1. l[1].id = task.id
      OBVIOUS
    <3>2. projectFile' = [listed |-> l, default |-> l[1].id]
      BY <1>10 DEF SaveInit, SaveProjects
    <3> QED
      BY <3>1, <3>2
  <2>4. f \in Bindings /\ f # NoFile /\ Ids(f) = {task.id} /\ f.listed[1].src = task.src
    BY <2>2, OneBinding
  <2> HIDE DEF f
  <2>5. /\ task' \in Tasks /\ task'.at = "done" /\ task'.id = task.id /\ task'.fresh = task.fresh
        /\ task'.src = task.src
    BY <2>1, <1>t DEF Tasks
  <2>6. tree' \in [remote : Sources, empty : BOOLEAN] /\ tree'.remote = tree.remote
    BY <2>1, <1>t
  <2>7. task'.fresh => InitKnows'
    BY <2>1, <2>3, <2>4, <2>5, <2>6, <1>k DEF InitKnows, ChosenIsThere
  <2> QED
    BY <2>1, <2>3, <2>4, <2>5, <2>6, <2>7 DEF DirectorySound, DirectoryShape
<1>11. CASE SwitchProject
  <2>1. /\ UNCHANGED catalog /\ task.command = "switch" /\ task' = [task EXCEPT !.at = "done"]
        /\ tree' = [tree EXCEPT !.empty = @ /\ projectFile' = NoFile] /\ task.loaded # NoFile
    BY <1>11 DEF SwitchProject
  <2>2. task.loaded \in Bindings
    BY <2>1, <1>t DEF Tasks
  <2>3. projectFile' \in {NoFile} \union Bindings
    <3>1. CASE UNCHANGED projectFile
      BY <3>1, <1>t
    <3>2. ASSUME NEW p \in Ids(task.loaded), SaveProjects(task.loaded.listed, p)
          PROVE  projectFile' \in Bindings
      <4>1. CASE p = NoProject
        BY <3>2, <4>1, <2>1, <2>2, FirstListed, OtherDefault DEF SaveProjects
      <4>2. CASE p # NoProject
        BY <3>2, <4>2, <2>1, <2>2, OtherDefault DEF SaveProjects
      <4> QED
        BY <4>1, <4>2
    <3> QED
      BY <3>1, <3>2, <1>11 DEF SwitchProject
  <2>4. task' \in Tasks /\ task'.at = "done" /\ task'.command = "switch"
    BY <2>1, <1>t DEF Tasks
  <2>5. tree' \in [remote : Sources, empty : BOOLEAN]
    BY <2>1, <1>t
  <2> QED
    BY <2>1, <2>3, <2>4, <2>5 DEF DirectorySound, DirectoryShape, InitKnows
<1>12. CASE DeleteProject
  <2>1. PICK p \in ProjectIds, at \in {"remove", "failed"} :
          /\ catalog' = [catalog EXCEPT ![p] = NoProject]
          /\ task' = [task EXCEPT !.at = at, !.id = p]
    BY <1>12 DEF DeleteProject
  <2>2. /\ UNCHANGED <<projectFile, tree>> /\ task.command = "delete"
    BY <1>12 DEF DeleteProject
  <2>3. /\ task' \in Tasks /\ task'.at = at /\ task'.command = "delete"
    BY <2>1, <2>2, <1>t DEF Tasks
  <2>4. /\ catalog' \in [ProjectIds -> {NoProject} \union CatalogProjects]
        /\ \A q \in ProjectIds : catalog'[q] \in {NoProject, catalog[q]}
    BY <2>1, <1>t
  <2> QED
    BY <2>2, <2>3, <2>4 DEF DirectorySound, DirectoryShape, InitKnows
<1>13. CASE RemoveProject
  <2>1. /\ UNCHANGED <<tree, catalog>> /\ task.command = "delete"
    BY <1>13 DEF RemoveProject, ApiSame
  <2>2. PICK at \in {"done", "failed"} : task' = [task EXCEPT !.at = at]
    BY <1>13 DEF RemoveProject
  <2>3. task' \in Tasks /\ task'.at = at /\ task'.command = "delete"
    BY <2>1, <2>2, <1>t DEF Tasks
  <2>4. projectFile' \in {NoFile} \union Bindings
    <3>1. CASE UNCHANGED projectFile
      BY <3>1, <1>t
    <3>2. CASE task.loaded # NoFile /\ projectFile' = Forgotten(task.loaded, task.id)
      <4>1. task.loaded \in Bindings
        BY <3>2, <1>t DEF Tasks
      <4> QED
        BY <4>1, <3>2, ForgottenBinds
    <3> QED
      BY <3>1, <3>2, <1>13 DEF RemoveProject
  <2> QED
    BY <2>1, <2>3, <2>4 DEF DirectorySound, DirectoryShape, InitKnows
<1>14. CASE UNCHANGED projectVars
  BY <1>14 DEF projectVars, DirectorySound, DirectoryShape, InitKnows, ChosenIsThere
<1> QED
  BY <1>1, <1>2, <1>3, <1>4, <1>5, <1>6, <1>7, <1>8, <1>9, <1>10, <1>11, <1>12, <1>13, <1>14
     DEF ProjectNext

\* The default of a file is one of its projects, and an init binds the directory
\* to the project it has chosen or created, for any number of projects and commands.
THEOREM DirectoryBound == ProjectSpec => []DirectoryIsBound
<1>1. DirectorySound => DirectoryIsBound
  BY DEF DirectorySound, DirectoryShape, DirectoryIsBound, InitKnows, ChosenIsThere, Bindings, At
<1> QED
  BY <1>1, DirectoryStarts, DirectoryStep, PTL DEF ProjectSpec

-----------------------------------------------------------------------------
(* The commands on resources.                                              *)

ErrandFields == {"order", "at", "shown", "before", "pick", "chosen", "image", "port", "certificate",
                 "left", "moves", "sure"}
PlatformFields == {"runtimes", "routes", "certificates", "images", "releases", "targets"}
Stopped == {"done", "failed", "declined"}

\* The variables are records of these fields, and what the command started with
\* does not change.
ErrandShape ==
    /\ DOMAIN errand = ErrandFields
    /\ errand.order \in Orders /\ errand.before \in Platforms /\ errand.moves \in Nat
    /\ DOMAIN platform = PlatformFields

\* As long as no other client acts: what was selected is what was meant.
RuntimeSelected(b) ==
    /\ Asked.https = "no" => errand.certificate = 0
    /\ Doing({"scale", "reload"}, "change") => errand.pick \in Preferred(b.runtimes, Asked.runtime)
    /\ Asked.command = "deploy" /\ errand.at \in {"runtimes", "update", "confirm", "target"} =>
          errand.image \in Used(b.images) /\ TagOk(Asked, b, errand.image)
    /\ Doing({"deploy"}, "update") \/ Doing({"deploy"}, "confirm") =>
          ~Asked.new /\ Used(b.runtimes) # {}
    /\ Doing({"deploy"}, "target") => (Asked.new \/ Used(b.runtimes) = {}) /\ errand.shown = b
    /\ Asked.command \in Gateway /\ errand.at \in {"port", "certificate", "create"} =>
          \E u \in Preferred(b.runtimes, Asked.runtime) : errand.chosen = b.runtimes[u]
    /\ Asked.command \in Gateway /\ errand.at \in {"certificate", "create"} =>
          errand.port # 0 /\ errand.port \in {Asked.port} \union errand.chosen.ports
    /\ Doing(Gateway, "certificate") => Asked.https # "no"
    /\ Doing(Gateway, "create") /\ Asked.https \notin {"no", "import"} =>
          /\ errand.certificate \in Used(b.certificates)
          /\ b.certificates[errand.certificate].title \in Similar[Asked.title]
EntrySelected(b) ==
    /\ Doing({"edit domain"}, "edit") \/ Doing({"edit domain"}, "update") =>
          /\ errand.pick \in AtDomain(b.routes, Asked.domain) /\ errand.chosen # Vacant
          /\ \A f \in {"domain", "location", "cluster", "service"} :
                errand.chosen[f] = b.routes[errand.pick][f]
          /\ DOMAIN errand.chosen = DOMAIN b.routes[errand.pick]
    /\ Doing({"delete route"}, "delete") => errand.pick \in RoutesMeant(b.routes, Asked)
    /\ Doing({"delete certificate"}, "delete") =>
          /\ errand.pick \in Used(b.certificates)
          /\ b.certificates[errand.pick].title \in Similar[Asked.title]
SelectedFrom(b) == RuntimeSelected(b) /\ EntrySelected(b)

\* And the platform is what the command has made of it so far.
Importing == Doing(Gateway, "create") /\ Asked.https = "import"
Deleting == Doing({"delete domain"}, "delete")
Made(b) ==
    /\ errand.at \notin Stopped /\ ~Importing /\ ~Deleting => platform = b
    /\ Importing => \E i \in Unused(b.certificates) :
                       /\ errand.certificate = i
                       /\ platform = [b EXCEPT !.certificates[i] = [title |-> Asked.title]]
    /\ Deleting => LET S == AtDomain(b.routes, Asked.domain)
                   IN errand.left \subseteq S /\ errand.shown = b /\ platform = Without(b, S \ errand.left)
    /\ errand.at = "done" => Ordered(Asked, b, platform)
    /\ errand.at \in {"failed", "declined"} /\ errand.sure => LeftBehind(Asked, b, platform)

\* Whatever others do: the routes of the list that are not left are gone.
Emptied ==
    /\ Deleting => \A i \in AtDomain(errand.shown.routes, Asked.domain) :
                      /\ i \in DOMAIN platform.routes
                      /\ i \notin errand.left => platform.routes[i] = Vacant
    /\ Doing({"delete domain"}, "done") =>
         \A i \in AtDomain(errand.shown.routes, Asked.domain) : platform.routes[i] = Vacant

ErrandSound ==
    ErrandShape /\ Emptied /\ (errand.moves = 0 => SelectedFrom(errand.before) /\ Made(errand.before))

\* A command begins in order.
LEMMA ErrandStarts == ResourceInit => ErrandSound
<1> SUFFICES ASSUME ResourceInit PROVE ErrandSound
  OBVIOUS
<1>1. PICK o \in Orders : errand = Ready(o)
  BY DEF ResourceInit
<1>2. /\ DOMAIN errand = ErrandFields /\ errand.order = o /\ errand.at = "start" /\ errand.before = platform
      /\ errand.moves = 0 /\ errand.certificate = 0
  BY <1>1 DEF Ready, ErrandFields
<1>3. ErrandShape
  BY <1>2, ResourceAssumption DEF ResourceInit, ErrandShape, PlatformRecord, PlatformFields
<1>4. Emptied
  BY <1>2 DEF Emptied, Deleting, Doing, Asked
<1>5. SelectedFrom(errand.before) /\ Made(errand.before)
  BY <1>2 DEF SelectedFrom, RuntimeSelected, EntrySelected, Made, Importing, Deleting, Doing, Stopped, Asked
<1> QED
  BY <1>3, <1>4, <1>5 DEF ErrandSound

\* The record of the command after a failure.
LEMMA FailsRecord ==
    ASSUME ErrandShape, Fails
    PROVE  /\ DOMAIN errand' = ErrandFields /\ errand'.at = "failed" /\ UNCHANGED platform
           /\ errand'.order = errand.order /\ errand'.before = errand.before /\ errand'.moves = errand.moves
           /\ errand'.certificate = errand.certificate /\ errand'.sure = errand.sure
BY DEF ErrandShape, ErrandFields, Fails, Turn

\* Removing nothing and the one changed field.
LEMMA PlatformFacts ==
    ASSUME NEW b \in Platforms
    PROVE  /\ DOMAIN b = PlatformFields /\ Without(b, {}) = b
           /\ b \in PlatformRecord
BY ResourceAssumption DEF Without, PlatformRecord, PlatformFields

\* One entry changed.
LEMMA OneEntry ==
    ASSUME NEW b \in PlatformRecord, NEW v
    PROVE  /\ \A i \in DOMAIN b.runtimes :
                 LET p == [b EXCEPT !.runtimes[i] = v]
                 IN p.runtimes[i] = v /\ p = [b EXCEPT !.runtimes[i] = p.runtimes[i]]
           /\ \A i \in DOMAIN b.routes :
                 LET p == [b EXCEPT !.routes[i] = v]
                 IN p.routes[i] = v /\ p = [b EXCEPT !.routes[i] = p.routes[i]]
           /\ \A i \in DOMAIN b.certificates :
                 LET p == [b EXCEPT !.certificates[i] = v]
                 IN p.certificates[i] = v /\ p = [b EXCEPT !.certificates[i] = p.certificates[i]]
BY DEF PlatformRecord

\* A failure leaves behind what it may.
LEMMA FailsSound == ASSUME ErrandSound, errand.at \notin Stopped, Fails PROVE ErrandSound'
<1>1. /\ DOMAIN errand' = ErrandFields /\ errand'.at = "failed" /\ platform' = platform
      /\ errand'.order = errand.order /\ errand'.before = errand.before /\ errand'.moves = errand.moves
      /\ errand'.certificate = errand.certificate
  BY FailsRecord DEF ErrandSound
<1>2. ErrandShape' /\ Emptied'
  BY <1>1 DEF ErrandSound, ErrandShape, Emptied, Deleting, Doing, Asked
<1>3. ASSUME errand.moves = 0
      PROVE  SelectedFrom(errand.before)' /\ Made(errand.before)'
  <2> PICK b \in Platforms : b = errand.before
    BY DEF ErrandSound, ErrandShape
  <2>0. b \in PlatformRecord
    BY PlatformFacts
  <2>1. SelectedFrom(errand.before)'
    BY <1>1, <1>3 DEF ErrandSound, SelectedFrom, RuntimeSelected, EntrySelected, Doing, Asked
  <2>2. LeftBehind(Asked', b, platform')
    <3>1. CASE Importing
      <4>1. PICK i \in Unused(b.certificates) : platform = [b EXCEPT !.certificates[i] = [title |-> Asked.title]]
        BY <1>3, <3>1 DEF ErrandSound, Made
      <4>2. /\ platform.certificates[i] = [title |-> Asked.title]
            /\ platform = [b EXCEPT !.certificates[i] = platform.certificates[i]]
        BY <2>0, <4>1, OneEntry DEF Unused
      <4>3. [title |-> Asked.title] # Vacant /\ [title |-> Asked.title].title = Asked.title
        BY DEF Vacant
      <4>4. CertificateImported(Asked', b, platform')
        BY <1>1, <4>1, <4>2, <4>3 DEF CertificateImported, OnlyOne, Asked
      <4> QED
        BY <1>1, <3>1, <4>4 DEF LeftBehind, Importing, Doing, Asked
    <3>2. CASE Deleting
      <4>1. platform = Without(b, AtDomain(b.routes, Asked.domain) \ errand.left)
        BY <1>3, <3>2 DEF ErrandSound, Made
      <4> QED
        BY <1>1, <3>2, <4>1 DEF LeftBehind, Deleting, Doing, Without, Asked
    <3>3. CASE ~Importing /\ ~Deleting
      BY <1>1, <1>3, <3>3 DEF ErrandSound, Made, LeftBehind, Asked
    <3> QED
      BY <3>1, <3>2, <3>3
  <2> QED
    BY <1>1, <2>1, <2>2 DEF Made, Importing, Deleting, Doing, Stopped, Asked
<1> QED
  BY <1>1, <1>2, <1>3 DEF ErrandSound

\* A request of which the answer is lost leaves nothing to say.
LEMMA LostSound ==
    ASSUME ErrandSound, DOMAIN platform' = PlatformFields,
           errand' = [errand EXCEPT !.at = "failed", !.sure = FALSE]
    PROVE  ErrandSound'
<1>1. /\ DOMAIN errand' = ErrandFields /\ errand'.at = "failed" /\ errand'.sure = FALSE
      /\ errand'.order = errand.order /\ errand'.before = errand.before /\ errand'.moves = errand.moves
      /\ errand'.certificate = errand.certificate
  BY DEF ErrandSound, ErrandShape, ErrandFields
<1>2. ErrandShape' /\ Emptied'
  BY <1>1 DEF ErrandSound, ErrandShape, Emptied, Deleting, Doing, Asked
<1>3. ASSUME errand.moves = 0
      PROVE  SelectedFrom(errand.before)' /\ Made(errand.before)'
  BY <1>1, <1>3
     DEF ErrandSound, SelectedFrom, RuntimeSelected, EntrySelected, Made, Importing, Deleting, Doing, Stopped, Asked
<1> QED
  BY <1>1, <1>2, <1>3 DEF ErrandSound

\* The last request of a command, when it has done what was asked.
LEMMA DoneSound ==
    ASSUME ErrandSound, Asked.command # "delete domain", DOMAIN platform' = PlatformFields,
           errand' = Stands("done"),
           errand.moves = 0 => Ordered(Asked, errand.before, platform)'
    PROVE  ErrandSound'
<1>1. /\ DOMAIN errand' = ErrandFields /\ errand'.at = "done"
      /\ errand'.order = errand.order /\ errand'.before = errand.before /\ errand'.moves = errand.moves
      /\ errand'.certificate = errand.certificate
  BY DEF ErrandSound, ErrandShape, ErrandFields, Stands
<1>2. ErrandShape' /\ Emptied'
  BY <1>1 DEF ErrandSound, ErrandShape, Emptied, Deleting, Doing, Asked
<1>3. ASSUME errand.moves = 0
      PROVE  SelectedFrom(errand.before)' /\ Made(errand.before)'
  BY <1>1, <1>3
     DEF ErrandSound, SelectedFrom, RuntimeSelected, EntrySelected, Made, Importing, Deleting, Doing, Stopped, Asked
<1> QED
  BY <1>1, <1>2, <1>3 DEF ErrandSound

\* What a step in the middle of a command has to show.
SameErrand ==
    /\ DOMAIN errand' = ErrandFields
    /\ errand'.order = errand.order /\ errand'.before = errand.before /\ errand'.moves = errand.moves

\* A step that only selects.
LEMMA MiddleSound ==
    ASSUME ErrandSound, SameErrand, UNCHANGED platform,
           errand.at \notin Stopped, ~Importing, ~Deleting,
           errand'.at \notin Stopped, ~Importing', ~Deleting',
           errand.moves = 0 /\ platform = errand.before => SelectedFrom(errand.before)'
    PROVE  ErrandSound'
<1>1. ErrandShape' /\ Emptied'
  BY DEF ErrandSound, SameErrand, ErrandShape, Emptied, Deleting, Doing, Asked, Stopped
<1>2. ASSUME errand.moves = 0 PROVE SelectedFrom(errand.before)' /\ Made(errand.before)'
  <2>1. platform = errand.before
    BY <1>2 DEF ErrandSound, Made
  <2>2. SelectedFrom(errand.before)'
    BY <1>2, <2>1
  <2>3. platform' = errand'.before /\ errand'.at \notin {"done", "failed", "declined"}
    BY <2>1 DEF SameErrand, Stopped
  <2> QED
    BY <2>2, <2>3 DEF Made, Stopped
<1> QED
  BY <1>1, <1>2 DEF ErrandSound, SameErrand

\* scale, reload and the gateway: the runtime is one that was asked for.
LEMMA SelectRuntimeStep == ErrandSound /\ SelectRuntime => ErrandSound'
<1> SUFFICES ASSUME ErrandSound, SelectRuntime PROVE ErrandSound'
  OBVIOUS
<1> DEFINE S == {i \in Preferred(platform.runtimes, Asked.runtime) :
                    Asked.cluster \in {AnyOne, platform.runtimes[i].cluster}}
           at == IF Asked.command \in {"scale", "reload"} THEN "change" ELSE "port"
<1>1. CASE S = {}
  BY <1>1, FailsSound DEF SelectRuntime, Picks, Doing, Stopped
<1>2. ASSUME NEW i \in S, errand' = [errand EXCEPT !.pick = i, !.chosen = platform.runtimes[i], !.at = at],
             UNCHANGED platform
      PROVE  ErrandSound'
  <2>1. /\ SameErrand /\ errand'.pick = i /\ errand'.chosen = platform.runtimes[i] /\ errand'.at = at
        /\ errand'.certificate = errand.certificate
    BY <1>2 DEF ErrandSound, ErrandShape, ErrandFields, SameErrand
  <2>2. ASSUME errand.moves = 0, platform = errand.before PROVE SelectedFrom(errand.before)'
    <3>1. SelectedFrom(errand.before)
      BY <2>2 DEF ErrandSound
    <3> QED
      BY <2>1, <2>2, <3>1 DEF SelectedFrom, RuntimeSelected, EntrySelected, Doing, Asked, SameErrand, SelectRuntime
  <2> QED
    BY <1>2, <2>1, <2>2, MiddleSound DEF Doing, Asked, SameErrand, SelectRuntime, Importing, Deleting, Stopped
<1> QED
  BY <1>1, <1>2 DEF SelectRuntime, Picks, Turn

\* deploy: the image has the tag.
LEMMA SelectImageStep == ErrandSound /\ SelectImage => ErrandSound'
<1> SUFFICES ASSUME ErrandSound, SelectImage PROVE ErrandSound'
  OBVIOUS
<1> DEFINE S == {i \in Used(platform.images) : Asked.tag \in {AnyOne, platform.images[i].tag}}
<1>1. CASE S = {}
  BY <1>1, FailsSound DEF SelectImage, Doing, Stopped
<1>2. ASSUME NEW i \in S, errand' = [errand EXCEPT !.image = i, !.at = "runtimes"], UNCHANGED platform
      PROVE  ErrandSound'
  <2>1. /\ SameErrand /\ errand'.image = i /\ errand'.at = "runtimes"
        /\ errand'.certificate = errand.certificate
    BY <1>2 DEF ErrandSound, ErrandShape, ErrandFields, SameErrand
  <2>2. ASSUME errand.moves = 0, platform = errand.before PROVE SelectedFrom(errand.before)'
    <3>1. SelectedFrom(errand.before)
      BY <2>2 DEF ErrandSound
    <3> QED
      BY <2>1, <2>2, <3>1
         DEF SelectedFrom, RuntimeSelected, EntrySelected, Doing, Asked, SameErrand, SelectImage, TagOk, Gateway
  <2> QED
    BY <1>2, <2>1, <2>2, MiddleSound DEF Doing, Asked, SameErrand, SelectImage, Importing, Deleting, Stopped
<1> QED
  BY <1>1, <1>2 DEF SelectImage, Turn

\* It decides between an update and a new runtime by what it was shown.
LEMMA ListRuntimesStep == ErrandSound /\ ListRuntimes => ErrandSound'
<1> SUFFICES ASSUME ErrandSound, ListRuntimes PROVE ErrandSound'
  OBVIOUS
<1>1. /\ SameErrand /\ errand'.shown = platform /\ errand'.image = errand.image
      /\ errand'.at = IF Asked.new \/ Used(platform.runtimes) = {} THEN "target" ELSE "update"
      /\ errand'.certificate = errand.certificate /\ UNCHANGED platform
  BY DEF ErrandSound, ErrandShape, ErrandFields, SameErrand, ListRuntimes, Turn
<1>2. ASSUME errand.moves = 0, platform = errand.before PROVE SelectedFrom(errand.before)'
  <2>1. SelectedFrom(errand.before)
    BY <1>2 DEF ErrandSound
  <2> QED
    BY <1>1, <1>2, <2>1
       DEF SelectedFrom, RuntimeSelected, EntrySelected, Doing, Asked, SameErrand, ListRuntimes, TagOk, Gateway
<1> QED
  BY <1>1, <1>2, MiddleSound DEF Doing, Asked, SameErrand, ListRuntimes, Importing, Deleting, Stopped

\* The runtime to update is confirmed.
LEMMA SelectUpdatedStep == ErrandSound /\ SelectUpdated => ErrandSound'
<1> SUFFICES ASSUME ErrandSound, SelectUpdated PROVE ErrandSound'
  OBVIOUS
<1>1. CASE Used(platform.runtimes) = {}
  BY <1>1, FailsSound DEF SelectUpdated, Picks, Doing, Stopped
<1>2. ASSUME NEW i \in Used(platform.runtimes), UNCHANGED platform,
             errand' = [errand EXCEPT !.pick = i, !.chosen = platform.runtimes[i], !.at = "confirm"]
      PROVE  ErrandSound'
  <2>1. /\ SameErrand /\ errand'.at = "confirm" /\ errand'.image = errand.image
        /\ errand'.certificate = errand.certificate
    BY <1>2 DEF ErrandSound, ErrandShape, ErrandFields, SameErrand
  <2>2. ASSUME errand.moves = 0, platform = errand.before PROVE SelectedFrom(errand.before)'
    <3>1. SelectedFrom(errand.before)
      BY <2>2 DEF ErrandSound
    <3> QED
      BY <2>1, <2>2, <3>1
         DEF SelectedFrom, RuntimeSelected, EntrySelected, Doing, Asked, SameErrand, SelectUpdated, TagOk, Gateway
  <2> QED
    BY <1>2, <2>1, <2>2, MiddleSound DEF Doing, Asked, SameErrand, SelectUpdated, Importing, Deleting, Stopped
<1> QED
  BY <1>1, <1>2 DEF SelectUpdated, Picks, Turn

\* rollback: the release is used as it is found.
LEMMA SelectReleaseStep == ErrandSound /\ SelectRelease => ErrandSound'
<1> SUFFICES ASSUME ErrandSound, SelectRelease PROVE ErrandSound'
  OBVIOUS
<1> DEFINE S == IF Asked.release # 0 THEN {Asked.release} ELSE Used(platform.releases)
<1>1. CASE S = {}
  BY <1>1, FailsSound DEF SelectRelease, Picks, Doing, Stopped
<1>2. ASSUME NEW i \in S, UNCHANGED platform,
             errand' = [errand EXCEPT !.pick = i, !.chosen = platform.releases[i], !.at = "change"]
      PROVE  ErrandSound'
  <2>1. SameErrand /\ errand'.at = "change" /\ errand'.certificate = errand.certificate
    BY <1>2 DEF ErrandSound, ErrandShape, ErrandFields, SameErrand
  <2>2. ASSUME errand.moves = 0, platform = errand.before PROVE SelectedFrom(errand.before)'
    <3>1. SelectedFrom(errand.before)
      BY <2>2 DEF ErrandSound
    <3> QED
      BY <2>1, <2>2, <3>1
         DEF SelectedFrom, RuntimeSelected, EntrySelected, Doing, Asked, SameErrand, SelectRelease, Gateway
  <2> QED
    BY <1>2, <2>1, <2>2, MiddleSound DEF Doing, Asked, SameErrand, SelectRelease, Importing, Deleting, Stopped
<1> QED
  BY <1>1, <1>2 DEF SelectRelease, Picks, Turn

\* The gateway: the port is one of the runtime, or the one given, and is a port.
LEMMA SelectPortStep == ErrandSound /\ SelectPort => ErrandSound'
<1> SUFFICES ASSUME ErrandSound, SelectPort PROVE ErrandSound'
  OBVIOUS
<1>0. PICK port \in IF Asked.port # 0 THEN {Asked.port} ELSE errand.chosen.ports :
        /\ errand' = [errand EXCEPT !.port = port,
                                    !.at = IF Asked.https = "no" THEN "create" ELSE "certificate"]
        /\ UNCHANGED platform
  BY DEF SelectPort, Turn
<1>1. /\ SameErrand /\ errand'.chosen = errand.chosen /\ errand'.port = port
      /\ errand'.at = (IF Asked.https = "no" THEN "create" ELSE "certificate")
      /\ errand'.certificate = errand.certificate /\ UNCHANGED platform
  BY <1>0 DEF ErrandSound, ErrandShape, ErrandFields, SameErrand
<1>2. ASSUME errand.moves = 0, platform = errand.before PROVE SelectedFrom(errand.before)'
  <2> PICK b \in Platforms : b = errand.before
    BY DEF ErrandSound, ErrandShape
  <2>1. SelectedFrom(b)
    BY <1>2 DEF ErrandSound
  <2>2. PICK u \in Preferred(b.runtimes, Asked.runtime) : errand.chosen = b.runtimes[u]
    BY <2>1 DEF SelectedFrom, RuntimeSelected, EntrySelected, SelectPort, Doing
  <2>3. b.runtimes[u] \in Instance
    BY PlatformFacts DEF PlatformRecord, Preferred, Used
  <2>4. 0 \notin b.runtimes[u].ports
    BY <2>3 DEF Instance
  <2>5. port # 0 /\ port \in {Asked.port} \union errand.chosen.ports
    BY <1>0, <2>2, <2>4
  <2> QED
    BY <1>1, <2>1, <2>2, <2>5
       DEF SelectedFrom, RuntimeSelected, EntrySelected, Doing, Asked, SameErrand, SelectPort, Gateway
<1> QED
  BY <1>1, <1>2, MiddleSound DEF Doing, Asked, SameErrand, SelectPort, Importing, Deleting, Stopped

\* Its certificate is imported, or is one that was found.
LEMMA SelectCertificateStep == ErrandSound /\ SelectCertificate => ErrandSound'
<1> SUFFICES ASSUME ErrandSound, SelectCertificate PROVE ErrandSound'
  OBVIOUS
<1>1. ASSUME Asked.https = "import", NEW i \in Unused(platform.certificates),
             platform' = [platform EXCEPT !.certificates[i] = [title |-> Asked.title]],
             errand' \in {[errand EXCEPT !.certificate = i, !.at = "create"],
                          [errand EXCEPT !.at = "failed", !.sure = FALSE]}
      PROVE  ErrandSound'
  <2>0. DOMAIN platform' = PlatformFields
    BY <1>1 DEF ErrandSound, ErrandShape
  <2>1. CASE errand' = [errand EXCEPT !.at = "failed", !.sure = FALSE]
    BY <2>0, <2>1, LostSound
  <2>2. CASE errand' = [errand EXCEPT !.certificate = i, !.at = "create"]
    <3>1. /\ SameErrand /\ errand'.chosen = errand.chosen /\ errand'.port = errand.port
          /\ errand'.at = "create" /\ errand'.certificate = i
      BY <2>2 DEF ErrandSound, ErrandShape, ErrandFields, SameErrand
    <3>2. ErrandShape' /\ Emptied'
      BY <2>0, <3>1 DEF ErrandSound, SameErrand, ErrandShape, Emptied, Deleting, Doing, Asked,
                        SelectCertificate, Gateway
    <3>3. ASSUME errand.moves = 0 PROVE SelectedFrom(errand.before)' /\ Made(errand.before)'
      <4>1. SelectedFrom(errand.before) /\ platform = errand.before
        BY <3>3 DEF ErrandSound, Made, SelectCertificate, Doing, Importing, Deleting, Stopped
      <4>a. Asked.https = "import"
        BY <1>1
      <4>2. SelectedFrom(errand.before)'
        BY <4>a, <3>1, <4>1
           DEF SelectedFrom, RuntimeSelected, EntrySelected, Doing, Asked, SameErrand, SelectCertificate, Gateway
      <4>3. Importing' /\ ~Deleting' /\ errand'.at \notin {"done", "failed", "declined"}
        BY <1>1, <3>1 DEF Importing, Deleting, Doing, Asked, SameErrand, SelectCertificate, Gateway
      <4>4. \E j \in Unused(errand.before.certificates)' :
               /\ errand'.certificate = j
               /\ platform' = [errand'.before EXCEPT !.certificates[j] = [title |-> Asked'.title]]
        BY <1>1, <3>1, <4>1 DEF SameErrand, Unused, Used, Asked
      <4> QED
        BY <4>2, <4>3, <4>4 DEF Made
    <3> QED
      BY <3>1, <3>2, <3>3 DEF ErrandSound, SameErrand
  <2> QED
    BY <1>1, <2>1, <2>2
<1>2. CASE Asked.https # "import" /\ Found(Asked.title) = {}
  BY <1>2, FailsSound DEF SelectCertificate, Doing, Stopped
<1>3. ASSUME Asked.https # "import", NEW i \in Found(Asked.title), UNCHANGED platform,
             errand' = [errand EXCEPT !.certificate = i, !.at = "create"]
      PROVE  ErrandSound'
  <2>1. /\ SameErrand /\ errand'.chosen = errand.chosen /\ errand'.port = errand.port
        /\ errand'.at = "create" /\ errand'.certificate = i
    BY <1>3 DEF ErrandSound, ErrandShape, ErrandFields, SameErrand
  <2>2. ASSUME errand.moves = 0, platform = errand.before PROVE SelectedFrom(errand.before)'
    <3>1. SelectedFrom(errand.before)
      BY <2>2 DEF ErrandSound
    <3>2. Asked.https # "no"
      BY <3>1 DEF SelectedFrom, RuntimeSelected, EntrySelected, SelectCertificate
    <3> QED
      BY <1>3, <2>1, <2>2, <3>1, <3>2
        
           DEF SelectedFrom, RuntimeSelected, EntrySelected, Doing, Asked, SameErrand, SelectCertificate, Gateway, Found
  <2> QED
    BY <1>3, <2>1, <2>2, MiddleSound DEF Doing, Asked, SameErrand, SelectCertificate, Importing, Deleting,
                                         Stopped
<1> QED
  BY <1>1, <1>2, <1>3 DEF SelectCertificate, Posts, Turn

\* The route to edit or to delete is one of the domain.
LEMMA SelectRouteStep == ErrandSound /\ SelectRoute => ErrandSound'
<1> SUFFICES ASSUME ErrandSound, SelectRoute PROVE ErrandSound'
  OBVIOUS
<1> DEFINE S == RoutesMeant(platform.routes, Asked)
           at == IF Asked.command = "edit domain" THEN "edit" ELSE "delete"
<1>1. CASE S = {}
  BY <1>1, FailsSound DEF SelectRoute, Picks, Doing, Stopped
<1>2. ASSUME NEW i \in S, UNCHANGED platform,
             errand' = [errand EXCEPT !.pick = i, !.chosen = platform.routes[i], !.at = at]
      PROVE  ErrandSound'
  <2>1. /\ SameErrand /\ errand'.pick = i /\ errand'.chosen = platform.routes[i] /\ errand'.at = at
        /\ errand'.certificate = errand.certificate
    BY <1>2 DEF ErrandSound, ErrandShape, ErrandFields, SameErrand
  <2>2. ASSUME errand.moves = 0, platform = errand.before PROVE SelectedFrom(errand.before)'
    <3>1. SelectedFrom(errand.before)
      BY <2>2 DEF ErrandSound
    <3>2. platform.routes[i] # Vacant /\ i \in AtDomain(platform.routes, Asked.domain)
      BY DEF RoutesMeant, AtDomain, Used
    <3> QED
      BY <2>1, <2>2, <3>1, <3>2
         DEF SelectedFrom, RuntimeSelected, EntrySelected, Doing, Asked, SameErrand, SelectRoute, Gateway
  <2>3. errand'.at \in {"edit", "delete"} /\ Asked'.command \in {"edit domain", "delete route"}
        /\ errand.at = "start" /\ Asked.command \in {"edit domain", "delete route"}
    BY <2>1 DEF SelectRoute, Doing, Asked, SameErrand
  <2>4. /\ errand.at \notin Stopped /\ ~Importing /\ ~Deleting
        /\ errand'.at \notin Stopped /\ ~Importing' /\ ~Deleting'
    BY <2>3 DEF Importing, Deleting, Doing, Stopped
  <2> QED
    BY <1>2, <2>1, <2>2, <2>4, MiddleSound
<1> QED
  BY <1>1, <1>2 DEF SelectRoute, Picks, Turn

\* The editor keeps what names the route.
LEMMA EditRouteStep == ErrandSound /\ EditRoute => ErrandSound'
<1> SUFFICES ASSUME ErrandSound, EditRoute PROVE ErrandSound'
  OBVIOUS
<1> DEFINE r == errand.chosen
<1>1. CASE Fails
  BY <1>1, FailsSound DEF EditRoute, Doing, Stopped
<1>2. ASSUME NEW port, NEW c, UNCHANGED platform,
             errand' = [errand EXCEPT !.at = "update", !.chosen = [r EXCEPT !.port = port, !.certificate = c]]
      PROVE  ErrandSound'
  <2>1. /\ SameErrand /\ errand'.pick = errand.pick /\ errand'.at = "update"
        /\ errand'.chosen = [r EXCEPT !.port = port, !.certificate = c]
        /\ errand'.certificate = errand.certificate
    BY <1>2 DEF ErrandSound, ErrandShape, ErrandFields, SameErrand
  <2>2. ASSUME errand.moves = 0, platform = errand.before PROVE SelectedFrom(errand.before)'
    <3> PICK b \in Platforms : b = errand.before
      BY DEF ErrandSound, ErrandShape
    <3>1. SelectedFrom(b)
      BY <2>2 DEF ErrandSound
    <3>2. /\ errand.pick \in AtDomain(b.routes, Asked.domain)
          /\ \A f \in {"domain", "location", "cluster", "service"} : r[f] = b.routes[errand.pick][f]
          /\ DOMAIN r = DOMAIN b.routes[errand.pick]
      BY <3>1 DEF SelectedFrom, RuntimeSelected, EntrySelected, EditRoute, Doing
    <3>3. b.routes[errand.pick] \in RouteRecord
      BY <3>2, PlatformFacts DEF PlatformRecord, AtDomain, Used
    <3>4. DOMAIN r = {"domain", "location", "cluster", "service", "port", "certificate"}
      BY <3>2, <3>3 DEF RouteRecord
    <3>5. /\ DOMAIN errand'.chosen = DOMAIN r
          /\ \A f \in {"domain", "location", "cluster", "service"} : errand'.chosen[f] = r[f]
      BY <2>1, <3>4
    <3>6. errand'.chosen # Vacant
      BY <3>4, <3>5 DEF Vacant
    <3>7. /\ errand'.pick \in AtDomain(b.routes, Asked.domain) /\ errand'.chosen # Vacant
          /\ \A f \in {"domain", "location", "cluster", "service"} :
                errand'.chosen[f] = b.routes[errand'.pick][f]
          /\ DOMAIN errand'.chosen = DOMAIN b.routes[errand'.pick]
      BY <2>1, <3>2, <3>5, <3>6
    <3>8. errand'.at = "update" /\ errand'.certificate = errand.certificate
          /\ Asked' = Asked /\ errand'.before = b /\ Asked.command = "edit domain"
      BY <2>1 DEF SameErrand, Asked, EditRoute, Doing
    <3> QED
      BY <3>1, <3>7, <3>8 DEF SelectedFrom, RuntimeSelected, EntrySelected, Doing, Gateway
  <2>3. /\ errand.at \notin Stopped /\ ~Importing /\ ~Deleting
        /\ errand'.at \notin Stopped /\ ~Importing' /\ ~Deleting'
    BY <2>1 DEF EditRoute, Importing, Deleting, Doing, Stopped
  <2> QED
    BY <1>2, <2>1, <2>2, <2>3, MiddleSound
<1> QED
  BY <1>1, <1>2 DEF EditRoute, Turn

\* delete domain works on the routes it was shown.
LEMMA ListDomainStep == ErrandSound /\ ListDomain => ErrandSound'
<1> SUFFICES ASSUME ErrandSound, ListDomain PROVE ErrandSound'
  OBVIOUS
<1> DEFINE S == AtDomain(platform.routes, Asked.domain)
<1>1. CASE S = {}
  BY <1>1, FailsSound DEF ListDomain, Doing, Stopped
<1>2. ASSUME errand' = [errand EXCEPT !.shown = platform, !.left = S, !.at = "delete"], UNCHANGED platform
      PROVE  ErrandSound'
  <2>1. /\ SameErrand /\ errand'.shown = platform /\ errand'.left = S /\ errand'.at = "delete"
        /\ errand'.certificate = errand.certificate
    BY <1>2 DEF ErrandSound, ErrandShape, ErrandFields, SameErrand
  <2>2. Asked.command = "delete domain" /\ Asked' = Asked
    BY <2>1 DEF ListDomain, Doing, Asked, SameErrand
  <2>3. ErrandShape' /\ Emptied'
    BY <1>2, <2>1, <2>2 DEF ErrandSound, SameErrand, ErrandShape, Emptied, Deleting, Doing, AtDomain, Used
  <2>4. ASSUME errand.moves = 0 PROVE SelectedFrom(errand.before)' /\ Made(errand.before)'
    <3> PICK b \in Platforms : b = errand.before
      BY DEF ErrandSound, ErrandShape
    <3>1. SelectedFrom(b) /\ platform = b
      BY <2>4 DEF ErrandSound, Made, ListDomain, Doing, Importing, Deleting, Stopped
    <3>2. SelectedFrom(errand.before)'
      BY <2>1, <2>2, <3>1 DEF SelectedFrom, RuntimeSelected, EntrySelected, Doing, SameErrand, ListDomain, Gateway
    <3>3. ~Importing' /\ errand'.at \notin {"done", "failed", "declined"} /\ Deleting'
      BY <2>1, <2>2 DEF Importing, Deleting, Doing, Gateway
    <3>4. platform' = b /\ S \ errand'.left = {} /\ Without(b, {}) = b
      BY <1>2, <2>1, <3>1, PlatformFacts
    <3>5. /\ errand'.left \subseteq AtDomain(b.routes, Asked'.domain) /\ errand'.shown = b
          /\ platform' = Without(b, AtDomain(b.routes, Asked'.domain) \ errand'.left)
      BY <2>1, <2>2, <3>1, <3>4
    <3> QED
      BY <2>1, <3>2, <3>3, <3>5 DEF Made, SameErrand
  <2> QED
    BY <2>1, <2>3, <2>4 DEF ErrandSound, SameErrand
<1> QED
  BY <1>1, <1>2 DEF ListDomain, Turn

\* The certificate to delete is one that the title finds.
LEMMA FindCertificateStep == ErrandSound /\ FindCertificate => ErrandSound'
<1> SUFFICES ASSUME ErrandSound, FindCertificate PROVE ErrandSound'
  OBVIOUS
<1> DEFINE exact == {i \in Found(Asked.title) : platform.certificates[i].title = Asked.title}
           S == IF exact # {} THEN exact ELSE Found(Asked.title)
<1>1. CASE S = {}
  BY <1>1, FailsSound DEF FindCertificate, Picks, Doing, Stopped
<1>2. ASSUME NEW i \in S, UNCHANGED platform,
             errand' = [errand EXCEPT !.pick = i, !.chosen = platform.certificates[i], !.at = "delete"]
      PROVE  ErrandSound'
  <2>1. SameErrand /\ errand'.pick = i /\ errand'.at = "delete" /\ errand'.certificate = errand.certificate
    BY <1>2 DEF ErrandSound, ErrandShape, ErrandFields, SameErrand
  <2>2. ASSUME errand.moves = 0, platform = errand.before PROVE SelectedFrom(errand.before)'
    <3>1. SelectedFrom(errand.before)
      BY <2>2 DEF ErrandSound
    <3>2. i \in Found(Asked.title)
      OBVIOUS
    <3> QED
      BY <2>1, <2>2, <3>1, <3>2
         DEF SelectedFrom, RuntimeSelected, EntrySelected, Doing, Asked, SameErrand, FindCertificate, Gateway, Found
  <2>3. /\ errand.at \notin Stopped /\ ~Importing /\ ~Deleting
        /\ errand'.at \notin Stopped /\ ~Importing' /\ ~Deleting'
    BY <2>1 DEF FindCertificate, SameErrand, Asked, Importing, Deleting, Doing, Stopped, Gateway
  <2> QED
    BY <1>2, <2>1, <2>2, <2>3, MiddleSound
<1> QED
  BY <1>1, <1>2 DEF FindCertificate, Picks, Turn

-----------------------------------------------------------------------------
\* The last request of a command: it is answered, or the answer is lost.
LEMMA PostedSound ==
    ASSUME ErrandSound, NEW p, DOMAIN p = PlatformFields, Posts(p, Stands("done")),
           Asked.command # "delete domain",
           ASSUME errand.moves = 0, SelectedFrom(errand.before), Made(errand.before),
                  Asked' = Asked, errand'.before = errand.before, platform' = p
           PROVE  Ordered(Asked, errand.before, platform)'
    PROVE  ErrandSound'
<1>1. platform' = p
  BY DEF Posts
<1>2. CASE errand' = [errand EXCEPT !.at = "failed", !.sure = FALSE]
  BY <1>1, <1>2, LostSound
<1>3. CASE errand' = Stands("done")
  <2>1. Asked' = Asked /\ errand'.before = errand.before
    BY <1>3 DEF ErrandSound, ErrandShape, ErrandFields, Stands, Asked
  <2>2. errand.moves = 0 => Ordered(Asked, errand.before, platform)'
    BY <1>1, <2>1 DEF ErrandSound
  <2> QED
    BY <1>1, <1>3, <2>2, DoneSound
<1> QED
  BY <1>2, <1>3 DEF Posts

\* A runtime with a field changed is one still.
LEMMA ChangedRuntime ==
    ASSUME NEW b \in Platforms, NEW i \in Used(b.runtimes), NEW x
    PROVE  LET r == b.runtimes[i]
           IN /\ [r EXCEPT !.replicas = x] # Vacant /\ [r EXCEPT !.replicas = x].replicas = x
              /\ [r EXCEPT !.tasks = x] # Vacant /\ [r EXCEPT !.tasks = x].tasks = x
              /\ [r EXCEPT !.image = x] # Vacant /\ [r EXCEPT !.image = x].image = x
              /\ i \in DOMAIN b.runtimes
              /\ [b EXCEPT !.runtimes[i].replicas = x] = [b EXCEPT !.runtimes[i] = [r EXCEPT !.replicas = x]]
              /\ [b EXCEPT !.runtimes[i].tasks = x] = [b EXCEPT !.runtimes[i] = [r EXCEPT !.tasks = x]]
              /\ [b EXCEPT !.runtimes[i].image = x] = [b EXCEPT !.runtimes[i] = [r EXCEPT !.image = x]]
<1>1. b.runtimes[i] \in Instance /\ i \in DOMAIN b.runtimes
  BY PlatformFacts DEF PlatformRecord, Used
<1>2. DOMAIN b.runtimes[i] = {"name", "service", "cluster", "image", "ports", "replicas", "tasks"}
  BY <1>1 DEF Instance
<1> QED
  BY <1>1, <1>2 DEF Vacant

\* scale and reload.
LEMMA ChangeRuntimeStep == ErrandSound /\ ChangeRuntime => ErrandSound'
<1> SUFFICES ASSUME ErrandSound, ChangeRuntime PROVE ErrandSound'
  OBVIOUS
<1>1. ASSUME Asked.command = "scale",
             Posts([platform EXCEPT !.runtimes[errand.pick].replicas = Asked.replicas], Stands("done"))
      PROVE  ErrandSound'
  <2> DEFINE p == [platform EXCEPT !.runtimes[errand.pick].replicas = Asked.replicas]
  <2>1. DOMAIN p = PlatformFields
    BY DEF ErrandSound, ErrandShape
  <2>2. ASSUME errand.moves = 0, SelectedFrom(errand.before), Made(errand.before),
               Asked' = Asked, errand'.before = errand.before, platform' = p
        PROVE  Ordered(Asked, errand.before, platform)'
    <3> PICK b \in Platforms : b = errand.before
      BY DEF ErrandSound, ErrandShape
    <3> PICK i : i = errand.pick
      OBVIOUS
    <3> DEFINE v == [b.runtimes[i] EXCEPT !.replicas = Asked.replicas]
    <3>1. platform = b
      BY <2>2 DEF Made, ChangeRuntime, Doing, Importing, Deleting, Stopped, Gateway
    <3>2. i \in Preferred(b.runtimes, Asked.runtime)
      BY <2>2 DEF SelectedFrom, RuntimeSelected, EntrySelected, ChangeRuntime, Doing
    <3>3. i \in Used(b.runtimes)
      BY <3>2 DEF Preferred
    <3>4. v # Vacant /\ v.replicas = Asked.replicas /\ i \in DOMAIN b.runtimes
          /\ p = [b EXCEPT !.runtimes[i] = v]
      BY <3>1, <3>3, ChangedRuntime
    <3> PICK q : q = p
      OBVIOUS
    <3>a. q = [b EXCEPT !.runtimes[i] = v]
      BY <3>4
    <3>b. q.runtimes[i] = v
      BY <3>a, <3>4, PlatformFacts DEF PlatformRecord
    <3>5. q = [b EXCEPT !.runtimes[i] = q.runtimes[i]]
      BY <3>a, <3>b
    <3>c. Asked' = Asked /\ q.runtimes[i] # Vacant /\ q.runtimes[i].replicas = Asked'.replicas
      BY <2>2, <3>4, <3>b
    <3>6. Scaled(Asked', b, q)
      BY <3>2, <3>c, <3>5 DEF Scaled, OnlyOne
    <3> QED
      BY <1>1, <2>2, <3>6 DEF Ordered, Gateway
  <2> QED
    BY <1>1, <2>1, <2>2, PostedSound
<1>2. ASSUME Asked.command = "reload",
             Posts([platform EXCEPT !.runtimes[errand.pick].tasks = "new"], Stands("done"))
      PROVE  ErrandSound'
  <2> DEFINE p == [platform EXCEPT !.runtimes[errand.pick].tasks = "new"]
  <2>1. DOMAIN p = PlatformFields
    BY DEF ErrandSound, ErrandShape
  <2>2. ASSUME errand.moves = 0, SelectedFrom(errand.before), Made(errand.before),
               Asked' = Asked, errand'.before = errand.before, platform' = p
        PROVE  Ordered(Asked, errand.before, platform)'
    <3> PICK b \in Platforms : b = errand.before
      BY DEF ErrandSound, ErrandShape
    <3> PICK i : i = errand.pick
      OBVIOUS
    <3> DEFINE v == [b.runtimes[i] EXCEPT !.tasks = "new"]
    <3>1. platform = b
      BY <2>2 DEF Made, ChangeRuntime, Doing, Importing, Deleting, Stopped, Gateway
    <3>2. i \in Used(b.runtimes)
      BY <3>1 DEF ChangeRuntime
    <3>4. v # Vacant /\ v.tasks = "new" /\ i \in DOMAIN b.runtimes
          /\ p = [b EXCEPT !.runtimes[i] = v]
      BY <3>1, <3>2, ChangedRuntime
    <3> PICK q : q = p
      OBVIOUS
    <3>a. q = [b EXCEPT !.runtimes[i] = v]
      BY <3>4
    <3>b. q.runtimes[i] = v
      BY <3>a, <3>4, PlatformFacts DEF PlatformRecord
    <3>5. q = [b EXCEPT !.runtimes[i] = q.runtimes[i]]
      BY <3>a, <3>b
    <3>6. Reloaded(Asked', b, q)
      BY <2>2, <3>2, <3>4, <3>b, <3>5 DEF Reloaded, OnlyOne
    <3> QED
      BY <1>2, <2>2, <3>6 DEF Ordered, Gateway
  <2> QED
    BY <1>2, <2>1, <2>2, PostedSound
<1> QED
  BY <1>1, <1>2 DEF ChangeRuntime, Doing

\* deploy of a runtime that is there.
LEMMA UpdateArtifactStep == ErrandSound /\ UpdateArtifact => ErrandSound'
<1> SUFFICES ASSUME ErrandSound, UpdateArtifact PROVE ErrandSound'
  OBVIOUS
<1>1. ASSUME errand' = Stands("declined"), UNCHANGED platform PROVE ErrandSound'
  <2>1. /\ SameErrand /\ errand'.at = "declined" /\ errand'.certificate = errand.certificate
        /\ errand'.sure = errand.sure
    BY <1>1 DEF ErrandSound, ErrandShape, ErrandFields, SameErrand, Stands
  <2>2. ErrandShape' /\ Emptied'
    BY <1>1, <2>1 DEF ErrandSound, ErrandShape, SameErrand, Emptied, Deleting, Doing
  <2>3. ASSUME errand.moves = 0 PROVE SelectedFrom(errand.before)' /\ Made(errand.before)'
    <3>1. SelectedFrom(errand.before) /\ platform = errand.before
      BY <2>3 DEF ErrandSound, Made, UpdateArtifact, Doing, Importing, Deleting, Stopped
    <3>2. LeftBehind(Asked, errand.before, platform)'
      BY <1>1, <2>1, <3>1 DEF LeftBehind, SameErrand
    <3>3. SelectedFrom(errand.before)'
      BY <2>1, <3>1 DEF SelectedFrom, RuntimeSelected, EntrySelected, Doing, Asked, SameErrand
    <3> QED
      BY <2>1, <3>2, <3>3 DEF Made, Importing, Deleting, Doing, Stopped
  <2> QED
    BY <2>1, <2>2, <2>3 DEF ErrandSound, SameErrand
<1>2. ASSUME errand.pick \in Used(platform.runtimes),
             Posts([platform EXCEPT !.runtimes[errand.pick].image = errand.image], Stands("done"))
      PROVE  ErrandSound'
  <2> DEFINE p == [platform EXCEPT !.runtimes[errand.pick].image = errand.image]
  <2>1. DOMAIN p = PlatformFields /\ Asked.command = "deploy"
    BY DEF ErrandSound, ErrandShape, UpdateArtifact, Doing
  <2>2. ASSUME errand.moves = 0, SelectedFrom(errand.before), Made(errand.before),
               Asked' = Asked, errand'.before = errand.before, platform' = p
        PROVE  Ordered(Asked, errand.before, platform)'
    <3> PICK b \in Platforms : b = errand.before
      BY DEF ErrandSound, ErrandShape
    <3> PICK i : i = errand.pick
      OBVIOUS
    <3> PICK q : q = p
      OBVIOUS
    <3> DEFINE v == [b.runtimes[i] EXCEPT !.image = errand.image]
    <3>1. platform = b
      BY <2>2 DEF Made, UpdateArtifact, Doing, Importing, Deleting, Stopped, Gateway
    <3>2. i \in Used(b.runtimes)
      BY <1>2, <3>1
    <3>3. TagOk(Asked, b, errand.image) /\ ~Asked.new /\ Used(b.runtimes) # {}
      BY <2>2 DEF SelectedFrom, RuntimeSelected, EntrySelected, UpdateArtifact, Doing
    <3>4. v # Vacant /\ v.image = errand.image /\ i \in DOMAIN b.runtimes
          /\ p = [b EXCEPT !.runtimes[i] = v]
      BY <3>1, <3>2, ChangedRuntime
    <3>a. q = [b EXCEPT !.runtimes[i] = v]
      BY <3>4
    <3>b. q.runtimes[i] = v
      BY <3>a, <3>4, PlatformFacts DEF PlatformRecord
    <3>5. q = [b EXCEPT !.runtimes[i] = q.runtimes[i]]
      BY <3>a, <3>b
    <3>c. q.runtimes[i] # Vacant /\ TagOk(Asked', b, q.runtimes[i].image)
      BY <2>2, <3>3, <3>4, <3>b DEF TagOk
    <3>6. ArtifactUpdated(Asked', b, q)
      BY <3>2, <3>c, <3>5 DEF ArtifactUpdated, OnlyOne
    <3> QED
      BY <2>1, <2>2, <3>3, <3>6 DEF Ordered, Gateway
  <2> QED
    BY <1>2, <2>1, <2>2, PostedSound
<1> QED
  BY <1>1, <1>2 DEF UpdateArtifact, Turn

\* rollback.
LEMMA RollbackReleaseStep == ErrandSound /\ RollbackRelease => ErrandSound'
<1> SUFFICES ASSUME ErrandSound, RollbackRelease PROVE ErrandSound'
  OBVIOUS
<1> DEFINE p == [platform EXCEPT !.runtimes[platform.releases[errand.pick].runtime].image =
                                     platform.releases[errand.pick].image]
<1>1. DOMAIN p = PlatformFields /\ Asked.command = "rollback"
  BY DEF ErrandSound, ErrandShape, RollbackRelease, Doing
<1>2. ASSUME errand.moves = 0, SelectedFrom(errand.before), Made(errand.before),
             Asked' = Asked, errand'.before = errand.before, platform' = p
      PROVE  Ordered(Asked, errand.before, platform)'
  <2> PICK b \in Platforms : b = errand.before
    BY DEF ErrandSound, ErrandShape
  <2>x. PICK x : x = errand.pick
    OBVIOUS
  <2>i. PICK i : i = platform.releases[x].runtime
    OBVIOUS
  <2>q. PICK q : q = p
    OBVIOUS
  <2>y. PICK y : y = platform.releases[x].image
    OBVIOUS
  <2> DEFINE v == [b.runtimes[i] EXCEPT !.image = y]
  <2>1. platform = b
    BY <1>2 DEF Made, RollbackRelease, Doing, Importing, Deleting, Stopped, Gateway
  <2>2. i \in Used(b.runtimes) /\ x \in Used(b.releases) /\ i = b.releases[x].runtime
        /\ y = b.releases[x].image
    BY <2>1, <2>x, <2>i, <2>y DEF RollbackRelease
  <2>p. q = [b EXCEPT !.runtimes[i].image = y]
    BY <2>1, <2>x, <2>i, <2>q, <2>y
  <2>r. i \in Used(b.runtimes)
    BY <2>2
  <2>3. v # Vacant /\ v.image = y /\ i \in DOMAIN b.runtimes
    BY <2>r, ChangedRuntime
  <2>4. q = [b EXCEPT !.runtimes[i] = v]
    BY <2>p
  <2>5. q.runtimes[i] = v
    BY <2>3, <2>4, PlatformFacts DEF PlatformRecord
  <2>6. q = [b EXCEPT !.runtimes[i] = q.runtimes[i]]
    BY <2>4, <2>5
  <2>7. q.runtimes[i] # Vacant /\ q.runtimes[i].image = b.releases[x].image
    BY <2>2, <2>3, <2>5
  <2>8. RolledBack(Asked', b, q)
    BY <2>2, <2>6, <2>7 DEF RolledBack, OnlyOne
  <2> QED
    BY <1>1, <1>2, <2>q, <2>8 DEF Ordered, Gateway
<1> QED
  BY <1>1, <1>2, PostedSound DEF RollbackRelease

\* The name suggested is one that no runtime of the list has, or the last one.
LEMMA AvailableNames ==
    ASSUME NEW held PROVE AvailableName(held) \in NamesIn(held) => AvailableName(held) = LastName
<1> DEFINE used == {held[i].name : i \in Used(held)}
           free == {n \in DOMAIN ServiceNames : ServiceNames[n] \notin used}
<1>1. CASE free = {}
  BY <1>1 DEF AvailableName
<1>2. CASE free # {}
  <2>1. free \in SUBSET Nat
    BY ResourceAssumption
  <2>2. \E n \in free : \A m \in free : n <= m
    BY <1>2, <2>1, Smallest
  <2>3. PICK n \in free : n = CHOOSE k \in free : \A m \in free : k <= m
    BY <2>2
  <2>4. AvailableName(held) = ServiceNames[n]
    BY <1>2, <2>3 DEF AvailableName
  <2> QED
    BY <2>3, <2>4 DEF NamesIn
<1> QED
  BY <1>1, <1>2

\* deploy of a new runtime.
LEMMA CreateReleaseStep == ErrandSound /\ CreateRelease => ErrandSound'
<1> SUFFICES ASSUME ErrandSound, CreateRelease PROVE ErrandSound'
  OBVIOUS
<1>0. PICK i \in DOMAIN platform.runtimes \ Used(platform.runtimes), c \in platform.targets,
           n \in {AvailableName(errand.shown.runtimes)} \union (IF Asked.yes THEN {} ELSE {"typed"}) :
        Posts([platform EXCEPT !.runtimes[i] =
                  [name |-> n, service |-> n, cluster |-> c, image |-> errand.image,
                   ports |-> platform.images[errand.image].ports, replicas |-> 1, tasks |-> "new"]],
              Stands("done"))
  BY DEF CreateRelease
<1> DEFINE v == [name |-> n, service |-> n, cluster |-> c, image |-> errand.image,
                 ports |-> platform.images[errand.image].ports, replicas |-> 1, tasks |-> "new"]
           p == [platform EXCEPT !.runtimes[i] = v]
<1>1. DOMAIN p = PlatformFields /\ Asked.command = "deploy"
  BY DEF ErrandSound, ErrandShape, CreateRelease, Doing
<1>2. ASSUME errand.moves = 0, SelectedFrom(errand.before), Made(errand.before),
             Asked' = Asked, errand'.before = errand.before, platform' = p
      PROVE  Ordered(Asked, errand.before, platform)'
  <2>b. PICK b \in Platforms : b = errand.before
    BY DEF ErrandSound, ErrandShape
  <2>q. PICK q : q = p
    OBVIOUS
  <2>w. PICK w : w = v
    OBVIOUS
  <2>1. platform = b
    BY <1>2, <2>b DEF Made, CreateRelease, Doing, Importing, Deleting, Stopped, Gateway
  <2>2. i \in Unused(b.runtimes) /\ c \in b.targets
    BY <2>1 DEF Unused
  <2>r. i \in DOMAIN b.runtimes
    BY <2>2 DEF Unused
  <2>3. w # Vacant /\ w.image = errand.image /\ w.cluster = c /\ w.name = n
    BY <2>w DEF Vacant
  <2>4. q = [b EXCEPT !.runtimes[i] = w]
    BY <2>1, <2>q, <2>w
  <2>5. q.runtimes[i] = w
    BY <2>r, <2>4, PlatformFacts DEF PlatformRecord
  <2>6. q = [b EXCEPT !.runtimes[i] = q.runtimes[i]]
    BY <2>4, <2>5
  <2>7. TagOk(Asked, b, errand.image) /\ (Asked.new \/ Used(b.runtimes) = {}) /\ errand.shown = b
    BY <1>2, <2>b DEF SelectedFrom, RuntimeSelected, EntrySelected, CreateRelease, Doing
  <2>8. n \in NamesIn(b.runtimes) => n \in {LastName, "typed"}
    BY <2>7, AvailableNames
  <2>9. /\ TagOk(Asked', b, q.runtimes[i].image) /\ q.runtimes[i].cluster \in b.targets
        /\ q.runtimes[i].name \in NamesIn(b.runtimes) => q.runtimes[i].name \in {LastName, "typed"}
    BY <1>2, <2>2, <2>3, <2>5, <2>7, <2>8 DEF TagOk
  <2>10. ReleaseCreated(Asked', b, q)
    BY <2>2, <2>3, <2>5, <2>6, <2>9 DEF ReleaseCreated, OnlyOne
  <2> QED
    BY <1>1, <1>2, <2>b, <2>q, <2>7, <2>10 DEF Ordered, Gateway
<1> QED
  BY <1>0, <1>1, <1>2, PostedSound

\* The route that the gateway gets: for the runtime that was asked for, at a port,
\* and with a certificate that the title finds.
LEMMA CreateRouteStep == ErrandSound /\ CreateRoute => ErrandSound'
<1> SUFFICES ASSUME ErrandSound, CreateRoute PROVE ErrandSound'
  OBVIOUS
<1>0. PICK i \in Unused(platform.routes) :
        Posts([platform EXCEPT !.routes[i] =
                  [domain |-> Asked.domain, location |-> Asked.location,
                   cluster |-> errand.chosen.cluster, service |-> errand.chosen.service,
                   port |-> errand.port, certificate |-> errand.certificate]], Stands("done"))
  BY DEF CreateRoute
<1> DEFINE v == [domain |-> Asked.domain, location |-> Asked.location,
                 cluster |-> errand.chosen.cluster, service |-> errand.chosen.service,
                 port |-> errand.port, certificate |-> errand.certificate]
           p == [platform EXCEPT !.routes[i] = v]
<1>1. DOMAIN p = PlatformFields /\ Asked.command \in Gateway /\ Asked.command # "delete domain"
  BY DEF ErrandSound, ErrandShape, CreateRoute, Doing, Gateway
<1>2. ASSUME errand.moves = 0, SelectedFrom(errand.before), Made(errand.before),
             Asked' = Asked, errand'.before = errand.before, platform' = p
      PROVE  Ordered(Asked, errand.before, platform)'
  <2>b. PICK b \in Platforms : b = errand.before
    BY DEF ErrandSound, ErrandShape
  <2>q. PICK q : q = p
    OBVIOUS
  <2>w. PICK w : w = v
    OBVIOUS
  <2>c. PICK c : c = platform.certificates
    OBVIOUS
  <2>0. b \in PlatformRecord
    BY PlatformFacts
  <2>1. PICK u \in Preferred(b.runtimes, Asked.runtime) : errand.chosen = b.runtimes[u]
    BY <1>2, <2>b DEF SelectedFrom, RuntimeSelected, EntrySelected, CreateRoute, Doing
  <2>2. errand.port # 0 /\ errand.port \in {Asked.port} \union b.runtimes[u].ports
    BY <1>2, <2>b, <2>1 DEF SelectedFrom, RuntimeSelected, EntrySelected, CreateRoute, Doing
  <2>3. /\ platform = [b EXCEPT !.certificates = c]
        /\ IF Asked.https = "import"
           THEN \E k \in Unused(b.certificates) : /\ errand.certificate = k
                                                  /\ c = [b.certificates EXCEPT ![k] = [title |-> Asked.title]]
           ELSE c = b.certificates
    <3>1. CASE Asked.https = "import"
      <4>1. PICK k \in Unused(b.certificates) :
              errand.certificate = k /\ platform = [b EXCEPT !.certificates[k] = [title |-> Asked.title]]
        BY <1>2, <2>b, <3>1 DEF Made, Importing, CreateRoute
      <4>2. c = [b.certificates EXCEPT ![k] = [title |-> Asked.title]]
        BY <2>0, <2>c, <4>1 DEF PlatformRecord
      <4> QED
        BY <3>1, <4>1, <4>2
    <3>2. CASE Asked.https # "import"
      <4>1. platform = b
        BY <1>2, <2>b, <3>2 DEF Made, Importing, Deleting, CreateRoute, Doing, Stopped, Gateway
      <4> QED
        BY <2>0, <2>c, <3>2, <4>1 DEF PlatformRecord
    <3> QED
      BY <3>1, <3>2
  <2>4. i \in Unused(b.routes) /\ i \in DOMAIN b.routes
    <3>1. platform.routes = b.routes
      BY <2>0, <2>3 DEF PlatformRecord
    <3> QED
      BY <3>1 DEF Unused
  <2>5. q.certificates = c /\ q.routes[i] = w
    <3>1. platform.routes = b.routes /\ platform.certificates = c
      BY <2>0, <2>3, <2>c DEF PlatformRecord
    <3>2. DOMAIN platform = PlatformFields
      BY DEF ErrandSound, ErrandShape
    <3> QED
      BY <2>q, <2>w, <2>4, <3>1, <3>2 DEF PlatformFields
  <2>6. q = [[b EXCEPT !.certificates = q.certificates] EXCEPT !.routes[i] = q.routes[i]]
    BY <2>3, <2>5, <2>q, <2>w
  <2>7. /\ w # Vacant /\ w.domain = Asked'.domain /\ w.location = Asked'.location
        /\ w.service = b.runtimes[u].service /\ w.cluster = b.runtimes[u].cluster
        /\ w.port \in {Asked'.port} \union b.runtimes[u].ports /\ w.port # 0
        /\ w.certificate = errand.certificate
    BY <1>2, <2>w, <2>1, <2>2 DEF Vacant
  <2>8. IF Asked'.https = "no" THEN w.certificate = 0
        ELSE c[w.certificate].title \in Similar[Asked'.title]
    <3>1. CASE Asked.https = "no"
      BY <1>2, <2>7, <3>1 DEF SelectedFrom, RuntimeSelected, EntrySelected
    <3>2. CASE Asked.https = "import"
      <4>1. PICK k \in Unused(b.certificates) :
              errand.certificate = k /\ c = [b.certificates EXCEPT ![k] = [title |-> Asked.title]]
        BY <2>3, <3>2
      <4>2. c[k] = [title |-> Asked.title]
        BY <4>1 DEF Unused
      <4>3. Asked.title \in DOMAIN Similar
        BY ResourceAssumption DEF ErrandSound, ErrandShape, Asked
      <4> QED
        BY <1>2, <2>7, <3>2, <4>1, <4>2, <4>3, ResourceAssumption
    <3>3. CASE Asked.https \notin {"no", "import"}
      <4>1. b.certificates[errand.certificate].title \in Similar[Asked.title] /\ c = b.certificates
        BY <1>2, <2>b, <2>3, <3>3 DEF SelectedFrom, RuntimeSelected, EntrySelected, CreateRoute
      <4> QED
        BY <1>2, <2>7, <3>3, <4>1
    <3> QED
      BY <3>1, <3>2, <3>3
  <2>9. IF Asked'.https = "import" THEN CertificateImported(Asked', b, [b EXCEPT !.certificates = c])
        ELSE [b EXCEPT !.certificates = c] = b
    <3>1. CASE Asked.https = "import"
      <4>1. PICK k \in Unused(b.certificates) : c = [b.certificates EXCEPT ![k] = [title |-> Asked.title]]
        BY <2>3, <3>1
      <4>g. PICK g : g = [b EXCEPT !.certificates = c]
        OBVIOUS
      <4>2. g.certificates = c /\ c[k] = [title |-> Asked.title]
        BY <2>0, <4>1, <4>g DEF PlatformRecord, Unused
      <4>3. g = [b EXCEPT !.certificates[k] = g.certificates[k]]
        BY <4>1, <4>2, <4>g
      <4>4. g.certificates[k] # Vacant /\ g.certificates[k].title = Asked'.title
        BY <1>2, <4>2 DEF Vacant
      <4>5. CertificateImported(Asked', b, g)
        BY <4>3, <4>4 DEF CertificateImported, OnlyOne
      <4> QED
        BY <1>2, <3>1, <4>5, <4>g
    <3>2. CASE Asked.https # "import"
      BY <1>2, <2>0, <2>3, <3>2 DEF PlatformRecord
    <3> QED
      BY <3>1, <3>2
  <2>10. u \in Preferred(b.runtimes, Asked'.runtime)
    BY <1>2
  <2>11. RouteCreated(Asked', b, q)
    BY <2>4, <2>5, <2>6, <2>7, <2>8, <2>9, <2>10 DEF RouteCreated, OnlyOne
  <2> QED
    BY <1>1, <1>2, <2>b, <2>q, <2>11 DEF Ordered, Gateway
<1> QED
  BY <1>0, <1>1, <1>2, PostedSound

\* The route that was edited keeps what names it.
LEMMA UpdateRouteStep == ErrandSound /\ UpdateRoute => ErrandSound'
<1> SUFFICES ASSUME ErrandSound, UpdateRoute PROVE ErrandSound'
  OBVIOUS
<1> DEFINE p == [platform EXCEPT !.routes[errand.pick] = errand.chosen]
<1>1. DOMAIN p = PlatformFields /\ Asked.command = "edit domain"
  BY DEF ErrandSound, ErrandShape, UpdateRoute, Doing
<1>2. ASSUME errand.moves = 0, SelectedFrom(errand.before), Made(errand.before),
             Asked' = Asked, errand'.before = errand.before, platform' = p
      PROVE  Ordered(Asked, errand.before, platform)'
  <2>b. PICK b \in Platforms : b = errand.before
    BY DEF ErrandSound, ErrandShape
  <2>q. PICK q : q = p
    OBVIOUS
  <2>i. PICK i : i = errand.pick
    OBVIOUS
  <2>w. PICK w : w = errand.chosen
    OBVIOUS
  <2>1. platform = b
    BY <1>2, <2>b DEF Made, UpdateRoute, Doing, Importing, Deleting, Stopped, Gateway
  <2>2. /\ i \in AtDomain(b.routes, Asked.domain) /\ w # Vacant
        /\ \A f \in {"domain", "location", "cluster", "service"} : w[f] = b.routes[i][f]
    BY <1>2, <2>b, <2>i, <2>w DEF SelectedFrom, RuntimeSelected, EntrySelected, UpdateRoute, Doing
  <2>3. i \in DOMAIN b.routes
    BY <2>2 DEF AtDomain, Used
  <2>4. q = [b EXCEPT !.routes[i] = w]
    BY <2>1, <2>q, <2>w, <2>i
  <2>5. q.routes[i] = w
    BY <2>3, <2>4, PlatformFacts DEF PlatformRecord
  <2>6. q = [b EXCEPT !.routes[i] = q.routes[i]]
    BY <2>4, <2>5
  <2>7. i \in AtDomain(b.routes, Asked'.domain)
    BY <1>2, <2>2
  <2>8. RouteEdited(Asked', b, q)
    BY <2>2, <2>5, <2>6, <2>7 DEF RouteEdited, OnlyOne
  <2> QED
    BY <1>1, <1>2, <2>b, <2>q, <2>8 DEF Ordered, Gateway
<1> QED
  BY <1>1, <1>2, PostedSound DEF UpdateRoute

\* The route that was to go has gone.
LEMMA DeleteRouteStep == ErrandSound /\ DeleteRoute => ErrandSound'
<1> SUFFICES ASSUME ErrandSound, DeleteRoute PROVE ErrandSound'
  OBVIOUS
<1> DEFINE p == [platform EXCEPT !.routes[errand.pick] = Vacant]
<1>1. DOMAIN p = PlatformFields /\ Asked.command = "delete route"
  BY DEF ErrandSound, ErrandShape, DeleteRoute, Doing
<1>2. ASSUME errand.moves = 0, SelectedFrom(errand.before), Made(errand.before),
             Asked' = Asked, errand'.before = errand.before, platform' = p
      PROVE  Ordered(Asked, errand.before, platform)'
  <2>b. PICK b \in Platforms : b = errand.before
    BY DEF ErrandSound, ErrandShape
  <2>i. PICK i : i = errand.pick
    OBVIOUS
  <2>1. platform = b
    BY <1>2, <2>b DEF Made, DeleteRoute, Doing, Importing, Deleting, Stopped, Gateway
  <2>2. i \in RoutesMeant(b.routes, Asked')
    BY <1>2, <2>b, <2>i DEF SelectedFrom, RuntimeSelected, EntrySelected, DeleteRoute, Doing
  <2>3. platform' = [b EXCEPT !.routes[i] = Vacant]
    BY <1>2, <2>1, <2>i
  <2>4. RouteDeleted(Asked', b, platform')
    BY <2>2, <2>3 DEF RouteDeleted, OneRemoved
  <2> QED
    BY <1>1, <1>2, <2>b, <2>4 DEF Ordered, Gateway
<1> QED
  BY <1>1, <1>2, PostedSound DEF DeleteRoute

\* The certificate that was to go has gone.
LEMMA DeleteCertificateStep == ErrandSound /\ DeleteCertificate => ErrandSound'
<1> SUFFICES ASSUME ErrandSound, DeleteCertificate PROVE ErrandSound'
  OBVIOUS
<1> DEFINE p == [platform EXCEPT !.certificates[errand.pick] = Vacant]
<1>1. DOMAIN p = PlatformFields /\ Asked.command = "delete certificate"
  BY DEF ErrandSound, ErrandShape, DeleteCertificate, Doing
<1>2. ASSUME errand.moves = 0, SelectedFrom(errand.before), Made(errand.before),
             Asked' = Asked, errand'.before = errand.before, platform' = p
      PROVE  Ordered(Asked, errand.before, platform)'
  <2>b. PICK b \in Platforms : b = errand.before
    BY DEF ErrandSound, ErrandShape
  <2>i. PICK i : i = errand.pick
    OBVIOUS
  <2>1. platform = b
    BY <1>2, <2>b DEF Made, DeleteCertificate, Doing, Importing, Deleting, Stopped, Gateway
  <2>2. i \in Used(b.certificates) /\ b.certificates[i].title \in Similar[Asked'.title]
    BY <1>2, <2>b, <2>i DEF SelectedFrom, RuntimeSelected, EntrySelected, DeleteCertificate, Doing
  <2>3. platform' = [b EXCEPT !.certificates[i] = Vacant]
    BY <1>2, <2>1, <2>i
  <2>4. CertificateDeleted(Asked', b, platform')
    BY <2>2, <2>3 DEF CertificateDeleted, OneRemoved
  <2> QED
    BY <1>1, <1>2, <2>b, <2>4 DEF Ordered, Gateway
<1> QED
  BY <1>1, <1>2, PostedSound DEF DeleteCertificate

\* The certificate that was to be imported is there.
LEMMA ImportCertificateStep == ErrandSound /\ ImportCertificate => ErrandSound'
<1> SUFFICES ASSUME ErrandSound, ImportCertificate PROVE ErrandSound'
  OBVIOUS
<1>0. PICK i \in Unused(platform.certificates) :
        Posts([platform EXCEPT !.certificates[i] = [title |-> Asked.title]], Stands("done"))
  BY DEF ImportCertificate
<1> DEFINE p == [platform EXCEPT !.certificates[i] = [title |-> Asked.title]]
<1>1. DOMAIN p = PlatformFields /\ Asked.command = "create certificate"
  BY DEF ErrandSound, ErrandShape, ImportCertificate, Doing
<1>2. ASSUME errand.moves = 0, SelectedFrom(errand.before), Made(errand.before),
             Asked' = Asked, errand'.before = errand.before, platform' = p
      PROVE  Ordered(Asked, errand.before, platform)'
  <2>b. PICK b \in Platforms : b = errand.before
    BY DEF ErrandSound, ErrandShape
  <2>q. PICK q : q = p
    OBVIOUS
  <2>w. PICK w : w = [title |-> Asked.title]
    OBVIOUS
  <2>1. platform = b
    BY <1>2, <2>b DEF Made, ImportCertificate, Doing, Importing, Deleting, Stopped, Gateway
  <2>2. i \in Unused(b.certificates) /\ i \in DOMAIN b.certificates
    BY <2>1 DEF Unused
  <2>3. w # Vacant /\ w.title = Asked'.title
    BY <1>2, <2>w DEF Vacant
  <2>4. q = [b EXCEPT !.certificates[i] = w]
    BY <2>1, <2>q, <2>w
  <2>5. q.certificates[i] = w
    BY <2>2, <2>4, PlatformFacts DEF PlatformRecord
  <2>6. q = [b EXCEPT !.certificates[i] = q.certificates[i]]
    BY <2>4, <2>5
  <2>7. CertificateImported(Asked', b, q)
    BY <2>2, <2>3, <2>5, <2>6 DEF CertificateImported, OnlyOne
  <2> QED
    BY <1>1, <1>2, <2>b, <2>q, <2>7 DEF Ordered, Gateway
<1> QED
  BY <1>0, <1>1, <1>2, PostedSound

\* Removing one more route.
LEMMA OneMore ==
    ASSUME NEW b \in Platforms, NEW S, NEW i \in DOMAIN b.routes
    PROVE  /\ [Without(b, S) EXCEPT !.routes[i] = Vacant] = Without(b, S \union {i})
           /\ DOMAIN Without(b, S) = PlatformFields
<1>1. b \in PlatformRecord /\ DOMAIN b = PlatformFields
  BY PlatformFacts
<1> DEFINE f == [j \in DOMAIN b.routes |-> IF j \in S THEN Vacant ELSE b.routes[j]]
<1>2. [f EXCEPT ![i] = Vacant] = [j \in DOMAIN b.routes |-> IF j \in S \union {i} THEN Vacant ELSE b.routes[j]]
  OBVIOUS
<1>w. PICK w : w = Without(b, S)
  OBVIOUS
<1>3. w.routes = f /\ DOMAIN w = PlatformFields
  BY <1>1, <1>w DEF Without, PlatformFields
<1>4. [w EXCEPT !.routes = [w.routes EXCEPT ![i] = Vacant]] = Without(b, S \union {i})
  BY <1>2, <1>3, <1>w, <1>1 DEF Without, PlatformFields
<1> QED
  BY <1>3, <1>4, <1>w

\* A domain goes route by route.
LEMMA DeleteNextStep == ErrandSound /\ DeleteNext => ErrandSound'
<1> SUFFICES ASSUME ErrandSound, DeleteNext PROVE ErrandSound'
  OBVIOUS
<1>0. Deleting /\ ~Importing /\ errand.at = "delete" /\ Asked.command = "delete domain"
  BY DEF DeleteNext, Deleting, Importing, Doing
<1>1. ASSUME errand.left = {}, errand' = Stands("done"), UNCHANGED platform PROVE ErrandSound'
  <2>1. SameErrand /\ errand'.at = "done" /\ errand'.certificate = errand.certificate
        /\ errand'.shown = errand.shown
    BY <1>1 DEF ErrandSound, ErrandShape, ErrandFields, SameErrand, Stands
  <2>2. Asked' = Asked
    BY <2>1 DEF SameErrand, Asked
  <2>3. ErrandShape' /\ Emptied'
    BY <1>0, <1>1, <2>1, <2>2 DEF ErrandSound, ErrandShape, SameErrand, Emptied, Deleting, Doing
  <2>4. ASSUME errand.moves = 0 PROVE SelectedFrom(errand.before)' /\ Made(errand.before)'
    <3>b. PICK b \in Platforms : b = errand.before
      BY DEF ErrandSound, ErrandShape
    <3>1. platform = Without(b, AtDomain(b.routes, Asked.domain))
      <4>1. platform = Without(b, AtDomain(b.routes, Asked.domain) \ errand.left)
        BY <1>0, <2>4, <3>b DEF ErrandSound, Made
      <4>2. AtDomain(b.routes, Asked.domain) \ errand.left = AtDomain(b.routes, Asked.domain)
        BY <1>1
      <4> QED
        BY <4>1, <4>2
    <3>2. Ordered(Asked', b, platform')
      BY <1>0, <1>1, <2>2, <3>1 DEF Ordered, Gateway
    <3>3. SelectedFrom(errand.before)'
      BY <1>0, <2>1, <2>2, <2>4
         DEF ErrandSound, SelectedFrom, RuntimeSelected, EntrySelected, Doing, SameErrand, Gateway
    <3> QED
      BY <2>1, <3>b, <3>2, <3>3 DEF Made, Importing, Deleting, Doing, Stopped, SameErrand
  <2> QED
    BY <2>1, <2>3, <2>4 DEF ErrandSound, SameErrand
<1>2. ASSUME NEW i \in errand.left \intersect Used(platform.routes),
             platform' = [platform EXCEPT !.routes[i] = Vacant],
             errand' \in {[errand EXCEPT !.left = @ \ {i}], [errand EXCEPT !.at = "failed", !.sure = FALSE]}
      PROVE  ErrandSound'
  <2>0. DOMAIN platform' = PlatformFields
    BY <1>2 DEF ErrandSound, ErrandShape
  <2>1. CASE errand' = [errand EXCEPT !.at = "failed", !.sure = FALSE]
    BY <2>0, <2>1, LostSound
  <2>2. CASE errand' = [errand EXCEPT !.left = @ \ {i}]
    <3>1. /\ SameErrand /\ errand'.at = "delete" /\ errand'.certificate = errand.certificate
          /\ errand'.shown = errand.shown /\ errand'.left = errand.left \ {i}
      BY <1>0, <2>2 DEF ErrandSound, ErrandShape, ErrandFields, SameErrand
    <3>2. Asked' = Asked /\ Deleting' /\ ~Importing'
      BY <1>0, <3>1 DEF SameErrand, Asked, Deleting, Importing, Doing
    <3>3. /\ platform'.routes = [platform.routes EXCEPT ![i] = Vacant]
          /\ i \in DOMAIN platform.routes
      BY <1>2 DEF ErrandSound, ErrandShape, PlatformFields, Used
    <3>4. ErrandShape'
      BY <2>0, <3>1 DEF ErrandSound, ErrandShape, SameErrand
    <3>5. Emptied'
      <4> SUFFICES ASSUME NEW j \in AtDomain(errand.shown.routes, Asked.domain)
                   PROVE  /\ j \in DOMAIN platform'.routes
                          /\ j \notin errand.left \ {i} => platform'.routes[j] = Vacant
        BY <3>1, <3>2 DEF Emptied, Doing
      <4>1. j \in DOMAIN platform.routes /\ (j \notin errand.left => platform.routes[j] = Vacant)
        BY <1>0 DEF ErrandSound, Emptied
      <4> QED
        BY <3>3, <4>1
    <3>6. ASSUME errand.moves = 0 PROVE SelectedFrom(errand.before)' /\ Made(errand.before)'
      <4>b. PICK b \in Platforms : b = errand.before
        BY DEF ErrandSound, ErrandShape
      <4> DEFINE S == AtDomain(b.routes, Asked.domain)
      <4>1. errand.left \subseteq S /\ errand.shown = b /\ platform = Without(b, S \ errand.left)
        BY <1>0, <3>6, <4>b DEF ErrandSound, Made
      <4>2. i \in DOMAIN b.routes /\ (S \ errand.left) \union {i} = S \ errand'.left
        BY <1>2, <3>1, <4>1 DEF AtDomain, Used
      <4>3. platform' = Without(b, (S \ errand.left) \union {i})
        <5>1. platform' = [Without(b, S \ errand.left) EXCEPT !.routes[i] = Vacant]
          BY <1>2, <4>1
        <5>2. [Without(b, S \ errand.left) EXCEPT !.routes[i] = Vacant]
                = Without(b, (S \ errand.left) \union {i})
          BY <4>2, OneMore
        <5> QED
          BY <5>1, <5>2
      <4>4. platform' = Without(b, S \ errand'.left) /\ errand'.left \subseteq S
        BY <3>1, <4>1, <4>2, <4>3
      <4>5. SelectedFrom(errand.before)'
        BY <1>0, <3>1, <3>2, <3>6
           DEF ErrandSound, SelectedFrom, RuntimeSelected, EntrySelected, Doing, SameErrand, Gateway
      <4> QED
        BY <3>1, <3>2, <4>b, <4>1, <4>4, <4>5 DEF Made, SameErrand
    <3> QED
      BY <3>1, <3>4, <3>5, <3>6 DEF ErrandSound, SameErrand
  <2> QED
    BY <1>2, <2>1, <2>2
<1> QED
  BY <1>1, <1>2 DEF DeleteNext, Turn, Posts

\* Others leave what is gone.
LEMMA OthersMoveStep == ErrandSound /\ OthersMove => ErrandSound'
<1> SUFFICES ASSUME ErrandSound, OthersMove PROVE ErrandSound'
  OBVIOUS
<1>1. /\ DOMAIN errand' = ErrandFields /\ errand'.moves = errand.moves + 1
      /\ errand'.order = errand.order /\ errand'.before = errand.before /\ errand'.at = errand.at
      /\ errand'.left = errand.left /\ errand'.shown = errand.shown
  BY DEF ErrandSound, ErrandShape, ErrandFields, OthersMove
<1>2. errand'.moves \in Nat /\ errand'.moves # 0
  BY <1>1 DEF ErrandSound, ErrandShape
<1>3. DOMAIN platform' = PlatformFields
  BY DEF ErrandSound, ErrandShape, OthersMove
<1>4. /\ DOMAIN platform'.routes = DOMAIN platform.routes
      /\ \A j \in DOMAIN platform.routes : platform.routes[j] = Vacant => platform'.routes[j] = Vacant
  <2>1. CASE UNCHANGED platform.routes
    BY <2>1
  <2>2. ASSUME NEW i \in Used(platform.routes), NEW x, platform'.routes = [platform.routes EXCEPT ![i] = x]
        PROVE  <1>4!1 /\ <1>4!2
    BY <2>2 DEF Used
  <2>3. ASSUME NEW i \in Used(platform.routes),
               \/ platform' = [platform EXCEPT !.routes[i] = Vacant]
               \/ platform' = [platform EXCEPT !.routes[i].domain = "moved"]
        PROVE  \E x : platform'.routes = [platform.routes EXCEPT ![i] = x]
    BY <2>3 DEF ErrandSound, ErrandShape, PlatformFields
  <2>4. ASSUME NEW i,
               \/ platform' = [platform EXCEPT !.runtimes[i] = Vacant]
               \/ platform' = [platform EXCEPT !.runtimes[i].name = "renamed"]
               \/ platform' = [platform EXCEPT !.certificates[i] = Vacant]
        PROVE  UNCHANGED platform.routes
    BY <2>4 DEF ErrandSound, ErrandShape, PlatformFields
  <2> QED
    BY <2>1, <2>2, <2>3, <2>4 DEF OthersMove
<1>5. ErrandShape'
  BY <1>1, <1>2, <1>3 DEF ErrandSound, ErrandShape
<1>6. Emptied'
  BY <1>1, <1>4 DEF ErrandSound, Emptied, Deleting, Doing, Asked, OthersMove
<1> QED
  BY <1>2, <1>5, <1>6 DEF ErrandSound

\* Every step keeps it.
LEMMA ErrandStep == ErrandSound /\ [ResourceNext]_resourceVars => ErrandSound'
<1>1. ErrandSound /\ UNCHANGED resourceVars => ErrandSound'
  <2> SUFFICES ASSUME ErrandSound, platform' = platform, errand' = errand PROVE ErrandSound'
    BY DEF resourceVars
  <2>1. ErrandShape' /\ Emptied'
    BY DEF ErrandSound, ErrandShape, Emptied, Deleting, Doing, Asked
  <2>2. ASSUME errand.moves = 0 PROVE SelectedFrom(errand.before)' /\ Made(errand.before)'
    <3>b. PICK b : b = errand.before
      OBVIOUS
    <3>s. /\ Asked' = Asked /\ errand'.at = errand.at /\ errand'.pick = errand.pick
          /\ errand'.chosen = errand.chosen /\ errand'.image = errand.image /\ errand'.port = errand.port
          /\ errand'.certificate = errand.certificate /\ errand'.shown = errand.shown /\ errand'.before = b
      BY <3>b DEF Asked
    <3>0. SelectedFrom(b)
      BY <2>2, <3>b DEF ErrandSound
    <3>r. RuntimeSelected(errand.before)'
      BY <3>0, <3>s DEF SelectedFrom, RuntimeSelected, Doing
    <3>e. EntrySelected(errand.before)'
      BY <3>0, <3>s DEF SelectedFrom, EntrySelected, Doing
    <3>1. SelectedFrom(errand.before)'
      BY <3>r, <3>e DEF SelectedFrom
    <3>2. Made(errand.before)'
      BY <2>2 DEF ErrandSound, Made, Importing, Deleting, Doing, Asked
    <3> QED
      BY <3>1, <3>2
  <2> QED
    BY <2>1, <2>2 DEF ErrandSound
<1>2. ErrandSound /\ GiveUpErrand => ErrandSound'
  BY FailsSound DEF GiveUpErrand, Stopped
<1> QED
  BY <1>1, <1>2, SelectRuntimeStep, ChangeRuntimeStep, SelectImageStep, ListRuntimesStep, SelectUpdatedStep,
     UpdateArtifactStep, CreateReleaseStep, SelectReleaseStep, RollbackReleaseStep, SelectPortStep,
     SelectCertificateStep, CreateRouteStep, SelectRouteStep, DeleteRouteStep, EditRouteStep, UpdateRouteStep,
     ListDomainStep, DeleteNextStep, ImportCertificateStep, FindCertificateStep, DeleteCertificateStep,
     OthersMoveStep DEF ResourceNext

\* A command on resources does what was ordered and nothing else, for any platform,
\* any order and any number of moves of other clients.
THEOREM OrderedAndNothingElse == ResourceSpec => []OnlyOrdered
<1>1. ErrandSound => OnlyOrdered
  BY DEF ErrandSound, Emptied, Made, OnlyOrdered
<1> QED
  BY <1>1, ErrandStarts, ErrandStep, PTL DEF ResourceSpec

-----------------------------------------------------------------------------
(* galaxy cp.                                                              *)

\* The tree of paths: a directory on the way to another comes earlier, and those
\* on the way to one path are on the way to each other.
LEMMA WayFacts ==
    /\ \A p \in Spots : Within[p] \subseteq Spots
    /\ \A p \in Spots : p \notin Within[p]
    /\ \A p \in Spots : \A q \in Within[p] : Within[q] \subseteq Within[p] /\ p \notin Within[q]
    /\ \A p \in Spots : Into[p] \in Spots => Within[Into[p]] = Within[p] \union {p}
<1>1. \A p \in Spots : Within[p] \subseteq Spots
  BY CopyAssumption
<1>2. \A p \in Spots : \A q \in Within[p] : Within[q] \subseteq Within[p]
  BY CopyAssumption
<1>3. \A p \in Spots : p \notin Within[p]
  <2> SUFFICES ASSUME NEW p \in Spots, p \in Within[p] PROVE FALSE
    OBVIOUS
  <2>1. PICK k \in DOMAIN CopyPaths : p = CopyPaths[k]
    BY DEF Spots
  <2>2. k < k /\ k \in Nat
    BY <2>1, CopyAssumption
  <2> QED
    BY <2>2
<1> QED
  BY <1>1, <1>2, <1>3, CopyAssumption

\* The first of some paths is one of them.
LEMMA FirstIsOne == ASSUME NEW S \in SUBSET Spots, S # {} PROVE FirstOf(S) \in S
<1> DEFINE K == {k \in DOMAIN CopyPaths : CopyPaths[k] \in S}
<1>1. K \in SUBSET Nat /\ K # {}
  BY CopyAssumption DEF Spots
<1>2. \E k \in K : \A j \in K : k <= j
  BY <1>1, Smallest
<1>3. PICK k \in DOMAIN CopyPaths : CopyPaths[k] \in S /\ \A j \in DOMAIN CopyPaths : CopyPaths[j] \in S => k <= j
  BY <1>2
<1> QED
  BY <1>3 DEF FirstOf

\* Below a directory there is a path of it on the way to whatever is further down.
LEMMA OnTheWay ==
    ASSUME NEW p \in Spots, NEW t \in Within[p]
    PROVE  \E c \in Spots : /\ c = p \/ c \in Within[p]
                            /\ t \in Within[c] /\ \A r \in Within[c] : r = t \/ r \in Within[t]
<1> DEFINE S == {x \in Spots : (x = p \/ x \in Within[p]) /\ t \in Within[x]}
           K == {k \in DOMAIN CopyPaths : CopyPaths[k] \in S}
<1>1. K \in SUBSET Nat /\ K # {}
  BY CopyAssumption DEF Spots
<1>2. PICK k \in K : \A j \in K : k <= j
  BY <1>1, Smallest
<1> DEFINE c == CopyPaths[k]
<1>3. c \in S
  BY <1>2
<1>4. ASSUME NEW r \in Within[c] PROVE r = t \/ r \in Within[t]
  <2>1. r \in Spots /\ (r = t \/ r \in Within[t] \/ t \in Within[r])
    BY <1>3, <1>4, CopyAssumption
  <2>2. ASSUME t \in Within[r] PROVE FALSE
    <3>1. r \in S
      BY <1>3, <1>4, <2>1, <2>2, WayFacts
    <3>2. PICK j \in DOMAIN CopyPaths : r = CopyPaths[j]
      BY <2>1 DEF Spots
    <3>3. j \in K /\ j \in Nat /\ k \in Nat
      BY <1>1, <3>1, <3>2
    <3>4. k <= j /\ j < k
      BY <1>2, <1>4, <3>2, <3>3, CopyAssumption
    <3> QED
      BY <3>3, <3>4
  <2> QED
    BY <2>1, <2>2
<1> QED
  BY <1>3, <1>4

\* The variables' types; below a path that is there, there are directories.
CopyShape ==
    /\ from \in [Spots -> Inner \union {"absent", "dir", "link"}]
    /\ \A p \in Spots : from[p] # "absent" => \A q \in Within[p] : from[q] = "dir"
    /\ to \in [Spots -> Texts \union {"absent", "dir"}] /\ to0 \in [Spots -> Outer \union {"absent", "dir"}]
    /\ DOMAIN pending \subseteq Spots /\ DOMAIN printed \subseteq Spots
    /\ \A q \in DOMAIN printed : printed[q] \in Inner
    /\ touches \in Nat /\ (touches = 0 => touched = {})
    /\ copying \in {"write", "put"} => ~NoneLeft /\ got \in Inner /\ (touches = 0 => got = from[Top])
    /\ copying \in {"select", "first"} => DOMAIN printed = {}

\* What is to be visited is not below anything else of it, and what was reported is
\* of a source that is neither above nor below any of it.
Beyond(s) == \A t \in DOMAIN pending : s # t /\ s \notin Within[t] /\ t \notin Within[s]
Apart == \A s, t \in DOMAIN pending : s \notin Within[t]
Accounted == \A q \in DOMAIN printed : \E s \in Spots : q \in {s, Into[s]} /\ Beyond(s)

\* What the command may have made of a path.
Fair(p) ==
    /\ to[p] \in {to0[p]} \union Inner \union {"dir"}
    /\ to[p] = "dir" => to0[p] \in {"absent", "dir"}
    /\ p \in DOMAIN printed => to[p] = printed[p]
    /\ to[p] \in Inner => to0[p] # "dir" /\ (p \in DOMAIN printed \/ copying = "failed")

\* When nobody interferes.
Settled(p) ==
    /\ from[p] = "dir" => to[p] = "dir"
    /\ from[p] \in Inner /\ Landings(p) # Elsewhere => to[Landings(p)] = from[p]
Waiting(p) == \E t \in DOMAIN pending : p = t \/ t \in Within[p]
Purposeful(p) == \E q \in Spots : from[q] \in Inner \union {"dir"} /\ p \in {q, Landings(q)} \union Within[q]
Alone ==
    /\ \A q \in DOMAIN pending : pending[q] \in {"any", from[q]}
    /\ \A p \in Spots : to[p] = "dir" /\ to0[p] # "dir" => from[p] = "dir"
    /\ \A p \in Spots : to[p] # to0[p] => Purposeful(p)
    /\ copying \notin {"select", "first", "failed"} =>
          \A p \in Spots : from[p] \in Inner \union {"dir"} => Settled(p) \/ Waiting(p)

CopySound ==
    /\ CopyShape /\ Apart /\ Accounted
    /\ \A p \in Spots \ touched : Fair(p)
    /\ touches = 0 => Alone

\* Contents are no marks.
LEMMA CopyMarks == \A x \in Texts : x # "absent" /\ x # "dir" /\ x # "link"
BY CopyAssumption

\* cp begins in order.
LEMMA CopyStarts == CopyInit => CopySound
<1> SUFFICES ASSUME CopyInit PROVE CopySound
  OBVIOUS
<1>1. /\ DOMAIN pending = {} /\ DOMAIN printed = {} /\ copying = "select" /\ to0 = to
      /\ touches = 0 /\ touched = {}
  BY DEF CopyInit
<1>2. CopyShape
  <2>1. /\ from \in [Spots -> Inner \union {"absent", "dir", "link"}]
        /\ \A p \in Spots : from[p] # "absent" => \A q \in Within[p] : from[q] = "dir"
        /\ to \in [Spots -> Outer \union {"absent", "dir"}]
    BY DEF CopyInit, NodeTrees
  <2>2. to \in [Spots -> Texts \union {"absent", "dir"}]
    BY <2>1 DEF Texts
  <2>3. /\ DOMAIN pending \subseteq Spots /\ DOMAIN printed \subseteq Spots
        /\ \A q \in DOMAIN printed : printed[q] \in Inner
    BY <1>1
  <2> QED
    BY <1>1, <2>1, <2>2, <2>3 DEF CopyShape
<1>3. \A p \in Spots : Fair(p)
  <2>1. \A p \in Spots : to[p] \in Outer \union {"absent", "dir"}
    BY DEF CopyInit, NodeTrees
  <2> QED
    BY <1>1, <2>1, CopyAssumption, CopyMarks DEF Fair, Texts
<1> QED
  BY <1>1, <1>2, <1>3 DEF CopySound, Apart, Accounted, Alone

\* A container is selected; nothing else happens.
LEMMA SelectContainerStep == CopySound /\ SelectContainer => CopySound'
<1> SUFFICES ASSUME CopySound, SelectContainer PROVE CopySound'
  OBVIOUS
<1>1. /\ copying = "select" /\ copying' = "first"
      /\ UNCHANGED <<from, to, upload, to0, touched, touches, pending, got, printed>>
  BY DEF SelectContainer, TreesSame
<1>2. CopyShape'
  BY <1>1 DEF CopySound, CopyShape, NoneLeft
<1>3. Apart' /\ Accounted'
  BY <1>1 DEF CopySound, Apart, Accounted, Beyond
<1>4. \A p \in Spots \ touched' : Fair(p)'
  BY <1>1 DEF CopySound, Fair
<1>5. touches' = 0 => Alone'
  BY <1>1 DEF CopySound, Alone, Purposeful, Landings, Landing
<1> QED
  BY <1>2, <1>3, <1>4, <1>5 DEF CopySound

\* The first path has all others below it.
LEMMA VisitFirstStep == CopySound /\ VisitFirst => CopySound'
<1> SUFFICES ASSUME CopySound, VisitFirst PROVE CopySound'
  OBVIOUS
<1>0. Root \in Spots
  BY CopyAssumption DEF Spots, Root
<1>1. /\ copying = "first" /\ copying' = "visit" /\ DOMAIN pending' = {Root}
      /\ pending'[Root] = TypeListed(Root)
      /\ UNCHANGED <<from, to, upload, to0, touched, touches, got, printed>>
  BY DEF VisitFirst, TreesSame
<1>2. CopyShape'
  BY <1>0, <1>1 DEF CopySound, CopyShape
<1>3. Apart' /\ Accounted'
  BY <1>0, <1>1, WayFacts DEF CopySound, CopyShape, Apart, Accounted
<1>4. \A p \in Spots \ touched' : Fair(p)'
  BY <1>1 DEF CopySound, Fair
<1>5. ASSUME touches' = 0 PROVE Alone'
  <2>1. \A q \in DOMAIN pending' : pending'[q] \in {"any", from[q]}
    BY <1>1 DEF TypeListed
  <2>2. \A p \in Spots : to[p] # to0[p] => Purposeful(p)'
    BY <1>1, <1>5 DEF CopySound, Alone, Purposeful, Landings, Landing
  <2>3. \A p \in Spots : Waiting(p)'
    BY <1>1, CopyAssumption DEF Waiting
  <2> QED
    BY <1>1, <1>5, <2>1, <2>2, <2>3 DEF CopySound, Alone
<1> QED
  BY <1>2, <1>3, <1>4, <1>5 DEF CopySound


\* Directories made on the way to what is copied disturb nothing.
LEMMA MadeDirectories ==
    ASSUME CopySound, copying # "failed", NEW S \in SUBSET Spots, Makes(S),
           UNCHANGED <<from, upload, printed, to0, touched>>
    PROVE  /\ to' \in [Spots -> Texts \union {"absent", "dir"}]
           /\ \A p \in Spots \ touched : Fair(p)'
           /\ \A p \in Spots : Settled(p) => Settled(p)'
<1>1. /\ \A q \in S : to[q] \in {"absent", "dir"}
      /\ to' = [q \in Spots |-> IF q \in S THEN "dir" ELSE to[q]]
  BY DEF Makes
<1>2. to' \in [Spots -> Texts \union {"absent", "dir"}]
  BY <1>1 DEF CopySound, CopyShape
<1>3. ASSUME NEW p \in Spots \ touched PROVE Fair(p)'
  <2>1. Fair(p)
    BY DEF CopySound
  <2>2. CASE p \in S
    <3>1. to[p] \in {"absent", "dir"} /\ to'[p] = "dir"
      BY <1>1, <2>2
    <3>2. "absent" \notin Inner /\ "dir" \notin Inner
      BY CopyAssumption DEF Texts
    <3>3. p \notin DOMAIN printed
      BY <2>1, <3>1, <3>2 DEF Fair, CopySound, CopyShape
    <3>4. to0[p] \in {"absent", "dir"}
      BY <2>1, <3>1, <3>2 DEF Fair
    <3> QED
      BY <3>1, <3>2, <3>3, <3>4 DEF Fair
  <2>3. CASE p \notin S
    <3>1. to'[p] = to[p]
      BY <1>1, <2>3
    <3> QED
      BY <2>1, <3>1 DEF Fair
  <2> QED
    BY <2>2, <2>3
<1>4. ASSUME NEW p \in Spots, Settled(p) PROVE Settled(p)'
  <2>1. from[p] = "dir" => to'[p] = "dir"
    BY <1>1, <1>4 DEF Settled
  <2>2. Landings(p)' = Landings(p) /\ Landings(p) \in Spots \union {Elsewhere}
    BY CopyAssumption DEF Landings, Landing
  <2>3. ASSUME from[p] \in Inner, Landings(p) # Elsewhere PROVE to'[Landings(p)] = from[p]
    <3>1. to[Landings(p)] = from[p] /\ Landings(p) \in Spots
      BY <1>4, <2>2, <2>3 DEF Settled
    <3>2. Landings(p) \notin S
      BY <1>1, <2>3, <3>1, CopyAssumption DEF Texts
    <3> QED
      BY <1>1, <3>1, <3>2
  <2> QED
    BY <2>1, <2>2, <2>3 DEF Settled
<1> QED
  BY <1>2, <1>3, <1>4

\* They are directories of the source, or lead to what is copied.
LEMMA MeantDirectories ==
    ASSUME CopySound, touches = 0, NEW t \in Spots, from[t] \in Inner \union {"dir"},
           NEW S \in SUBSET Spots, Makes(S), \A q \in S : q = t \/ q \in Within[t], t \in S => from[t] = "dir",
           UNCHANGED <<from, upload, to0>>
    PROVE  /\ \A p \in Spots : to'[p] = "dir" /\ to0[p] # "dir" => from[p] = "dir"
           /\ \A p \in Spots : to'[p] # to0[p] => Purposeful(p)'
<1>1. to' = [q \in Spots |-> IF q \in S THEN "dir" ELSE to[q]]
  BY DEF Makes
<1>2. from[t] # "absent"
  BY CopyAssumption DEF Texts
<1>3. \A q \in S : from[q] = "dir"
  BY <1>2 DEF CopySound, CopyShape
<1>4. \A p \in Spots : to[p] = "dir" /\ to0[p] # "dir" => from[p] = "dir"
  BY DEF CopySound, Alone
<1>5. \A p \in Spots : Purposeful(p)' <=> Purposeful(p)
  BY DEF Purposeful, Landings, Landing
<1>6. \A p \in Spots : to[p] # to0[p] => Purposeful(p)
  BY DEF CopySound, Alone
<1>7. \A p \in S : Purposeful(p)
  BY DEF Purposeful
<1>8. ASSUME NEW p \in Spots, to'[p] = "dir", to0[p] # "dir" PROVE from[p] = "dir"
  BY <1>1, <1>3, <1>4, <1>8
<1>9. ASSUME NEW p \in Spots, to'[p] # to0[p] PROVE Purposeful(p)'
  <2>1. CASE p \in S
    BY <1>5, <1>7, <2>1
  <2>2. CASE p \notin S
    BY <1>1, <1>5, <1>6, <1>9, <2>2
  <2> QED
    BY <2>1, <2>2
<1> QED
  BY <1>8, <1>9

\* A directory is visited: what is in it is to be visited instead.
LEMMA ChildrenKeptApart ==
    ASSUME CopySound, NEW t \in DOMAIN pending, DOMAIN pending' = (DOMAIN pending \ {t}) \union Children(t),
           UNCHANGED printed
    PROVE  DOMAIN pending' \subseteq Spots /\ Apart' /\ Accounted'
<1>1. DOMAIN pending \subseteq Spots
  BY DEF CopySound, CopyShape
<1>2. \A c \in Children(t) : c \in Spots /\ t \in Within[c] /\ \A r \in Within[c] : r = t \/ r \in Within[t]
  BY DEF Children
<1>3. \A s, u \in DOMAIN pending : s \notin Within[u]
  BY DEF CopySound, Apart
<1>4. \A s, u \in DOMAIN pending' : s \notin Within[u]
  <2> SUFFICES ASSUME NEW s \in DOMAIN pending', NEW u \in DOMAIN pending', s \in Within[u] PROVE FALSE
    OBVIOUS
  <2>1. CASE u \in Children(t)
    <3>1. s = t \/ s \in Within[t]
      BY <1>2, <2>1
    <3>2. CASE s \in Children(t)
      BY <1>1, <1>2, <3>1, <3>2, WayFacts
    <3>3. CASE s \in DOMAIN pending \ {t}
      BY <1>3, <3>1, <3>3
    <3> QED
      BY <3>2, <3>3
  <2>2. CASE u \in DOMAIN pending \ {t}
    <3>1. CASE s \in Children(t)
      BY <1>1, <1>2, <1>3, <2>2, <3>1, WayFacts
    <3>2. CASE s \in DOMAIN pending \ {t}
      BY <1>3, <2>2, <3>2
    <3> QED
      BY <3>1, <3>2
  <2> QED
    BY <2>1, <2>2
<1>5. ASSUME NEW s \in Spots, Beyond(s) PROVE Beyond(s)'
  <2>1. s # t /\ s \notin Within[t] /\ t \notin Within[s]
    BY <1>5 DEF Beyond
  <2>2. ASSUME NEW c \in Children(t) PROVE s # c /\ s \notin Within[c] /\ c \notin Within[s]
    BY <1>2, <2>1, WayFacts
  <2>3. \A u \in DOMAIN pending : s # u /\ s \notin Within[u] /\ u \notin Within[s]
    BY <1>5 DEF Beyond
  <2> QED
    BY <2>2, <2>3 DEF Beyond
<1>6. Accounted'
  BY <1>5 DEF CopySound, Accounted
<1> QED
  BY <1>1, <1>2, <1>4, <1>6 DEF Apart

\* Of what is left out, or done, nothing is to be visited any more.
LEMMA FewerKeptApart ==
    ASSUME CopySound, DOMAIN pending' \subseteq DOMAIN pending
    PROVE  DOMAIN pending' \subseteq Spots /\ Apart' /\ \A s \in Spots : Beyond(s) => Beyond(s)'
BY DEF CopySound, CopyShape, Apart, Beyond

\* What comes next is to be visited, and of the paths.
LEMMA TopIsOne == ASSUME CopySound, ~NoneLeft PROVE Top \in DOMAIN pending /\ Top \in Spots
<1>1. DOMAIN pending \in SUBSET Spots /\ DOMAIN pending # {}
  BY DEF CopySound, CopyShape, NoneLeft
<1> QED
  BY <1>1, FirstIsOne DEF Top

\* A directory is made and listed.
LEMMA VisitDirectoryStep == CopySound /\ VisitDirectory => CopySound'
<1> SUFFICES ASSUME CopySound, VisitDirectory PROVE CopySound'
  OBVIOUS
<1>t. PICK t : t = Top
  OBVIOUS
<1>1. /\ copying = "visit" /\ ~NoneLeft /\ Makes(Within[t] \union {t})
      /\ TopType = "dir" \/ (TopType \in Inner /\ from[t] \in {"dir", "link"})
      /\ UNCHANGED <<from, upload, target, got, printed, to0, touched, touches>>
  BY <1>t DEF VisitDirectory
<1>2. t \in DOMAIN pending /\ t \in Spots /\ Within[t] \union {t} \subseteq Spots
  BY <1>1, <1>t, TopIsOne, WayFacts
<1>3. \/ Replaces(Children(t)) /\ copying' = "visit"
      \/ copying' = "failed" /\ pending' = pending
  BY <1>1, <1>t DEF VisitDirectory
<1>4. /\ to' \in [Spots -> Texts \union {"absent", "dir"}]
      /\ \A p \in Spots \ touched : Fair(p)'
      /\ \A p \in Spots : Settled(p) => Settled(p)'
  BY <1>1, <1>2, MadeDirectories
<1>5. DOMAIN pending' \subseteq Spots /\ Apart' /\ Accounted'
  <2>1. CASE Replaces(Children(t))
    <3>1. DOMAIN pending' = (DOMAIN pending \ {t}) \union Children(t)
      BY <1>t, <2>1 DEF Replaces
    <3> QED
      BY <1>1, <1>2, <3>1, ChildrenKeptApart
  <2>2. CASE pending' = pending
    BY <1>1, <2>2 DEF CopySound, CopyShape, Apart, Accounted, Beyond
  <2> QED
    BY <1>3, <2>1, <2>2
<1>6. CopyShape'
  BY <1>1, <1>3, <1>4, <1>5 DEF CopySound, CopyShape
<1>7. ASSUME touches' = 0 PROVE Alone'
  <2>1. touches = 0 /\ Alone
    BY <1>1, <1>7 DEF CopySound
  <2>2. pending[t] \in {"any", from[t]}
    BY <1>2, <2>1 DEF Alone
  <2>3. TopType = from[t]
    BY <1>t, <2>2 DEF TopType
  <2>4. from[t] = "dir"
    BY <1>1, <2>3, CopyAssumption DEF Texts
  <2>5. /\ \A p \in Spots : to'[p] = "dir" /\ to0[p] # "dir" => from[p] = "dir"
        /\ \A p \in Spots : to'[p] # to0[p] => Purposeful(p)'
    BY <1>1, <1>2, <2>1, <2>4, MeantDirectories
  <2>6. CASE copying' = "failed" /\ pending' = pending
    BY <1>1, <2>1, <2>5, <2>6 DEF Alone
  <2>7. CASE Replaces(Children(t)) /\ copying' = "visit"
    <3>1. /\ DOMAIN pending' = (DOMAIN pending \ {t}) \union Children(t)
          /\ \A q \in DOMAIN pending' : pending'[q] = IF q \in Children(t) THEN TypeListed(q) ELSE pending[q]
      BY <1>t, <2>7 DEF Replaces
    <3>2. \A q \in DOMAIN pending' : pending'[q] \in {"any", from[q]}
      BY <2>1, <3>1 DEF TypeListed, Alone
    <3>3. ASSUME NEW p \in Spots, from[p] \in Inner \union {"dir"} PROVE Settled(p)' \/ Waiting(p)'
      <4>1. Settled(p) \/ Waiting(p)
        BY <1>1, <2>1, <3>3 DEF Alone
      <4>2. CASE Settled(p)
        BY <1>4, <4>2
      <4>3. ASSUME NEW u \in DOMAIN pending, p = u \/ u \in Within[p], u # t PROVE Waiting(p)'
        BY <3>1, <4>3 DEF Waiting
      <4>4. CASE p = t
        <5>1. to'[t] = "dir" /\ from'[t] = "dir" /\ "dir" \notin Inner
          BY <1>1, <1>2, <2>4, CopyAssumption DEF Makes, Texts
        <5> QED
          BY <4>4, <5>1 DEF Settled
      <4>5. CASE t \in Within[p]
        <5>1. PICK c \in Spots : /\ c = p \/ c \in Within[p]
                                 /\ t \in Within[c] /\ \A r \in Within[c] : r = t \/ r \in Within[t]
          BY <4>5, OnTheWay
        <5>2. from[p] # "absent" /\ "dir" # "absent"
          BY <3>3, CopyAssumption DEF Texts
        <5>3. from[c] # "absent"
          BY <5>1, <5>2 DEF CopySound, CopyShape
        <5>4. c \in Children(t)
          BY <5>1, <5>3 DEF Children
        <5> QED
          BY <3>1, <5>1, <5>4 DEF Waiting
      <4> QED
        BY <4>1, <4>2, <4>3, <4>4, <4>5 DEF Waiting
    <3> QED
      BY <1>1, <2>5, <2>7, <3>2, <3>3 DEF Alone
  <2> QED
    BY <1>3, <2>6, <2>7
<1> QED
  BY <1>1, <1>4, <1>5, <1>6, <1>7 DEF CopySound

\* A link is left out.
LEMMA SkipOtherStep == CopySound /\ SkipOther => CopySound'
<1> SUFFICES ASSUME CopySound, SkipOther PROVE CopySound'
  OBVIOUS
<1>t. PICK t : t = Top
  OBVIOUS
<1>1. /\ copying = "visit" /\ copying' = "visit" /\ ~NoneLeft
      /\ TopType \notin Inner \union {"dir", "absent"}
      /\ UNCHANGED <<from, to, upload, to0, touched, touches, got, printed>>
  BY DEF SkipOther, TreesSame
<1>2. t \in DOMAIN pending /\ t \in Spots
  BY <1>1, <1>t, TopIsOne
<1>3. DOMAIN pending' = DOMAIN pending \ {t} /\ \A q \in DOMAIN pending' : pending'[q] = pending[q]
  BY <1>t DEF SkipOther, Replaces
<1>4. DOMAIN pending' \subseteq Spots /\ Apart' /\ \A s \in Spots : Beyond(s) => Beyond(s)'
  BY <1>3, FewerKeptApart
<1>5. Accounted'
  BY <1>1, <1>4 DEF CopySound, Accounted
<1>6. CopyShape'
  BY <1>1, <1>4 DEF CopySound, CopyShape
<1>7. \A p \in Spots \ touched' : Fair(p)'
  BY <1>1 DEF CopySound, Fair
<1>8. ASSUME touches' = 0 PROVE Alone'
  <2>1. touches = 0 /\ Alone
    BY <1>1, <1>8 DEF CopySound
  <2>2. pending[t] \in {"any", from[t]}
    BY <1>2, <2>1 DEF Alone
  <2>3. from[t] \notin Inner \union {"dir"}
    BY <1>1, <1>t, <2>2 DEF TopType
  <2>4. \A p \in Spots : Purposeful(p)' <=> Purposeful(p)
    BY <1>1 DEF Purposeful, Landings, Landing
  <2>5. \A p \in Spots : Settled(p)' <=> Settled(p)
    BY <1>1 DEF Settled, Landings, Landing
  <2>6. ASSUME NEW p \in Spots, from[p] \in Inner \union {"dir"} PROVE Settled(p)' \/ Waiting(p)'
    <3>1. Settled(p) \/ Waiting(p)
      BY <1>1, <2>1, <2>6 DEF Alone
    <3>2. from[p] # "absent"
      BY <2>6, CopyAssumption DEF Texts
    <3>3. p # t /\ t \notin Within[p]
      BY <2>3, <2>6, <3>2 DEF CopySound, CopyShape
    <3>4. Waiting(p) => Waiting(p)'
      BY <1>3, <3>3 DEF Waiting
    <3> QED
      BY <2>5, <3>1, <3>4
  <2>7. \A q \in DOMAIN pending' : pending'[q] \in {"any", from[q]}
    BY <1>3, <2>1 DEF Alone
  <2> QED
    BY <1>1, <2>1, <2>4, <2>6, <2>7 DEF Alone
<1> QED
  BY <1>4, <1>5, <1>6, <1>7, <1>8 DEF CopySound

\* A file is read.
LEMMA ReadCopiedStep == CopySound /\ ReadCopied => CopySound'
<1> SUFFICES ASSUME CopySound, ReadCopied PROVE CopySound'
  OBVIOUS
<1>1. /\ copying = "visit" /\ copying' = "write" /\ ~NoneLeft /\ from[Top] \in Inner /\ got' = from[Top]
      /\ UNCHANGED <<from, to, upload, to0, touched, touches, pending, printed>>
  BY DEF ReadCopied, TreesSame
<1>2. NoneLeft' = NoneLeft /\ Top' = Top
  BY <1>1 DEF NoneLeft, Top
<1>3. CopyShape'
  BY <1>1, <1>2 DEF CopySound, CopyShape
<1>4. Apart' /\ Accounted'
  BY <1>1 DEF CopySound, Apart, Accounted, Beyond
<1>5. \A p \in Spots \ touched' : Fair(p)'
  BY <1>1 DEF CopySound, Fair
<1>6. touches' = 0 => Alone'
  BY <1>1 DEF CopySound, Alone, Purposeful, Settled, Waiting, Landings, Landing
<1> QED
  BY <1>3, <1>4, <1>5, <1>6 DEF CopySound

\* The directories on the way to it are made.
LEMMA MakeCopyParentsStep == CopySound /\ MakeCopyParents => CopySound'
<1> SUFFICES ASSUME CopySound, MakeCopyParents PROVE CopySound'
  OBVIOUS
<1>t. PICK t : t = Top
  OBVIOUS
<1>1. /\ copying = "write" /\ copying' \in {"put", "failed"} /\ Makes(Within[t])
      /\ UNCHANGED <<from, upload, target, pending, got, printed, to0, touched, touches>>
  BY <1>t DEF MakeCopyParents
<1>2. ~NoneLeft /\ got \in Inner /\ (touches = 0 => got = from[t])
  BY <1>1, <1>t DEF CopySound, CopyShape
<1>3. t \in DOMAIN pending /\ t \in Spots /\ Within[t] \subseteq Spots /\ t \notin Within[t]
  BY <1>2, <1>t, TopIsOne, WayFacts
<1>4. NoneLeft' = NoneLeft /\ Top' = t
  BY <1>1, <1>t DEF NoneLeft, Top
<1>5. /\ to' \in [Spots -> Texts \union {"absent", "dir"}]
      /\ \A p \in Spots \ touched : Fair(p)'
      /\ \A p \in Spots : Settled(p) => Settled(p)'
  BY <1>1, <1>3, MadeDirectories
<1>6. CopyShape'
  BY <1>1, <1>2, <1>4, <1>5 DEF CopySound, CopyShape
<1>7. Apart' /\ Accounted'
  BY <1>1 DEF CopySound, Apart, Accounted, Beyond
<1>8. ASSUME touches' = 0 PROVE Alone'
  <2>1. touches = 0 /\ Alone /\ from[t] \in Inner
    BY <1>1, <1>2, <1>8 DEF CopySound
  <2>2. /\ \A p \in Spots : to'[p] = "dir" /\ to0[p] # "dir" => from[p] = "dir"
        /\ \A p \in Spots : to'[p] # to0[p] => Purposeful(p)'
    BY <1>1, <1>3, <2>1, MeantDirectories
  <2>3. \A p \in Spots : Waiting(p)' <=> Waiting(p)
    BY <1>1 DEF Waiting
  <2>4. \A p \in Spots : from[p] \in Inner \union {"dir"} => Settled(p)' \/ Waiting(p)'
    BY <1>1, <1>5, <2>1, <2>3 DEF Alone
  <2> QED
    BY <1>1, <2>1, <2>2, <2>4 DEF Alone
<1> QED
  BY <1>1, <1>5, <1>6, <1>7, <1>8 DEF CopySound

\* No two sources are written to one place, unless one is on the way to the other.
LEMMA SameLanding ==
    ASSUME NEW s \in Spots, NEW t \in Spots, NEW p \in Spots, p \in {s, Into[s]}, p \in {t, Into[t]}
    PROVE  s = t \/ s \in Within[t] \/ t \in Within[s]
<1>1. CASE p = s /\ p = Into[t]
  <2>1. Within[s] = Within[t] \union {t}
    BY <1>1, WayFacts
  <2> QED
    BY <2>1
<1>2. CASE p = Into[s] /\ p = t
  <2>1. Within[t] = Within[s] \union {s}
    BY <1>2, WayFacts
  <2> QED
    BY <2>1
<1>3. CASE p = Into[s] /\ p = Into[t]
  <2>1. Within[p] = Within[s] \union {s} /\ Within[p] = Within[t] \union {t}
    BY <1>3, WayFacts
  <2> QED
    BY <2>1
<1> QED
  BY <1>1, <1>2, <1>3

\* A file is written; the answer may be lost.
LEMMA PutCopyStep == CopySound /\ PutCopy => CopySound'
<1> SUFFICES ASSUME CopySound, PutCopy PROVE CopySound'
  OBVIOUS
<1>t. PICK t : t = Top
  OBVIOUS
<1>p. PICK p : p = Landing(t, to)
  OBVIOUS
<1>1. /\ copying = "put" /\ Replaces({}) /\ got' = "absent"
      /\ UNCHANGED <<from, upload, target, to0, touched, touches>>
  BY DEF PutCopy
<1>2. \/ p = Elsewhere /\ copying' = "visit" /\ to' = to /\ printed' = printed
      \/ /\ p # Elsewhere /\ to[p] # "dir" /\ to' = [to EXCEPT ![p] = got]
         /\ \/ copying' = "visit" /\ printed' = Reported(p)
            \/ copying' = "failed" /\ printed' = printed
  BY <1>t, <1>p DEF PutCopy
<1>3. ~NoneLeft /\ got \in Inner /\ (touches = 0 => got = from[t])
  BY <1>1, <1>t DEF CopySound, CopyShape
<1>4. t \in DOMAIN pending /\ t \in Spots /\ p \in Spots \union {Elsewhere} /\ p \in {t, Into[t]}
  BY <1>3, <1>t, <1>p, TopIsOne, CopyAssumption DEF Landing
<1>5. DOMAIN pending' = DOMAIN pending \ {t} /\ \A q \in DOMAIN pending' : pending'[q] = pending[q]
  BY <1>1, <1>t DEF Replaces
<1>6. DOMAIN pending' \subseteq Spots /\ Apart' /\ \A s \in Spots : Beyond(s) => Beyond(s)'
  BY <1>5, FewerKeptApart
<1>7. Beyond(t)'
  BY <1>4, <1>5 DEF CopySound, Apart, Beyond
<1>8. "dir" \notin Inner /\ "absent" \notin Inner
  BY CopyAssumption DEF Texts
<1>9. p # Elsewhere => p \in Spots /\ p \notin DOMAIN printed
  <2> SUFFICES ASSUME p # Elsewhere, p \in DOMAIN printed PROVE FALSE
    BY <1>4
  <2>1. PICK s \in Spots : p \in {s, Into[s]} /\ Beyond(s)
    BY DEF CopySound, Accounted
  <2>2. s # t /\ s \notin Within[t] /\ t \notin Within[s]
    BY <1>4, <2>1 DEF Beyond
  <2> QED
    BY <1>4, <2>1, <2>2, SameLanding
<1>10. /\ \A x \in Spots : x # p => to'[x] = to[x]
       /\ p # Elsewhere => to'[p] = got
       /\ to' \in [Spots -> Texts \union {"absent", "dir"}]
  BY <1>2, <1>3, <1>4 DEF CopySound, CopyShape, Texts
<1>11. /\ DOMAIN printed' \subseteq DOMAIN printed \union {p}
       /\ DOMAIN printed \subseteq DOMAIN printed' /\ DOMAIN printed' \subseteq Spots
       /\ \A q \in DOMAIN printed : q # p => printed'[q] = printed[q]
       /\ p \in DOMAIN printed' => printed'[p] = got
  <2>1. DOMAIN printed \subseteq Spots
    BY DEF CopySound, CopyShape
  <2>2. CASE printed' = printed
    BY <1>9, <2>1, <2>2, CopyAssumption
  <2>3. CASE p # Elsewhere /\ printed' = Reported(p)
    BY <1>9, <2>1, <2>3 DEF Reported
  <2> QED
    BY <1>2, <2>2, <2>3
<1>12. CopyShape'
  <2>1. \A q \in DOMAIN printed' : printed'[q] \in Inner
    BY <1>3, <1>11 DEF CopySound, CopyShape
  <2>2. copying' \in {"visit", "failed"}
    BY <1>2
  <2> QED
    BY <1>1, <1>6, <1>10, <1>11, <2>1, <2>2 DEF CopySound, CopyShape
<1>13. Accounted'
  <2> SUFFICES ASSUME NEW q \in DOMAIN printed' PROVE \E s \in Spots : q \in {s, Into[s]} /\ Beyond(s)'
    BY DEF Accounted
  <2>1. CASE q = p
    BY <1>4, <1>7, <2>1
  <2>2. CASE q # p
    BY <1>6, <1>11, <2>2 DEF CopySound, Accounted
  <2> QED
    BY <2>1, <2>2
<1>14. ASSUME NEW x \in Spots \ touched' PROVE Fair(x)'
  <2>1. Fair(x)
    BY <1>1 DEF CopySound
  <2>2. CASE x = p
    <3>1. p # Elsewhere /\ to'[x] = got
      BY <1>10, <2>2, CopyAssumption
    <3>2. to0[x] # "dir"
      BY <1>2, <1>8, <2>1, <2>2, <3>1 DEF Fair
    <3>3. x \in DOMAIN printed' => printed'[x] = got
      BY <1>11, <2>2
    <3>4. x \in DOMAIN printed' \/ copying' = "failed"
      BY <1>2, <2>2, <3>1 DEF Reported
    <3> QED
      BY <1>1, <1>3, <1>8, <3>1, <3>2, <3>3, <3>4 DEF Fair
  <2>3. CASE x # p
    <3>1. to'[x] = to[x] /\ (x \in DOMAIN printed' <=> x \in DOMAIN printed)
      BY <1>10, <1>11, <2>3
    <3>2. x \in DOMAIN printed => printed'[x] = printed[x]
      BY <1>11, <2>3
    <3>3. copying # "failed"
      BY <1>1
    <3> QED
      BY <1>1, <2>1, <3>1, <3>2, <3>3 DEF Fair
  <2> QED
    BY <2>2, <2>3
<1>15. ASSUME touches' = 0 PROVE Alone'
  <2>1. touches = 0 /\ touched = {} /\ Alone /\ from[t] = got /\ from[t] # "dir" /\ from[t] # "absent"
    BY <1>1, <1>3, <1>8, <1>15 DEF CopySound, CopyShape
  <2>2. to[t] = "dir" <=> to0[t] = "dir"
    <3>1. Fair(t)
      BY <1>4, <2>1 DEF CopySound
    <3>2. to[t] = "dir" => to0[t] = "dir"
      BY <1>4, <2>1 DEF Alone
    <3>3. to0[t] = "dir" => to[t] = "dir"
      BY <3>1 DEF Fair
    <3> QED
      BY <3>2, <3>3
  <2>3. p = Landings(t)
    BY <1>p, <2>2 DEF Landings, Landing
  <2>4. \A x \in Spots : Landings(x)' = Landings(x) /\ Landings(x) \in {x, Into[x]}
    BY <1>1 DEF Landings, Landing
  <2>5. \A q \in DOMAIN pending' : pending'[q] \in {"any", from[q]}
    BY <1>5, <2>1 DEF Alone
  <2>6. \A x \in Spots : to'[x] = "dir" => to[x] = "dir"
    BY <1>3, <1>8, <1>10, CopyAssumption
  <2>7. ASSUME NEW x \in Spots, to'[x] # to0[x] PROVE Purposeful(x)'
    <3>1. CASE x = p
      BY <1>1, <1>3, <1>4, <2>1, <2>3, <2>4, <3>1 DEF Purposeful
    <3>2. CASE x # p
      <4>1. to[x] # to0[x]
        BY <1>10, <2>7, <3>2
      <4> QED
        BY <1>1, <2>1, <2>4, <4>1 DEF Alone, Purposeful
    <3> QED
      BY <3>1, <3>2
  <2>8. ASSUME NEW x \in Spots, from[x] \in Inner \union {"dir"} PROVE Settled(x)' \/ Waiting(x)'
    <3>1. Settled(x) \/ Waiting(x)
      BY <1>1, <2>1, <2>8 DEF Alone
    <3>2. from[x] # "absent"
      BY <1>8, <2>8
    <3>3. t \notin Within[x]
      BY <2>1, <2>8, <3>2 DEF CopySound, CopyShape
    <3>4. CASE x = t
      BY <1>1, <1>10, <2>1, <2>3, <2>4, <3>4 DEF Settled
    <3>5. CASE x # t /\ Waiting(x)
      BY <1>5, <3>3, <3>5 DEF Waiting
    <3>6. CASE x # t /\ Settled(x)
      <4>1. from[x] = "dir" => to'[x] = "dir"
        <5>1. from[x] = "dir" => to[x] = "dir"
          BY <3>6 DEF Settled
        <5>2. x = p => to[x] # "dir"
          BY <1>2, <2>8, CopyAssumption
        <5> QED
          BY <1>10, <5>1, <5>2
      <4>2. ASSUME from[x] \in Inner, Landings(x) # Elsewhere PROVE to'[Landings(x)] = from[x]
        <5>1. to[Landings(x)] = from[x]
          BY <3>6, <4>2 DEF Settled
        <5>2. Landings(x) \in Spots /\ Landings(x) \in {x, Into[x]}
          BY <2>4, <4>2, CopyAssumption
        <5>3. x \notin Within[t]
          BY <1>4, <1>8, <2>1, <4>2 DEF CopySound, CopyShape
        <5>4. Landings(x) # p
          BY <1>4, <3>3, <3>6, <5>2, <5>3, SameLanding
        <5> QED
          BY <1>10, <5>1, <5>2, <5>4
      <4> QED
        BY <1>1, <2>4, <4>1, <4>2 DEF Settled
    <3> QED
      BY <3>1, <3>4, <3>5, <3>6
  <2>9. \A x \in Spots : to'[x] = "dir" /\ to0[x] # "dir" => from[x] = "dir"
    BY <2>1, <2>6 DEF Alone
  <2> QED
    BY <1>1, <2>5, <2>7, <2>8, <2>9 DEF Alone
<1> QED
  BY <1>6, <1>12, <1>13, <1>14, <1>15 DEF CopySound

\* The command ends, or fails, or does nothing.
LEMMA CopyEndStep ==
    ASSUME CopySound, UNCHANGED <<from, to, upload, to0, touched, touches, pending, got, printed>>,
           copying' = copying \/ copying' = "failed" \/ (copying = "visit" /\ copying' = "done")
    PROVE  CopySound'
<1>1. NoneLeft' = NoneLeft /\ Top' = Top
  BY DEF NoneLeft, Top
<1>2. CopyShape'
  BY <1>1 DEF CopySound, CopyShape
<1>3. Apart' /\ Accounted'
  BY DEF CopySound, Apart, Accounted, Beyond
<1>4. \A p \in Spots \ touched' : Fair(p)'
  BY DEF CopySound, Fair
<1>5. touches' = 0 => Alone'
  BY DEF CopySound, Alone, Purposeful, Settled, Waiting, Landings, Landing
<1> QED
  BY <1>2, <1>3, <1>4, <1>5 DEF CopySound

\* Others change one of the sides.
LEMMA TouchTreesStep == CopySound /\ TouchTrees => CopySound'
<1> SUFFICES ASSUME CopySound, TouchTrees PROVE CopySound'
  OBVIOUS
<1>1. /\ touches' = touches + 1 /\ copying \in {"first", "visit", "write", "put"}
      /\ UNCHANGED <<upload, target, copying, pending, got, printed, to0>>
  BY DEF TouchTrees
<1>2. touches' \in Nat /\ touches' # 0
  BY <1>1 DEF CopySound, CopyShape
<1>3. NoneLeft' = NoneLeft
  BY <1>1 DEF NoneLeft
<1>4. \/ from' \in NodeTrees(Inner \union {"absent", "dir", "link"}) /\ UNCHANGED <<to, touched>>
      \/ /\ to' \in NodeTrees(Outer \union {"absent", "dir"}) /\ UNCHANGED from
         /\ touched' = touched \union {p \in Spots : to'[p] # to[p]}
  BY DEF TouchTrees
<1>5. /\ from' \in [Spots -> Inner \union {"absent", "dir", "link"}]
      /\ \A p \in Spots : from'[p] # "absent" => \A q \in Within[p] : from'[q] = "dir"
  BY <1>4 DEF NodeTrees, CopySound, CopyShape
<1>6. to' \in [Spots -> Texts \union {"absent", "dir"}]
  BY <1>4 DEF NodeTrees, CopySound, CopyShape, Texts
<1>7. CopyShape'
  BY <1>1, <1>2, <1>3, <1>5, <1>6 DEF CopySound, CopyShape
<1>8. Apart' /\ Accounted'
  BY <1>1 DEF CopySound, Apart, Accounted, Beyond
<1>9. \A p \in Spots \ touched' : p \notin touched /\ to'[p] = to[p]
  BY <1>4
<1>10. \A p \in Spots \ touched' : Fair(p)'
  BY <1>1, <1>9 DEF CopySound, Fair
<1> QED
  BY <1>2, <1>7, <1>8, <1>10 DEF CopySound

\* Every step keeps it.
LEMMA CopyStep == CopySound /\ [CopyNext]_copyVars => CopySound'
<1> SUFFICES ASSUME CopySound, [CopyNext]_copyVars PROVE CopySound'
  OBVIOUS
<1>1. CASE SelectContainer
  BY <1>1, SelectContainerStep
<1>2. CASE VisitFirst
  BY <1>2, VisitFirstStep
<1>3. CASE VisitDirectory
  BY <1>3, VisitDirectoryStep
<1>4. CASE SkipOther
  BY <1>4, SkipOtherStep
<1>5. CASE ReadCopied
  BY <1>5, ReadCopiedStep
<1>6. CASE MakeCopyParents
  BY <1>6, MakeCopyParentsStep
<1>7. CASE PutCopy
  BY <1>7, PutCopyStep
<1>8. CASE EndCopy
  BY <1>8, CopyEndStep DEF EndCopy, TreesSame
<1>9. CASE FailCopy
  BY <1>9, CopyEndStep DEF FailCopy, TreesSame
<1>10. CASE TouchTrees
  BY <1>10, TouchTreesStep
<1>11. CASE UNCHANGED copyVars
  BY <1>11, CopyEndStep DEF copyVars
<1> QED
  BY <1>1, <1>2, <1>3, <1>4, <1>5, <1>6, <1>7, <1>8, <1>9, <1>10, <1>11 DEF CopyNext

\* With it, nothing is left when the command has ended well.
CopyInvariant == CopySound /\ (copying = "done" => NoneLeft)

\* What the invariant says of a copy that is over.
LEMMA CopySoundIsFaithful == CopyInvariant => CopiedFaithfully
<1> SUFFICES ASSUME CopySound, copying = "done" => NoneLeft PROVE CopiedFaithfully
  BY DEF CopyInvariant
<1>1. \A p \in Spots \ touched : Fair(p)
  BY DEF CopySound
<1>2. ASSUME copying = "done", touches = 0, NEW p \in Spots
      PROVE  /\ from[p] = "dir" => to[p] = "dir"
             /\ from[p] \in Inner /\ Landings(p) # Elsewhere => to[Landings(p)] = from[p]
             /\ to[p] # to0[p] => Purposeful(p)
  <2>1. Alone /\ ~Waiting(p)
    BY <1>2 DEF CopySound, NoneLeft, Waiting
  <2>2. from[p] \in Inner \union {"dir"} => Settled(p)
    BY <1>2, <2>1 DEF Alone
  <2>3. to[p] # to0[p] => Purposeful(p)
    BY <2>1 DEF Alone
  <2> QED
    BY <2>2, <2>3 DEF Settled
<1> QED
  BY <1>1, <1>2 DEF CopiedFaithfully, Fair, Purposeful

\* cp ends only when nothing is left to be visited.
LEMMA DoneWithAll == (copying = "done" => NoneLeft) /\ [CopyNext]_copyVars => (copying' = "done" => NoneLeft')
BY DEF CopyNext, copyVars, SelectContainer, VisitFirst, VisitDirectory, SkipOther, ReadCopied, MakeCopyParents,
       PutCopy, EndCopy, FailCopy, TouchTrees, TreesSame, NoneLeft

\* What galaxy cp leaves (upload, download), for every tree, at both ends, and
\* whatever others do to either meanwhile: nothing that it found is lost but what it
\* was asked to replace, what it reports is there as it was read, and when nobody
\* interferes all of the source is there.
THEOREM CopyLosesNothing == CopySpec => []CopiedFaithfully
<1>1. CopyInit => CopyInvariant
  BY CopyStarts DEF CopyInit, CopyInvariant
<1>2. CopyInvariant /\ [CopyNext]_copyVars => CopyInvariant'
  BY CopyStep, DoneWithAll DEF CopyInvariant
<1>3. CopyInvariant => CopiedFaithfully
  BY CopySoundIsFaithful
<1> QED
  BY <1>1, <1>2, <1>3, PTL DEF CopySpec

-----------------------------------------------------------------------------
(* galaxy get and galaxy info.                                             *)

\* Bags that have nothing twice.
LEMMA BagDomain ==
    ASSUME NEW B, NEW S PROVE BagToSet(B (+) SetToBag(S)) = BagToSet(B) \union S
BY DEF BagToSet, SetToBag, (+)

\* What is added to such a bag and is not in it yet leaves it such a bag.
LEMMA BagOnce ==
    ASSUME NEW B, NEW S, B = SetToBag(BagToSet(B)), S \intersect BagToSet(B) = {}
    PROVE  B (+) SetToBag(S) = SetToBag(BagToSet(B (+) SetToBag(S)))
<1> DEFINE D == BagToSet(B)
<1>1. B = [e \in D |-> 1] /\ DOMAIN B = D
  BY DEF SetToBag, BagToSet
<1>2. DOMAIN SetToBag(S) = S /\ \A e \in S : SetToBag(S)[e] = 1
  BY DEF SetToBag
<1> HIDE DEF D
<1>3. B (+) SetToBag(S) = [e \in D \union S |-> (IF e \in D THEN B[e] ELSE 0) + (IF e \in S THEN SetToBag(S)[e] ELSE 0)]
  BY <1>1, <1>2 DEF (+), BagToSet
<1>4. \A e \in D \union S : (IF e \in D THEN B[e] ELSE 0) + (IF e \in S THEN SetToBag(S)[e] ELSE 0) = 1
  <2> SUFFICES ASSUME NEW e \in D \union S
               PROVE (IF e \in D THEN B[e] ELSE 0) + (IF e \in S THEN SetToBag(S)[e] ELSE 0) = 1
    OBVIOUS
  <2>1. CASE e \in D
    BY <1>1, <2>1 DEF D
  <2>2. CASE e \notin D
    BY <1>2, <2>2
  <2> QED
    BY <2>1, <2>2
<1>5. B (+) SetToBag(S) = [e \in D \union S |-> 1]
  BY <1>3, <1>4
<1>6. BagToSet(B (+) SetToBag(S)) = D \union S
  BY BagDomain DEF D
<1> QED
  BY <1>5, <1>6 DEF SetToBag

\* The bag of a command that has shown nothing.
LEMMA NoRows == BagToSet(EmptyBag) = {} /\ EmptyBag = SetToBag({})
BY DEF EmptyBag, BagToSet, SetToBag

\* The elements of a sequence but the first.
LEMMA TailOf ==
    ASSUME NEW S, NEW s \in Seq(S), s # <<>>
    PROVE  /\ Head(s) = s[1] /\ Head(s) \in S /\ 1 \in DOMAIN s
           /\ Tail(s) \in Seq(S) /\ Len(Tail(s)) = Len(s) - 1
           /\ \A k \in DOMAIN Tail(s) : k + 1 \in DOMAIN s /\ k + 1 # 1 /\ Tail(s)[k] = s[k + 1]
           /\ \A k \in DOMAIN s : k = 1 \/ (k - 1 \in DOMAIN Tail(s) /\ Tail(s)[k - 1] = s[k])
<1>1. Len(s) \in Nat /\ DOMAIN s = 1 .. Len(s) /\ Len(s) > 0
  OBVIOUS
<1>2. Head(s) = s[1]
  OBVIOUS
<1>3. /\ Head(s) \in S /\ Tail(s) \in Seq(S) /\ Len(Tail(s)) = Len(s) - 1
      /\ \A k \in 1 .. Len(Tail(s)) : Tail(s)[k] = s[k + 1]
  BY HeadTailProperties
<1>4. DOMAIN Tail(s) = 1 .. Len(s) - 1
  BY <1>1, <1>3
<1>5. \A k \in DOMAIN Tail(s) : k + 1 \in DOMAIN s /\ k + 1 # 1 /\ Tail(s)[k] = s[k + 1]
  BY <1>1, <1>3, <1>4
<1>6. ASSUME NEW k \in DOMAIN s, k # 1 PROVE k - 1 \in DOMAIN Tail(s) /\ Tail(s)[k - 1] = s[k]
  <2>1. k \in Nat /\ k - 1 \in 1 .. Len(s) - 1 /\ (k - 1) + 1 = k
    BY <1>1, <1>6
  <2>2. Tail(s)[k - 1] = s[(k - 1) + 1]
    BY <1>4, <1>5, <2>1
  <2> QED
    BY <1>4, <2>1, <2>2
<1> QED
  BY <1>1, <1>2, <1>3, <1>5, <1>6

\* A sequence of two.
LEMMA TwoElements ==
    ASSUME NEW S, NEW v \in S, NEW w \in S
    PROVE  <<v, w>> \in Seq(S) /\ Len(<<v, w>>) = 2 /\ <<v, w>>[1] = v /\ <<v, w>>[2] = w
OBVIOUS

\* A sequence of one.
LEMMA OneElement ==
    ASSUME NEW S, NEW w \in S
    PROVE  <<w>> \in Seq(S) /\ <<w>> # <<>> /\ 1 \in DOMAIN <<w>> /\ <<w>>[1] = w
OBVIOUS

\* The commands with one request.
Simple == {"pipeline", "image", "build", "instance", "deploy", "route", "certificate", "organization", "cluster", "group"}

\* What is asked for does not change.
LEMMA MeantSame == ASSUME Fixed PROVE \A e : Meant(e)' <=> Meant(e)
BY DEF Fixed, Meant, Scope, Runs, Named, ProjectScope, OrgScope, ClusterScope, ClusterOf

\* What was meant stays meant, when more resources have been seen.
LEMMA MeantKept ==
    ASSUME UNCHANGED <<query, context>>, ever \subseteq ever' PROVE \A e : Meant(e) => Meant(e)'
<1>1. /\ \A r : ClusterOf(r)' = ClusterOf(r)
      /\ ProjectScope' = ProjectScope
  BY DEF ClusterOf, ProjectScope
<1>2. \A t : Named(t)' <=> Named(t)
  BY DEF Named
<1>3. Scope' = Scope
  BY DEF Scope, ProjectScope, OrgScope, ClusterScope
<1>4. \A r, e : Runs(r, e)' <=> Runs(r, e)
  BY <1>1, <1>2 DEF Runs
<1>5. \A e : (\E r \in ever : Runs(r, e)) => \E r \in ever' : Runs(r, e)'
  BY <1>4
<1> QED
  BY <1>2, <1>3, <1>5 DEF Meant

\* The kinds of resources a command looks at.
LEMMA KindOf ==
    /\ query.what \in Simple \union {"project"} => Kinds = {query.what}
    /\ query.what = "info" => Kinds = {"organization", "group", "project"}
    /\ query.what = "container" => Kinds = {"instance", "container"}
    /\ query.what = "domain" => Kinds = {"route"}
BY DEF Kinds, Simple

\* What is meant, command by command.
LEMMA MeantIs ==
    ASSUME NEW e
    PROVE  /\ query.what \in Simple \union {"project"} =>
                (Meant(e) <=> /\ Scope \in e.in
                              /\ query.what \in {"project", "certificate", "route"} => Named({e.title}))
           /\ query.what = "domain" => (Meant(e) <=> Scope \in e.in)
           /\ query.what = "container" => (Meant(e) <=> e.kind = "container" /\ \E r \in ever : Runs(r, e))
           /\ query.what = "info" =>
                (Meant(e) <=> \/ e.kind = "organization" /\ e.id = context.org
                              \/ e.kind = "group" /\ e.id = context.group
                              \/ e.kind = "project" /\ \E k \in DOMAIN context.projects :
                                   context.projects[k].id = e.id /\ context.projects[k].org \in context.orgs)
BY DEF Meant, Simple

\* The first page of no more than a page is all there is.
LEMMA PageIsAll ==
    ASSUME NEW all \in SUBSET Entries, NEW answer \in Page(all)
    PROVE  answer \subseteq all /\ (~ (Cardinality(answer) >= PageSize) => answer = all)
<1>1. IsFiniteSet(all) /\ Cardinality(all) \in Nat /\ PageSize \in Nat
  BY ReadAssumption, FS_Subset, FS_CardinalityType
<1> QED
  BY <1>1 DEF Page

\* What is there, and what was; a command that has not begun shows nothing.
ReadShape ==
    /\ query \in Queries /\ context \in Contexts
    /\ throughout \subseteq present /\ present \subseteq ever /\ ever \subseteq Candidates
    /\ reading \in {"start", "next", "done", "failed"} /\ cut \in BOOLEAN
    /\ reading = "start" => rows = EmptyBag

\* Nothing is shown that was not meant, or twice.
RowsSound ==
    /\ \A e \in BagToSet(rows) : e \in ever /\ Meant(e)
    /\ query.what = "project" \/ rows = SetToBag(BagToSet(rows))

AllShown ==
    /\ \A e \in throughout : Expected(e) =>
          \E f \in BagToSet(rows) : f = e \/ (query.what = "domain" /\ f.title = e.title)
    /\ query.what = "domain" =>
          \A e, f \in BagToSet(rows) : e.title = f.title => e = f

Words == STRING \union {""}

\* Between the requests of get project: each word is one of the arguments, and a
\* project that is not shown yet will be found by a word that is still to be asked for.
ProjectsToCome ==
    /\ todo \in Seq(Words) /\ todo # <<>>
    /\ \A k \in DOMAIN todo : query.names = <<>> \/ \E j \in DOMAIN query.names : query.names[j] = todo[k]
    /\ ~ cut => \A e \in throughout :
          Meant(e) => e \in BagToSet(rows) \/ \E k \in DOMAIN todo : todo[k] \in {"", e.title}

\* Between those of get container: the runtimes are those that were meant, each of
\* their clusters is asked once, and what was not asked for yet is to come.
ContainersToCome ==
    /\ todo \in Seq({ClusterOf(r) : r \in runtimes})
    /\ \A r \in runtimes :
          r \in ever /\ r.kind = "instance" /\ ProjectScope \in r.in /\ Named({r.title, r.service})
    /\ NoName => \A r \in throughout : r.kind = "instance" /\ ProjectScope \in r.in => r \in runtimes
    /\ ~ NoName => runtimes # {}
    /\ \A j, k \in DOMAIN todo : todo[j] = todo[k] => j = k
    /\ \A e \in BagToSet(rows) : \A k \in DOMAIN todo : todo[k] \notin e.in
    /\ \A r \in runtimes : \/ \E k \in DOMAIN todo : todo[k] = ClusterOf(r)
                           \/ \A e \in throughout : e.kind = "container" /\ ClusterOf(r) \in e.in
                                /\ e.service = r.service => e \in BagToSet(rows)

\* Between those of info: each profile is asked for once.
Profiles ==
    {Ask("organization", context.org, TRUE), Ask("group", context.group, context.group # Nowhere)}
    \union {Ask("project", context.projects[k].id, context.projects[k].org \in context.orgs) :
               k \in DOMAIN context.projects}
ProfilesToCome ==
    /\ todo \in Seq(Profiles)
    /\ \A j, k \in DOMAIN todo : todo[j].kind = todo[k].kind /\ todo[j].id = todo[k].id => j = k
    /\ \A e \in BagToSet(rows) : \A k \in DOMAIN todo : ~ (e.kind = todo[k].kind /\ e.id = todo[k].id)
    /\ \A e \in throughout : Meant(e) =>
          \/ e \in BagToSet(rows)
          \/ \E k \in DOMAIN todo : todo[k].asked /\ e.kind = todo[k].kind /\ e.id = todo[k].id

ReadSound ==
    /\ ReadShape /\ RowsSound
    /\ reading = "done" => AllShown
    /\ reading = "next" /\ query.what = "project" => ProjectsToCome
    /\ reading = "next" /\ query.what = "container" => ContainersToCome
    /\ reading = "next" /\ query.what = "info" => ProfilesToCome

\* What every request keeps.
LEMMA ShapeKept ==
    ASSUME ReadShape, Fixed, reading' \in {"next", "done", "failed"}, cut' \in BOOLEAN
    PROVE  ReadShape'
BY DEF ReadShape, Fixed, Candidates, Kinds

\* An answer that was meant, and does not repeat another one.
LEMMA RowsKept ==
    ASSUME ReadShape, RowsSound, Fixed, NEW answer, Show(answer),
           \A e \in answer : e \in ever /\ Meant(e),
           query.what = "project" \/ answer \intersect BagToSet(rows) = {}
    PROVE  RowsSound' /\ BagToSet(rows') = BagToSet(rows) \union answer
<1>1. rows' = rows (+) SetToBag(answer)
  BY DEF Show
<1>2. BagToSet(rows') = BagToSet(rows) \union answer
  BY <1>1, BagDomain
<1>3. query.what = "project" \/ rows' = SetToBag(BagToSet(rows'))
  BY <1>1, BagOnce DEF RowsSound
<1>4. \A e \in BagToSet(rows') : e \in ever /\ Meant(e)'
  BY <1>2, MeantSame DEF RowsSound
<1>5. ever' = ever /\ query' = query
  BY DEF Fixed
<1> QED
  BY <1>2, <1>3, <1>4, <1>5 DEF RowsSound

\* A step that shows nothing.
LEMMA RowsSame == ASSUME RowsSound, Fixed, rows' = rows PROVE RowsSound'
BY MeantSame DEF RowsSound, Fixed

\* A request that fails.
LEMMA FailureKept == ASSUME ReadSound, Fixed, ReadFails PROVE ReadSound'
<1>1. reading' = "failed" /\ rows' = rows /\ cut' = cut
  BY DEF ReadFails
<1> QED
  BY <1>1, ShapeKept, RowsSame DEF ReadSound, ReadShape

\* The first argument, or none, or an empty one, says what is meant.
LEMMA FirstNames ==
    ASSUME query.names \in Seq(STRING), NEW titles
    PROVE  /\ NoName \/ query.names[1] \in titles => Named(titles)
           /\ query.what # "project" /\ Named(titles) => NoName \/ query.names[1] \in titles
<1>1. query.names = <<>> \/ 1 \in DOMAIN query.names
  OBVIOUS
<1> QED
  BY <1>1 DEF Named, NoName

\* The commands with one request.
LEMMA ListsKept ==
    ASSUME ReadSound, NEW kind \in Simple, NEW scope, NEW paged \in BOOLEAN, NEW empty \in {"done", "failed"},
           query.what = kind => scope = Scope, Lists(kind, scope, paged, empty)
    PROVE  ReadSound'
<1>1. query.what = kind /\ reading = "start" /\ Fixed /\ scope = Scope
  BY DEF Lists
<1>2. CASE ReadFails
  BY <1>1, <1>2, FailureKept
<1>3. CASE ~ ReadFails
  <2> DEFINE all == HeldIn(kind, scope)
             Sought(e) == kind \in {"certificate", "route"} => NoName \/ query.names[1] = e.title
  <2>1. PICK answer \in IF paged THEN Page(all) ELSE {all} :
             /\ Show({e \in answer : Sought(e)})
             /\ reading' = IF answer = {} THEN empty ELSE "done"
             /\ cut' = (paged /\ Cardinality(answer) >= PageSize)
    BY <1>3 DEF Lists
  <2>2. all \in SUBSET Entries /\ all \subseteq present /\ \A e \in all : e.kind = kind /\ scope \in e.in
    BY DEF HeldIn, ReadSound, ReadShape, Candidates
  <2>3. answer \subseteq all /\ (~ cut' => answer = all)
    BY <2>1, <2>2, PageIsAll
  <2>4. BagToSet(rows) = {} /\ ReadShape /\ RowsSound
    BY <1>1, NoRows DEF ReadSound, ReadShape
  <2>5. query.names \in Seq(STRING)
    BY <2>4, ReadAssumption DEF ReadShape
  <2>6. ASSUME NEW e \in answer, Sought(e) PROVE e \in ever /\ Meant(e)
    <3>1. e \in ever /\ Scope \in e.in
      BY <1>1, <2>2, <2>3, <2>4 DEF ReadShape
    <3>2. kind \in {"certificate", "route"} => Named({e.title})
      BY <2>5, <2>6, FirstNames
    <3>3. query.what # "project"
      BY <1>1 DEF Simple
    <3> QED
      BY <1>1, <3>1, <3>2, <3>3, MeantIs
  <2>7. RowsSound' /\ BagToSet(rows') = {e \in answer : Sought(e)}
    BY <1>1, <2>1, <2>4, <2>6, RowsKept
  <2>8. AllShown'
    <3>1. ASSUME NEW e \in throughout, Expected(e)' PROVE e \in BagToSet(rows')
      <4>1. Meant(e) /\ ~ cut'
        BY <1>1, <3>1, MeantSame DEF Expected
      <4>2. e \in present /\ e.kind = kind /\ scope \in e.in
        BY <1>1, <2>4, <4>1, KindOf, MeantIs DEF ReadShape, Candidates
      <4>3. e \in answer
        BY <2>3, <4>1, <4>2 DEF HeldIn
      <4>4. kind \in {"certificate", "route"} => Named({e.title})
        BY <1>1, <4>1, MeantIs
      <4>5. Sought(e)
        BY <1>1, <2>5, <4>4, FirstNames DEF Simple
      <4> QED
        BY <2>7, <4>3, <4>5
    <3>2. query'.what # "domain" /\ throughout' = throughout
      BY <1>1 DEF Simple, Fixed
    <3> QED
      BY <3>1, <3>2 DEF AllShown
  <2>9. ReadShape' /\ reading' # "next"
    BY <1>1, <2>1, <2>4, ShapeKept
  <2> QED
    BY <2>7, <2>8, <2>9 DEF ReadSound
<1> QED
  BY <1>2, <1>3

\* get domain: a route for each of the hosts.
LEMMA GetDomainsKept == ASSUME ReadSound, GetDomains PROVE ReadSound'
<1>1. query.what = "domain" /\ reading = "start" /\ Fixed
  BY DEF GetDomains
<1>2. CASE ReadFails
  BY <1>1, <1>2, FailureKept
<1>3. CASE ~ ReadFails
  <2> DEFINE all == HeldIn("route", ProjectScope)
  <2>1. PICK first \in SUBSET all :
           /\ \A e \in all : Cardinality({f \in first : f.title = e.title}) = 1
           /\ Show(first)
    BY <1>3 DEF GetDomains
  <2>2. reading' = "done" /\ cut' = cut
    BY <1>3 DEF GetDomains
  <2>3. /\ all \in SUBSET Entries /\ all \subseteq present
        /\ \A e : e \in all <=> e \in present /\ e.kind = "route" /\ Scope \in e.in
    BY <1>1 DEF HeldIn, ReadSound, ReadShape, Candidates, Scope
  <2>4. BagToSet(rows) = {} /\ ReadShape /\ RowsSound
    BY <1>1, NoRows DEF ReadSound, ReadShape
  <2>5. \A e \in first : e \in ever /\ Meant(e)
    BY <1>1, <2>3, <2>4, MeantIs DEF ReadShape
  <2>6. RowsSound' /\ BagToSet(rows') = first
    BY <1>1, <2>1, <2>4, <2>5, RowsKept
  <2>7. \A e \in all : \E f : {g \in first : g.title = e.title} = {f}
    <3> SUFFICES ASSUME NEW e \in all PROVE \E f : {g \in first : g.title = e.title} = {f}
      OBVIOUS
    <3>1. {g \in first : g.title = e.title} \in SUBSET Entries
      BY <2>3
    <3>2. IsFiniteSet({g \in first : g.title = e.title})
      BY <3>1, ReadAssumption, FS_Subset
    <3> QED
      BY <2>1, <3>2, FS_Singleton
  <2>8. AllShown'
    <3>1. throughout' = throughout /\ query' = query
      BY <1>1 DEF Fixed
    <3>2. ASSUME NEW e \in throughout, Expected(e)' PROVE \E f \in first : f.title = e.title
      <4>1. Meant(e)
        BY <1>1, <3>2, MeantSame DEF Expected
      <4>2. e \in all
        BY <1>1, <2>3, <2>4, <4>1, KindOf, MeantIs DEF ReadShape, Candidates
      <4>3. PICK f : {g \in first : g.title = e.title} = {f}
        BY <2>7, <4>2
      <4> QED
        BY <4>3
    <3>3. ASSUME NEW e \in first, NEW f \in first, e.title = f.title PROVE e = f
      <4>1. PICK h : {g \in first : g.title = e.title} = {h}
        BY <2>7
      <4>2. e \in {g \in first : g.title = e.title} /\ f \in {g \in first : g.title = e.title}
        BY <3>3
      <4> QED
        BY <4>1, <4>2
    <3> QED
      BY <1>1, <2>6, <3>1, <3>2, <3>3 DEF AllShown
  <2>9. ReadShape' /\ reading' # "next"
    BY <1>1, <2>2, <2>4, ShapeKept DEF ReadShape
  <2> QED
    BY <2>6, <2>8, <2>9 DEF ReadSound
<1> QED
  BY <1>2, <1>3

\* get project: the words are the arguments.
LEMMA GetProjectsKept == ASSUME ReadSound, GetProjects PROVE ReadSound'
<1>1. query.what = "project" /\ reading = "start" /\ Fixed
  BY DEF GetProjects
<1>2. CASE ReadFails
  BY <1>1, <1>2, FailureKept
<1>3. CASE ~ ReadFails
  <2>1. /\ reading' = "next" /\ rows' = rows /\ cut' = cut
        /\ todo' = IF query.names = <<>> THEN <<"">> ELSE query.names
    BY <1>3 DEF GetProjects
  <2>2. ReadShape /\ RowsSound /\ query.names \in Seq(STRING)
    BY ReadAssumption DEF ReadSound, ReadShape
  <2>3. todo' \in Seq(Words) /\ todo' # <<>>
    <3>1. <<"">> \in Seq(Words) /\ <<"">> # <<>>
      BY OneElement DEF Words
    <3>2. query.names \in Seq(Words)
      <4>1. STRING \subseteq Words
        BY DEF Words
      <4>2. PICK n \in Nat : query.names \in [1 .. n -> STRING]
        BY <2>2, SeqDef
      <4>3. query.names \in [1 .. n -> Words]
        BY <4>1, <4>2
      <4> QED
        BY <4>3, SeqDef
    <3> QED
      BY <2>1, <3>1, <3>2
  <2>4. \A k \in DOMAIN todo' : query.names = <<>> \/ \E j \in DOMAIN query.names : query.names[j] = todo'[k]
    BY <2>1
  <2>5. ASSUME NEW e \in throughout, Meant(e) PROVE \E k \in DOMAIN todo' : todo'[k] \in {"", e.title}
    <3>1. query.names = <<>> \/ \E k \in DOMAIN query.names : query.names[k] \in {"", e.title}
      BY <1>1, <2>5, MeantIs DEF Named
    <3>2. CASE query.names = <<>>
      <4>1. todo' = <<"">>
        BY <2>1, <3>2
      <4>2. 1 \in DOMAIN todo' /\ todo'[1] = ""
        BY <4>1, OneElement
      <4> QED
        BY <4>2
    <3>3. CASE query.names # <<>>
      BY <2>1, <3>1, <3>3
    <3> QED
      BY <3>2, <3>3
  <2>6. ProjectsToCome'
    BY <1>1, <2>3, <2>4, <2>5, MeantSame DEF ProjectsToCome, Fixed
  <2>7. ReadShape' /\ RowsSound'
    BY <1>1, <2>1, <2>2, ShapeKept, RowsSame DEF ReadShape
  <2> QED
    BY <1>1, <2>1, <2>6, <2>7 DEF ReadSound, Fixed
<1> QED
  BY <1>2, <1>3

\* get project: the list for one of the names.
LEMMA GetProjectsNamedKept == ASSUME ReadSound, GetProjectsNamed PROVE ReadSound'
<1>1. query.what = "project" /\ reading = "next" /\ Fixed
  BY DEF GetProjectsNamed
<1>2. CASE ReadFails
  BY <1>1, <1>2, FailureKept
<1>3. CASE ~ ReadFails
  <2> DEFINE all == Matching(HeldIn("project", context.project.group), Head(todo))
  <2>1. PICK answer \in Page(all) :
           /\ Show(answer)
           /\ todo' = Tail(todo)
           /\ cut' = (cut \/ Cardinality(answer) >= PageSize)
           /\ reading' = IF Len(todo) > 1 THEN "next" ELSE IF rows' = EmptyBag THEN "failed" ELSE "done"
    BY <1>3 DEF GetProjectsNamed
  <2>2. ReadShape /\ RowsSound /\ ProjectsToCome
    BY <1>1 DEF ReadSound
  <2>a. todo \in Seq(Words) /\ todo # <<>>
    BY <2>2 DEF ProjectsToCome
  <2>3. /\ Head(todo) = todo[1] /\ 1 \in DOMAIN todo
        /\ Tail(todo) \in Seq(Words) /\ Len(Tail(todo)) = Len(todo) - 1
        /\ \A k \in DOMAIN Tail(todo) : k + 1 \in DOMAIN todo /\ Tail(todo)[k] = todo[k + 1]
        /\ \A k \in DOMAIN todo : k = 1 \/ (k - 1 \in DOMAIN Tail(todo) /\ Tail(todo)[k - 1] = todo[k])
    BY <2>a, TailOf
  <2>b. \A k \in DOMAIN todo : query.names = <<>> \/ \E j \in DOMAIN query.names : query.names[j] = todo[k]
    BY <2>2 DEF ProjectsToCome
  <2>4. Scope = context.project.group
    BY <1>1 DEF Scope
  <2>5. /\ all \in SUBSET Entries /\ all \subseteq present
        /\ \A e : e \in all <=> /\ e \in present /\ e.kind = "project" /\ Scope \in e.in
                                /\ Head(todo) = "" \/ e.title = Head(todo)
    BY <2>2, <2>4 DEF Matching, HeldIn, ReadShape, Candidates
  <2>6. answer \subseteq all /\ (~ cut' => answer = all /\ ~ cut)
    BY <2>1, <2>5, PageIsAll
  <2>7. ASSUME NEW e \in answer PROVE e \in ever /\ Meant(e)
    <3>1. query.names = <<>> \/ \E j \in DOMAIN query.names : query.names[j] = Head(todo)
      BY <2>3, <2>b
    <3>2. Named({e.title})
      BY <1>1, <2>5, <2>6, <3>1 DEF Named
    <3> QED
      BY <1>1, <2>2, <2>5, <2>6, <3>2, MeantIs DEF ReadShape
  <2>8. RowsSound' /\ BagToSet(rows') = BagToSet(rows) \union answer
    BY <1>1, <2>1, <2>2, <2>7, RowsKept
  <2>9. ASSUME ~ cut', NEW e \in throughout, Meant(e)
        PROVE e \in BagToSet(rows') \/ \E k \in DOMAIN todo' : todo'[k] \in {"", e.title}
    <3>1. e \in present /\ e.kind = "project" /\ Scope \in e.in
      BY <1>1, <2>2, <2>9, KindOf, MeantIs DEF ReadShape, Candidates
    <3>2. e \in BagToSet(rows) \/ \E k \in DOMAIN todo : todo[k] \in {"", e.title}
      BY <2>2, <2>6, <2>9 DEF ProjectsToCome
    <3>3. CASE Head(todo) \in {"", e.title}
      BY <2>5, <2>6, <2>8, <2>9, <3>1, <3>3
    <3>4. ASSUME NEW k \in DOMAIN todo, todo[k] \in {"", e.title}, k # 1 PROVE \E j \in DOMAIN todo' : todo'[j] \in {"", e.title}
      <4>1. k - 1 \in DOMAIN Tail(todo) /\ Tail(todo)[k - 1] = todo[k]
        BY <2>3, <3>4
      <4> QED
        BY <2>1, <3>4, <4>1
    <3> QED
      BY <2>3, <2>8, <3>2, <3>3, <3>4
  <2>10. ReadShape'
    BY <1>1, <2>1, <2>2, ShapeKept DEF ReadShape
  <2>11. ASSUME reading' = "next" PROVE ProjectsToCome'
    <3>1. todo' \in Seq(Words) /\ todo' # <<>>
      <4>1. Len(todo) > 1 /\ todo' = Tail(todo)
        BY <2>1, <2>11
      <4>2. Len(Tail(todo)) # 0 /\ Len(<<>>) = 0
        BY <2>3, <2>a, <4>1
      <4> QED
        BY <2>3, <4>1, <4>2
    <3>2. \A k \in DOMAIN todo' : query.names = <<>> \/ \E j \in DOMAIN query.names : query.names[j] = todo'[k]
      BY <2>1, <2>3, <2>b
    <3> QED
      BY <1>1, <2>9, <3>1, <3>2, MeantSame DEF ProjectsToCome, Fixed
  <2>12. ASSUME reading' = "done" PROVE AllShown'
    <3>1. DOMAIN todo' = {}
      <4>1. ~ (Len(todo) > 1) /\ todo' = Tail(todo)
        BY <2>1, <2>12
      <4>2. Len(Tail(todo)) = 0
        BY <2>3, <2>a, <4>1
      <4> QED
        BY <2>3, <4>1, <4>2
    <3>2. \A e \in throughout : Expected(e)' => e \in BagToSet(rows')
      BY <1>1, <2>9, <3>1, MeantSame DEF Expected
    <3> QED
      BY <1>1, <3>2 DEF AllShown, Fixed
  <2> QED
    BY <1>1, <2>8, <2>10, <2>11, <2>12 DEF ReadSound, Fixed
<1> QED
  BY <1>2, <1>3

\* get container: the clusters in some order, each once.
LEMMA InOrderOnce ==
    ASSUME NEW C, IsFiniteSet(C), NEW s \in InOrder(C)
    PROVE  /\ s \in Seq(C)
           /\ \A j, k \in DOMAIN s : s[j] = s[k] => j = k
           /\ \A c \in C : \E k \in DOMAIN s : s[k] = c
<1> DEFINE n == Cardinality(C)
<1>1. n \in Nat
  BY FS_CardinalityType
<1> HIDE DEF n
<1>2. s \in [1 .. n -> C] /\ {s[k] : k \in DOMAIN s} = C
  BY DEF InOrder, n
<1>3. s \in Seq(C)
  BY <1>1, <1>2, SeqDef
<1>4. \A c \in C : \E k \in DOMAIN s : s[k] = c
  BY <1>2
<1>5. s \in Surjection(1 .. n, C)
  BY <1>2, <1>4 DEF Surjection
<1>6. IsFiniteSet(1 .. n) /\ Cardinality(1 .. n) = n
  <2>1. IsFiniteSet(1 .. n) /\ Cardinality(1 .. n) = IF 1 > n THEN 0 ELSE n - 1 + 1
    BY <1>1, FS_Interval
  <2> QED
    BY <1>1, <2>1
<1>7. s \in Injection(1 .. n, C)
  BY <1>5, <1>6, FS_SurjSameCardinalityImpliesInj DEF n
<1>8. \A j, k \in 1 .. n : s[j] = s[k] => j = k
  BY <1>2, <1>7 DEF Injection, IsInjective
<1> QED
  BY <1>2, <1>3, <1>4, <1>8

\* The clusters of finitely many runtimes are finitely many.
LEMMA ClustersFinite == ASSUME NEW S \in SUBSET Entries PROVE IsFiniteSet({ClusterOf(r) : r \in S})
<1> DEFINE C == {ClusterOf(r) : r \in S}
           f == [r \in S |-> ClusterOf(r)]
<1>1. IsFiniteSet(S)
  BY ReadAssumption, FS_Subset
<1>2. f \in Surjection(S, C)
  BY DEF Surjection
<1> QED
  BY <1>1, <1>2, FS_Surjection

\* Where is looked, and for whom, does not change.
LEMMA ScopeSame ==
    ASSUME Fixed
    PROVE  /\ \A r : ClusterOf(r)' = ClusterOf(r)
           /\ \A t : Named(t)' <=> Named(t)
           /\ ProjectScope' = ProjectScope /\ (NoName' <=> NoName)
BY DEF Fixed, ClusterOf, Named, ProjectScope, NoName

\* The runtimes that were meant.
LEMMA GetRuntimesKept == ASSUME ReadSound, GetRuntimes PROVE ReadSound'
<1>1. query.what = "container" /\ reading = "start" /\ Fixed
  BY DEF GetRuntimes
<1>2. CASE ReadFails
  BY <1>1, <1>2, FailureKept
<1>3. CASE ~ ReadFails
  <2> DEFINE all == HeldIn("instance", ProjectScope)
  <2>1. PICK chosen \in Called(all) : runtimes' = chosen /\ todo' \in InOrder({ClusterOf(r) : r \in chosen})
    BY <1>3 DEF GetRuntimes
  <2>2. reading' = "next" /\ rows' = rows /\ cut' = cut
    BY <1>3 DEF GetRuntimes
  <2>3. ReadShape /\ RowsSound /\ BagToSet(rows) = {} /\ query.names \in Seq(STRING)
    BY <1>1, NoRows, ReadAssumption DEF ReadSound, ReadShape
  <2>4. all \in SUBSET Entries /\ \A r : r \in all <=> r \in present /\ r.kind = "instance" /\ ProjectScope \in r.in
    BY <2>3 DEF HeldIn, ReadShape, Candidates
  <2>5. /\ chosen \subseteq all
        /\ NoName => chosen = all
        /\ ~ NoName => chosen # {} /\ \A r \in chosen : query.names[1] \in {r.title, r.service}
    BY <2>1 DEF Called
  <2>6. \A r \in chosen : r \in ever /\ r.kind = "instance" /\ ProjectScope \in r.in /\ Named({r.title, r.service})
    <3> SUFFICES ASSUME NEW r \in chosen
                 PROVE r \in ever /\ r.kind = "instance" /\ ProjectScope \in r.in /\ Named({r.title, r.service})
      OBVIOUS
    <3>1. NoName \/ query.names[1] \in {r.title, r.service}
      BY <2>5
    <3>2. Named({r.title, r.service})
      BY <2>3, <3>1, FirstNames
    <3> QED
      BY <2>3, <2>4, <2>5, <3>2 DEF ReadShape
  <2>7. NoName => \A r \in throughout : r.kind = "instance" /\ ProjectScope \in r.in => r \in chosen
    BY <2>3, <2>4, <2>5 DEF ReadShape
  <2> DEFINE clusters == {ClusterOf(r) : r \in chosen}
  <2>8. IsFiniteSet(clusters)
    BY <2>4, <2>5, ClustersFinite
  <2> HIDE DEF clusters
  <2>9. /\ todo' \in Seq(clusters)
        /\ \A j, k \in DOMAIN todo' : todo'[j] = todo'[k] => j = k
        /\ \A c \in clusters : \E k \in DOMAIN todo' : todo'[k] = c
    BY <2>1, <2>8, InOrderOnce DEF clusters
  <2>10. {ClusterOf(r) : r \in runtimes}' = clusters
    BY <1>1, <2>1, ScopeSame DEF clusters
  <2>11. \A r \in chosen : \E k \in DOMAIN todo' : todo'[k] = ClusterOf(r)
    BY <2>9 DEF clusters
  <2>12. ContainersToCome'
    <3>1. todo' \in Seq({ClusterOf(r) : r \in runtimes}')
      BY <2>9, <2>10
    <3>2. \A r \in runtimes' : r \in ever' /\ r.kind = "instance" /\ ProjectScope' \in r.in /\ Named({r.title, r.service})'
      BY <1>1, <2>1, <2>6, ScopeSame DEF Fixed
    <3>3. NoName' => \A r \in throughout' : r.kind = "instance" /\ ProjectScope' \in r.in => r \in runtimes'
      BY <1>1, <2>1, <2>7, ScopeSame DEF Fixed
    <3>4. ~ NoName' => runtimes' # {}
      BY <1>1, <2>1, <2>5, ScopeSame
    <3>5. BagToSet(rows') = {}
      BY <2>2, <2>3
    <3>6. \A r \in runtimes' : \E k \in DOMAIN todo' : todo'[k] = ClusterOf(r)'
      BY <1>1, <2>1, <2>11, ScopeSame
    <3> QED
      BY <2>9, <3>1, <3>2, <3>3, <3>4, <3>5, <3>6 DEF ContainersToCome
  <2>13. ReadShape' /\ RowsSound'
    BY <1>1, <2>2, <2>3, ShapeKept, RowsSame DEF ReadShape
  <2> QED
    BY <1>1, <2>2, <2>12, <2>13 DEF ReadSound, Fixed
<1> QED
  BY <1>2, <1>3

\* The containers of the next cluster, or the end.
LEMMA GetContainersKept == ASSUME ReadSound, GetContainers PROVE ReadSound'
<1>1. query.what = "container" /\ reading = "next" /\ Fixed
  BY DEF GetContainers
<1>2. ReadShape /\ RowsSound /\ ContainersToCome
  BY <1>1 DEF ReadSound
<1>a. todo \in Seq({ClusterOf(r) : r \in runtimes})
  BY <1>2 DEF ContainersToCome
<1>b. \A r \in runtimes : r \in ever /\ r.kind = "instance" /\ ProjectScope \in r.in /\ Named({r.title, r.service})
  BY <1>2 DEF ContainersToCome
<1>c. /\ \A j, k \in DOMAIN todo : todo[j] = todo[k] => j = k
      /\ \A e \in BagToSet(rows) : \A k \in DOMAIN todo : todo[k] \notin e.in
  BY <1>2 DEF ContainersToCome
<1>d. \A r \in runtimes : \/ \E k \in DOMAIN todo : todo[k] = ClusterOf(r)
                          \/ \A e \in throughout : e.kind = "container" /\ ClusterOf(r) \in e.in
                                /\ e.service = r.service => e \in BagToSet(rows)
  BY <1>2 DEF ContainersToCome
<1>e. /\ NoName => \A r \in throughout : r.kind = "instance" /\ ProjectScope \in r.in => r \in runtimes
      /\ ~ NoName => runtimes # {}
  BY <1>2 DEF ContainersToCome
<1>3. CASE ReadFails
  BY <1>1, <1>3, FailureKept
<1>4. CASE ~ ReadFails /\ todo # <<>>
  <2> DEFINE cluster == Head(todo)
             answer == {c \in HeldIn("container", cluster) : OfRuntime(c, cluster)}
  <2>1. Show(answer) /\ todo' = Tail(todo) /\ UNCHANGED <<reading, runtimes, cut>>
    BY <1>4 DEF GetContainers
  <2>2. /\ cluster = todo[1] /\ 1 \in DOMAIN todo
        /\ Tail(todo) \in Seq({ClusterOf(r) : r \in runtimes})
        /\ \A k \in DOMAIN Tail(todo) : k + 1 \in DOMAIN todo /\ k + 1 # 1 /\ Tail(todo)[k] = todo[k + 1]
        /\ \A k \in DOMAIN todo : k = 1 \/ (k - 1 \in DOMAIN Tail(todo) /\ Tail(todo)[k - 1] = todo[k])
    BY <1>4, <1>a, TailOf
  <2>3. \A e : e \in answer <=> /\ e \in present /\ e.kind = "container" /\ cluster \in e.in
                                /\ \E r \in runtimes : ClusterOf(r) = cluster /\ e.service = r.service
    BY DEF HeldIn, OfRuntime
  <2> HIDE DEF answer
  <2> HIDE DEF cluster
  <2>4. ASSUME NEW e \in answer PROVE e \in ever /\ Meant(e)
    <3>1. PICK r \in runtimes : ClusterOf(r) = cluster /\ e.service = r.service
      BY <2>3
    <3>2. Runs(r, e) /\ r \in ever
      BY <1>b, <2>3, <3>1 DEF Runs
    <3> QED
      BY <1>1, <1>2, <2>3, <3>2, MeantIs DEF ReadShape
  <2>5. answer \intersect BagToSet(rows) = {}
    BY <1>c, <2>2, <2>3
  <2>6. RowsSound' /\ BagToSet(rows') = BagToSet(rows) \union answer
    BY <1>1, <1>2, <2>1, <2>4, <2>5, RowsKept
  <2>7. \A j, k \in DOMAIN todo' : todo'[j] = todo'[k] => j = k
    <3> SUFFICES ASSUME NEW j \in DOMAIN Tail(todo), NEW k \in DOMAIN Tail(todo), Tail(todo)[j] = Tail(todo)[k]
                 PROVE j = k
      BY <2>1
    <3>1. j + 1 = k + 1
      BY <1>c, <2>2
    <3>2. j \in Int /\ k \in Int
      BY <2>2
    <3> QED
      BY <3>1, <3>2
  <2>8. ASSUME NEW e \in BagToSet(rows'), NEW k \in DOMAIN todo' PROVE todo'[k] \notin e.in
    <3>1. k + 1 \in DOMAIN todo /\ k + 1 # 1 /\ todo'[k] = todo[k + 1]
      BY <2>1, <2>2
    <3>2. CASE e \in BagToSet(rows)
      BY <1>c, <3>1, <3>2
    <3>3. CASE e \in answer
      <4>1. cluster \in e.in /\ \A c, d \in e.in : c = d
        BY <1>2, <2>3, <3>3, ReadAssumption DEF ReadShape, Candidates
      <4>2. todo[k + 1] # cluster
        BY <1>c, <2>2, <3>1
      <4> QED
        BY <3>1, <4>1, <4>2
    <3> QED
      BY <2>6, <3>2, <3>3
  <2>9. ASSUME NEW r \in runtimes
        PROVE \/ \E k \in DOMAIN todo' : todo'[k] = ClusterOf(r)
              \/ \A e \in throughout : e.kind = "container" /\ ClusterOf(r) \in e.in
                    /\ e.service = r.service => e \in BagToSet(rows')
    <3>1. CASE ClusterOf(r) = cluster
      BY <1>2, <2>3, <2>6, <3>1 DEF ReadShape
    <3>2. ASSUME NEW k \in DOMAIN todo, todo[k] = ClusterOf(r), ClusterOf(r) # cluster
          PROVE \E j \in DOMAIN todo' : todo'[j] = ClusterOf(r)
      <4>1. k - 1 \in DOMAIN todo' /\ todo'[k - 1] = todo[k]
        BY <2>1, <2>2, <3>2
      <4> QED
        BY <3>2, <4>1
    <3> QED
      BY <1>d, <2>6, <3>1, <3>2
  <2>10. ContainersToCome'
    <3>1. {ClusterOf(r) : r \in runtimes}' = {ClusterOf(r) : r \in runtimes}
      BY <1>1, <2>1, ScopeSame
    <3>2. todo' \in Seq({ClusterOf(r) : r \in runtimes}')
      BY <2>1, <2>2, <3>1
    <3>3. \A r \in runtimes' : r \in ever' /\ r.kind = "instance" /\ ProjectScope' \in r.in /\ Named({r.title, r.service})'
      BY <1>1, <1>b, <2>1, ScopeSame DEF Fixed
    <3>4. /\ NoName' => \A r \in throughout' : r.kind = "instance" /\ ProjectScope' \in r.in => r \in runtimes'
          /\ ~ NoName' => runtimes' # {}
      BY <1>1, <1>e, <2>1, ScopeSame DEF Fixed
    <3>5. \A r \in runtimes' : \/ \E k \in DOMAIN todo' : todo'[k] = ClusterOf(r)'
                               \/ \A e \in throughout' : e.kind = "container" /\ ClusterOf(r)' \in e.in
                                     /\ e.service = r.service => e \in BagToSet(rows')
      BY <1>1, <2>1, <2>9, ScopeSame DEF Fixed
    <3> QED
      BY <2>7, <2>8, <3>2, <3>3, <3>4, <3>5 DEF ContainersToCome
  <2>11. ReadShape'
    BY <1>1, <1>2, <2>1, ShapeKept DEF ReadShape
  <2> QED
    BY <1>1, <2>1, <2>6, <2>10, <2>11 DEF ReadSound, Fixed
<1>5. CASE ~ ReadFails /\ todo = <<>>
  <2>1. reading' \in {"failed", "done"} /\ rows' = rows /\ cut' = cut
    BY <1>5 DEF GetContainers
  <2>2. ReadShape' /\ RowsSound'
    BY <1>1, <1>2, <2>1, ShapeKept, RowsSame DEF ReadShape
  <2>3. ASSUME NEW e \in throughout, Expected(e)' PROVE e \in BagToSet(rows)
    <3>1. Meant(e)
      BY <1>1, <2>3, MeantSame DEF Expected
    <3>2. e.kind = "container"
      BY <1>1, <3>1, MeantIs
    <3>3. /\ \E r \in throughout : Runs(r, e)
          /\ ~ NoName => Cardinality({r \in ever : r.kind = "instance" /\ Named({r.title, r.service})}) = 1
      BY <1>1, <2>3, ScopeSame DEF Expected, Fixed, Runs
    <3>4. PICK r \in throughout : Runs(r, e)
      BY <3>3
    <3>5. r.kind = "instance" /\ ProjectScope \in r.in /\ Named({r.title, r.service}) /\ r.service = e.service /\ ClusterOf(r) \in e.in
      BY <3>4 DEF Runs
    <3>6. r \in runtimes
      <4>1. CASE NoName
        BY <1>e, <3>5, <4>1
      <4>2. CASE ~ NoName
        <5> DEFINE named == {x \in ever : x.kind = "instance" /\ Named({x.title, x.service})}
        <5>1. named \in SUBSET Entries
          BY <1>2 DEF ReadShape, Candidates
        <5>2. IsFiniteSet(named)
          BY <5>1, ReadAssumption, FS_Subset
        <5>3. Cardinality(named) = 1
          BY <3>3, <4>2
        <5>4. r \in named
          BY <1>2, <3>5 DEF ReadShape
        <5>5. PICK x : x \in runtimes
          BY <1>e, <4>2
        <5>6. x \in named
          BY <1>b, <5>5
        <5> HIDE DEF named
        <5>7. PICK y : named = {y}
          BY <5>2, <5>3, FS_Singleton
        <5> QED
          BY <5>4, <5>5, <5>6, <5>7
      <4> QED
        BY <4>1, <4>2
    <3>7. DOMAIN todo = {}
      BY <1>5
    <3> QED
      BY <1>d, <3>2, <3>5, <3>6, <3>7
  <2>4. AllShown'
    BY <1>1, <2>1, <2>3 DEF AllShown, Fixed
  <2> QED
    BY <2>1, <2>2, <2>4 DEF ReadSound
<1> QED
  BY <1>3, <1>4, <1>5

\* info: the profiles to ask for.
LEMMA AskFields == \A k, i, a : Ask(k, i, a).kind = k /\ Ask(k, i, a).id = i
BY DEF Ask

\* And whether it is asked for.
LEMMA AskAsked == \A k, i, a : Ask(k, i, a).asked = a
BY DEF Ask

\* info: which profiles it is going to ask for.
LEMMA InfoKept == ASSUME ReadSound, Info PROVE ReadSound'
<1>1. query.what = "info" /\ reading = "start" /\ Fixed /\ rows' = rows /\ cut' = cut
  BY DEF Info
<1>2. ReadShape /\ RowsSound /\ BagToSet(rows) = {}
  BY <1>1, NoRows DEF ReadSound, ReadShape
<1>3. CASE ~ context.user
  <2>1. reading' = "done"
    BY <1>3 DEF Info
  <2>2. ReadShape' /\ RowsSound'
    BY <1>1, <1>2, <2>1, ShapeKept, RowsSame DEF ReadShape
  <2>3. \A e : ~ Expected(e)'
    BY <1>1, <1>3 DEF Expected, Fixed
  <2>4. AllShown'
    BY <1>1, <2>3 DEF AllShown, Fixed
  <2> QED
    BY <2>1, <2>2, <2>4 DEF ReadSound
<1>4. CASE context.user
  <2> DEFINE P == context.projects
             own == [k \in DOMAIN P |-> Ask("project", P[k].id, P[k].org \in context.orgs)]
             head == <<Ask("organization", context.org, TRUE), Ask("group", context.group, context.group # Nowhere)>>
  <2>1. reading' = "next" /\ todo' = head \o own
    BY <1>4 DEF Info, Asks
  <2>2. /\ P \in Seq({P[k] : k \in DOMAIN P})
        /\ \A j, k \in DOMAIN P : P[j].id = P[k].id => j = k
    BY <1>2, ReadAssumption DEF ReadShape
  <2>3. Len(P) \in Nat /\ DOMAIN P = 1 .. Len(P)
    BY <2>2
  <2>4. /\ \A k \in DOMAIN P : own[k] = Ask("project", P[k].id, P[k].org \in context.orgs)
        /\ \A k \in DOMAIN P : own[k] \in Profiles
    BY DEF Profiles
  <2>5. own \in [1 .. Len(P) -> Profiles]
    BY <2>3, <2>4
  <2>6. own \in Seq(Profiles) /\ Len(own) = Len(P)
    BY <2>3, <2>5, SeqDef
  <2>7. head \in Seq(Profiles) /\ Len(head) = 2 /\ head[1] = Ask("organization", context.org, TRUE)
        /\ head[2] = Ask("group", context.group, context.group # Nowhere)
    <3>1. Ask("organization", context.org, TRUE) \in Profiles /\ Ask("group", context.group, context.group # Nowhere) \in Profiles
      BY DEF Profiles
    <3> QED
      BY <3>1, TwoElements
  <2> HIDE DEF own, head
  <2>8. /\ todo' \in Seq(Profiles) /\ Len(todo') = 2 + Len(P)
        /\ \A k \in 1 .. 2 + Len(P) : todo'[k] = IF k <= 2 THEN head[k] ELSE own[k - 2]
    <3>1. head \in Seq(Profiles) /\ own \in Seq(Profiles)
      BY <2>6, <2>7
    <3>2. /\ head \o own \in Seq(Profiles)
          /\ Len(head \o own) = Len(head) + Len(own)
      BY <3>1
    <3>3. \A k \in 1 .. Len(head) + Len(own) : (head \o own)[k] = IF k <= Len(head) THEN head[k] ELSE own[k - Len(head)]
      BY <3>1, ConcatProperties
    <3> QED
      BY <2>1, <2>6, <2>7, <3>2, <3>3
  <2>9. /\ DOMAIN todo' = 1 .. 2 + Len(P)
        /\ todo'[1] = Ask("organization", context.org, TRUE)
        /\ todo'[2] = Ask("group", context.group, context.group # Nowhere)
    <3>1. 1 \in 1 .. 2 + Len(P) /\ 2 \in 1 .. 2 + Len(P)
      BY <2>3
    <3>2. todo'[1] = head[1] /\ todo'[2] = head[2]
      BY <2>8, <3>1
    <3>3. DOMAIN todo' = 1 .. 2 + Len(P)
      BY <2>8
    <3> QED
      BY <2>7, <3>2, <3>3
  <2>10. ASSUME NEW k \in DOMAIN P
         PROVE  k + 2 \in DOMAIN todo' /\ todo'[k + 2] = Ask("project", P[k].id, P[k].org \in context.orgs)
    <3>1. k \in Nat /\ k + 2 \in 1 .. 2 + Len(P) /\ ~ (k + 2 <= 2) /\ (k + 2) - 2 = k
      BY <2>3
    <3>2. todo'[k + 2] = own[(k + 2) - 2]
      BY <2>8, <3>1
    <3> QED
      BY <2>4, <2>9, <3>1, <3>2 DEF own
  <2>11. ASSUME NEW k \in DOMAIN todo', k # 1, k # 2
         PROVE  k - 2 \in DOMAIN P /\ (k - 2) + 2 = k
    BY <2>3, <2>9, <2>11
  <2>12. ASSUME NEW j \in DOMAIN todo', NEW k \in DOMAIN todo',
                todo'[j].kind = todo'[k].kind, todo'[j].id = todo'[k].id
         PROVE  j = k
    <3>1. /\ todo'[1].kind = "organization" /\ todo'[2].kind = "group"
          /\ \A i \in DOMAIN P : todo'[i + 2].kind = "project" /\ todo'[i + 2].id = P[i].id
      <4>a. todo'[1].kind = "organization"
        <5>1. todo'[1] = Ask("organization", context.org, TRUE)
          BY <2>9
        <5>2. Ask("organization", context.org, TRUE).kind = "organization"
          BY DEF Ask
        <5> QED
          BY <5>1, <5>2
      <4>b. todo'[2].kind = "group"
        <5>1. todo'[2] = Ask("group", context.group, context.group # Nowhere)
          BY <2>9
        <5>2. Ask("group", context.group, context.group # Nowhere).kind = "group"
          BY DEF Ask
        <5> QED
          BY <5>1, <5>2
      <4>1. todo'[1].kind = "organization" /\ todo'[2].kind = "group"
        BY <4>a, <4>b
      <4>2. ASSUME NEW i \in DOMAIN P PROVE todo'[i + 2].kind = "project" /\ todo'[i + 2].id = P[i].id
        <5>1. todo'[i + 2] = Ask("project", P[i].id, P[i].org \in context.orgs)
          BY <2>10
        <5> QED
          BY <5>1, AskFields
      <4> QED
        BY <4>1, <4>2
    <3>2. CASE j \in {1, 2} \/ k \in {1, 2}
      BY <2>11, <2>12, <3>1, <3>2
    <3>3. CASE j \notin {1, 2} /\ k \notin {1, 2}
      <4>1. PICK i \in DOMAIN P : j = i + 2
        BY <2>11, <3>3
      <4>2. PICK l \in DOMAIN P : k = l + 2
        BY <2>11, <3>3
      <4> QED
        BY <2>2, <2>12, <3>1, <4>1, <4>2
    <3> QED
      BY <3>2, <3>3
  <2>13. ASSUME NEW e \in throughout, Meant(e)
         PROVE  \E k \in DOMAIN todo' : todo'[k].asked /\ e.kind = todo'[k].kind /\ e.id = todo'[k].id
    <3>1. \/ e.kind = "organization" /\ e.id = context.org
          \/ e.kind = "group" /\ e.id = context.group
          \/ e.kind = "project" /\ \E k \in DOMAIN P : P[k].id = e.id /\ P[k].org \in context.orgs
      BY <1>1, <2>13, MeantIs
    <3>2. 1 \in DOMAIN todo' /\ 2 \in DOMAIN todo'
      BY <2>3, <2>9
    <3>3. CASE e.kind = "organization" /\ e.id = context.org
      BY <2>9, <3>2, <3>3 DEF Ask
    <3>4. CASE e.kind = "group" /\ e.id = context.group
      <4>1. e.id # Nowhere
        BY <1>2, ReadAssumption DEF ReadShape, Candidates
      <4>2. context.group # Nowhere
        BY <3>4, <4>1
      <4>a. Ask("group", context.group, context.group # Nowhere).asked = (context.group # Nowhere)
        BY AskAsked
      <4>b. todo'[2].asked = (context.group # Nowhere)
        BY <2>9, <4>a
      <4>c. todo'[2].asked
        BY <4>2, <4>b, ZenonT(40)
      <4>d. todo'[2].kind = "group" /\ todo'[2].id = context.group
        BY <2>9, AskFields
      <4>3. todo'[2].kind = "group" /\ todo'[2].id = context.group /\ todo'[2].asked
        BY <4>c, <4>d
      <4> QED
        BY <3>2, <3>4, <4>3
    <3>5. ASSUME e.kind = "project", NEW k \in DOMAIN P, P[k].id = e.id, P[k].org \in context.orgs
          PROVE  \E j \in DOMAIN todo' : todo'[j].asked /\ e.kind = todo'[j].kind /\ e.id = todo'[j].id
      <4>1. k + 2 \in DOMAIN todo' /\ todo'[k + 2] = Ask("project", P[k].id, P[k].org \in context.orgs)
        BY <2>10
      <4>a. Ask("project", P[k].id, P[k].org \in context.orgs).asked = (P[k].org \in context.orgs)
        BY AskAsked
      <4>b. todo'[k + 2].asked = (P[k].org \in context.orgs)
        BY <4>1, <4>a
      <4>c. todo'[k + 2].asked
        BY <3>5, <4>b, ZenonT(40)
      <4>d. todo'[k + 2].kind = "project" /\ todo'[k + 2].id = P[k].id
        BY <4>1, AskFields
      <4>2. todo'[k + 2].kind = "project" /\ todo'[k + 2].id = P[k].id /\ todo'[k + 2].asked
        BY <4>c, <4>d
      <4> QED
        BY <3>5, <4>1, <4>2
    <3> QED
      BY <3>1, <3>3, <3>4, <3>5
  <2>14. ProfilesToCome'
    <3>1. Profiles' = Profiles /\ throughout' = throughout
      BY <1>1 DEF Fixed, Profiles
    <3>2. BagToSet(rows') = {}
      BY <1>1, <1>2
    <3> QED
      BY <1>1, <2>8, <2>12, <2>13, <3>1, <3>2, MeantSame DEF ProfilesToCome
  <2>15. ReadShape' /\ RowsSound'
    BY <1>1, <1>2, <2>1, ShapeKept, RowsSame DEF ReadShape
  <2> QED
    BY <1>1, <2>1, <2>14, <2>15 DEF ReadSound, Fixed
<1> QED
  BY <1>3, <1>4

\* The next profile, or the end.
LEMMA ProfileKept == ASSUME ReadSound, Profile PROVE ReadSound'
<1>1. query.what = "info" /\ reading = "next" /\ Fixed
  BY DEF Profile
<1>2. ReadShape /\ RowsSound /\ ProfilesToCome
  BY <1>1 DEF ReadSound
<1>a. todo \in Seq(Profiles)
  BY <1>2 DEF ProfilesToCome
<1>b. /\ \A j, k \in DOMAIN todo : todo[j].kind = todo[k].kind /\ todo[j].id = todo[k].id => j = k
      /\ \A e \in BagToSet(rows) : \A k \in DOMAIN todo : ~ (e.kind = todo[k].kind /\ e.id = todo[k].id)
  BY <1>2 DEF ProfilesToCome
<1>c. \A e \in throughout : Meant(e) =>
          \/ e \in BagToSet(rows)
          \/ \E k \in DOMAIN todo : todo[k].asked /\ e.kind = todo[k].kind /\ e.id = todo[k].id
  BY <1>2 DEF ProfilesToCome
<1>3. CASE ReadFails
  BY <1>1, <1>3, FailureKept
<1>4. CASE ~ ReadFails /\ todo # <<>>
  <2>1. /\ todo' = Tail(todo) /\ UNCHANGED <<reading, runtimes, cut>>
        /\ IF Head(todo).asked
             THEN \E e \in present : e.kind = Head(todo).kind /\ e.id = Head(todo).id /\ Show({e})
             ELSE UNCHANGED rows
    BY <1>4 DEF Profile
  <2>2. /\ Head(todo) = todo[1] /\ Head(todo) \in Profiles /\ 1 \in DOMAIN todo
        /\ Tail(todo) \in Seq(Profiles)
        /\ \A k \in DOMAIN Tail(todo) : k + 1 \in DOMAIN todo /\ k + 1 # 1 /\ Tail(todo)[k] = todo[k + 1]
        /\ \A k \in DOMAIN todo : k = 1 \/ (k - 1 \in DOMAIN Tail(todo) /\ Tail(todo)[k - 1] = todo[k])
    BY <1>4, <1>a, TailOf
  <2>3. /\ RowsSound' /\ BagToSet(rows) \subseteq BagToSet(rows')
        /\ \A e \in BagToSet(rows') \ BagToSet(rows) : e.kind = todo[1].kind /\ e.id = todo[1].id
        /\ \A e \in throughout : todo[1].asked /\ e.kind = todo[1].kind /\ e.id = todo[1].id => e \in BagToSet(rows')
    <3>1. CASE ~ Head(todo).asked
      BY <1>1, <1>2, <2>1, <2>2, <3>1, RowsSame
    <3>2. CASE Head(todo).asked
      <4>1. PICK e \in present : e.kind = Head(todo).kind /\ e.id = Head(todo).id /\ Show({e})
        BY <2>1, <3>2
      <4>2. e \in ever /\ e \in Entries
        BY <1>2 DEF ReadShape, Candidates
      <4>3. Meant(e)
        <5>1. \/ Head(todo) = Ask("organization", context.org, TRUE)
              \/ Head(todo) = Ask("group", context.group, context.group # Nowhere)
              \/ \E k \in DOMAIN context.projects :
                    Head(todo) = Ask("project", context.projects[k].id, context.projects[k].org \in context.orgs)
          BY <2>2 DEF Profiles
        <5>2. CASE Head(todo) = Ask("organization", context.org, TRUE)
          BY <1>1, <4>1, <5>2, MeantIs DEF Ask
        <5>3. CASE Head(todo) = Ask("group", context.group, context.group # Nowhere)
          BY <1>1, <4>1, <5>3, MeantIs DEF Ask
        <5>4. ASSUME NEW k \in DOMAIN context.projects,
                     Head(todo) = Ask("project", context.projects[k].id, context.projects[k].org \in context.orgs)
              PROVE  Meant(e)
          <6>1. e.kind = "project" /\ e.id = context.projects[k].id /\ context.projects[k].org \in context.orgs
            <7>1. Head(todo).asked = (context.projects[k].org \in context.orgs)
              <8>1. Ask("project", context.projects[k].id, context.projects[k].org \in context.orgs).asked
                      = (context.projects[k].org \in context.orgs)
                BY AskAsked
              <8> QED
                BY <5>4, <8>1
            <7>2. context.projects[k].org \in context.orgs
              BY <3>2, <7>1, ZenonT(40)
            <7>3. Head(todo).kind = "project" /\ Head(todo).id = context.projects[k].id
              BY <5>4, AskFields
            <7> QED
              BY <4>1, <7>2, <7>3
          <6> QED
            BY <1>1, <6>1, MeantIs
        <5> QED
          BY <5>1, <5>2, <5>3, <5>4
      <4>4. {e} \intersect BagToSet(rows) = {}
        BY <1>b, <2>2, <4>1
      <4>5. RowsSound' /\ BagToSet(rows') = BagToSet(rows) \union {e}
        BY <1>1, <1>2, <4>1, <4>2, <4>3, <4>4, RowsKept
      <4>6. \A f \in throughout : f.kind = e.kind /\ f.id = e.id => f = e
        BY <1>2, <4>2, ReadAssumption DEF ReadShape, Candidates
      <4> QED
        BY <2>2, <4>1, <4>5, <4>6
    <3> QED
      BY <3>1, <3>2
  <2>4. \A j, k \in DOMAIN todo' : todo'[j].kind = todo'[k].kind /\ todo'[j].id = todo'[k].id => j = k
    <3> SUFFICES ASSUME NEW j \in DOMAIN Tail(todo), NEW k \in DOMAIN Tail(todo),
                        Tail(todo)[j].kind = Tail(todo)[k].kind, Tail(todo)[j].id = Tail(todo)[k].id
                 PROVE j = k
      BY <2>1
    <3>1. j + 1 = k + 1
      BY <1>b, <2>2
    <3>2. j \in Int /\ k \in Int
      BY <2>2
    <3> QED
      BY <3>1, <3>2
  <2>5. ASSUME NEW e \in BagToSet(rows'), NEW k \in DOMAIN todo' PROVE ~ (e.kind = todo'[k].kind /\ e.id = todo'[k].id)
    <3>1. k + 1 \in DOMAIN todo /\ k + 1 # 1 /\ todo'[k] = todo[k + 1]
      BY <2>1, <2>2
    <3>2. CASE e \in BagToSet(rows)
      BY <1>b, <3>1, <3>2
    <3>3. CASE e \notin BagToSet(rows)
      <4>1. e.kind = todo[1].kind /\ e.id = todo[1].id
        BY <2>3, <2>5, <3>3
      <4> QED
        BY <1>b, <2>2, <3>1, <4>1
    <3> QED
      BY <3>2, <3>3
  <2>6. ASSUME NEW e \in throughout, Meant(e)
        PROVE  \/ e \in BagToSet(rows')
               \/ \E k \in DOMAIN todo' : todo'[k].asked /\ e.kind = todo'[k].kind /\ e.id = todo'[k].id
    <3>1. ASSUME NEW k \in DOMAIN todo, todo[k].asked, e.kind = todo[k].kind, e.id = todo[k].id, k # 1
          PROVE  \E j \in DOMAIN todo' : todo'[j].asked /\ e.kind = todo'[j].kind /\ e.id = todo'[j].id
      <4>1. k - 1 \in DOMAIN todo' /\ todo'[k - 1] = todo[k]
        BY <2>1, <2>2, <3>1
      <4> QED
        BY <3>1, <4>1
    <3> QED
      BY <1>c, <2>3, <2>6, <3>1
  <2>7. ProfilesToCome'
    <3>1. Profiles' = Profiles /\ throughout' = throughout /\ todo' \in Seq(Profiles)
      BY <1>1, <2>1, <2>2 DEF Fixed, Profiles
    <3> QED
      BY <1>1, <2>4, <2>5, <2>6, <3>1, MeantSame DEF ProfilesToCome
  <2>8. ReadShape'
    BY <1>1, <1>2, <2>1, ShapeKept DEF ReadShape
  <2> QED
    BY <1>1, <2>1, <2>3, <2>7, <2>8 DEF ReadSound, Fixed
<1>5. CASE ~ ReadFails /\ todo = <<>>
  <2>1. reading' = "done" /\ rows' = rows /\ cut' = cut
    BY <1>5 DEF Profile
  <2>2. ReadShape' /\ RowsSound'
    BY <1>1, <1>2, <2>1, ShapeKept, RowsSame DEF ReadShape
  <2>3. ASSUME NEW e \in throughout, Expected(e)' PROVE e \in BagToSet(rows)
    <3>1. Meant(e)
      BY <1>1, <2>3, MeantSame DEF Expected
    <3>2. DOMAIN todo = {}
      BY <1>5
    <3> QED
      BY <1>c, <3>1, <3>2
  <2>4. AllShown'
    BY <1>1, <2>1, <2>3 DEF AllShown, Fixed
  <2> QED
    BY <2>1, <2>2, <2>4 DEF ReadSound
<1> QED
  BY <1>3, <1>4, <1>5

\* What others create may be shown later, what they delete need not be any more.
LEMMA OthersKept == ASSUME ReadSound, OthersCreateOrDelete PROVE ReadSound'
<1>1. /\ UNCHANGED <<query, context, reading, runtimes, todo, rows, cut>>
      /\ reading \in {"start", "next"}
      /\ ever' = ever \union present' /\ throughout' = throughout \intersect present'
      /\ \E e \in Candidates : present' = IF e \in present THEN present \ {e} ELSE present \union {e}
  BY DEF OthersCreateOrDelete
<1>2. present' \subseteq Candidates /\ Candidates' = Candidates
  BY <1>1 DEF ReadSound, ReadShape, Candidates, Kinds
<1>3. ReadShape'
  BY <1>1, <1>2 DEF ReadSound, ReadShape
<1>4. ever \subseteq ever' /\ throughout' \subseteq throughout
  BY <1>1
<1>5. \A e : Meant(e) => Meant(e)'
  BY <1>1, <1>4, MeantKept
<1>6. RowsSound'
  BY <1>1, <1>4, <1>5 DEF ReadSound, RowsSound
<1>7. query.what \in {"project", "info"} => \A e : Meant(e)' <=> Meant(e)
  BY <1>1 DEF Meant, Scope, Named
<1>8. reading = "next" /\ query.what = "project" => ProjectsToCome'
  BY <1>1, <1>4, <1>7 DEF ReadSound, ProjectsToCome
<1>9. reading = "next" /\ query.what = "info" => ProfilesToCome'
  <2>1. Profiles' = Profiles
    BY <1>1 DEF Profiles
  <2> QED
    BY <1>1, <1>4, <1>7, <2>1 DEF ReadSound, ProfilesToCome
<1>10. ASSUME reading = "next", query.what = "container" PROVE ContainersToCome'
  <2>1. /\ \A r : ClusterOf(r)' = ClusterOf(r)
        /\ \A t : Named(t)' <=> Named(t)
        /\ ProjectScope' = ProjectScope /\ (NoName' <=> NoName)
    BY <1>1 DEF ClusterOf, Named, ProjectScope, NoName
  <2>2. {ClusterOf(r) : r \in runtimes}' = {ClusterOf(r) : r \in runtimes}
    BY <1>1, <2>1
  <2>3. ContainersToCome
    BY <1>10 DEF ReadSound
  <2>4. todo' \in Seq({ClusterOf(r) : r \in runtimes}')
    BY <1>1, <2>2, <2>3 DEF ContainersToCome
  <2>5. \A r \in runtimes' : r \in ever' /\ r.kind = "instance" /\ ProjectScope' \in r.in /\ Named({r.title, r.service})'
    BY <1>1, <1>4, <2>1, <2>3 DEF ContainersToCome
  <2>6. /\ NoName' => \A r \in throughout' : r.kind = "instance" /\ ProjectScope' \in r.in => r \in runtimes'
        /\ ~ NoName' => runtimes' # {}
    BY <1>1, <1>4, <2>1, <2>3 DEF ContainersToCome
  <2>7. /\ \A j, k \in DOMAIN todo' : todo'[j] = todo'[k] => j = k
        /\ \A e \in BagToSet(rows') : \A k \in DOMAIN todo' : todo'[k] \notin e.in
    BY <1>1, <2>3 DEF ContainersToCome
  <2>8. \A r \in runtimes' : \/ \E k \in DOMAIN todo' : todo'[k] = ClusterOf(r)'
                             \/ \A e \in throughout' : e.kind = "container" /\ ClusterOf(r)' \in e.in
                                   /\ e.service = r.service => e \in BagToSet(rows')
    BY <1>1, <1>4, <2>1, <2>3 DEF ContainersToCome
  <2> QED
    BY <2>4, <2>5, <2>6, <2>7, <2>8 DEF ContainersToCome
<1> QED
  BY <1>1, <1>3, <1>6, <1>8, <1>9, <1>10 DEF ReadSound

\* A command begins with nothing shown.
LEMMA ReadStarts == ReadInit => ReadSound
<1> SUFFICES ASSUME ReadInit PROVE ReadSound
  OBVIOUS
<1>1. BagToSet(rows) = {} /\ rows = EmptyBag /\ reading = "start"
  BY NoRows DEF ReadInit
<1>2. ReadShape
  BY <1>1 DEF ReadInit, ReadShape
<1>3. RowsSound
  BY <1>1, NoRows DEF RowsSound
<1> QED
  BY <1>1, <1>2, <1>3 DEF ReadSound

\* Every step keeps what is to come, and what is shown.
LEMMA ReadStep == ReadSound /\ [ReadNext]_readVars => ReadSound'
<1> SUFFICES ASSUME ReadSound, [ReadNext]_readVars PROVE ReadSound'
  OBVIOUS
<1>s. /\ query.what \notin {"organization", "group", "certificate", "cluster", "project"} => Scope = ProjectScope
      /\ query.what = "certificate" => Scope = OrgScope
      /\ query.what = "organization" => Scope = "user"
      /\ query.what = "cluster" => Scope = ClusterScope
      /\ query.what = "group" => Scope = context.org
  BY DEF Scope
<1>1. CASE GetPipelines
  BY <1>1, <1>s, ListsKept DEF GetPipelines, Simple
<1>2. CASE GetImages
  BY <1>2, <1>s, ListsKept DEF GetImages, Simple
<1>3. CASE GetBuilds
  BY <1>3, <1>s, ListsKept DEF GetBuilds, Simple
<1>4. CASE GetInstances
  BY <1>4, <1>s, ListsKept DEF GetInstances, Simple
<1>5. CASE GetDeploys
  BY <1>5, <1>s, ListsKept DEF GetDeploys, Simple
<1>6. CASE GetRoutes
  BY <1>6, <1>s, ListsKept DEF GetRoutes, Simple
<1>7. CASE GetCertificates
  BY <1>7, <1>s, ListsKept DEF GetCertificates, Simple
<1>8. CASE GetOrganizations
  BY <1>8, <1>s, ListsKept DEF GetOrganizations, Simple
<1>9. CASE GetClusters
  BY <1>9, <1>s, ListsKept DEF GetClusters, Simple
<1>10. CASE GetGroups
  BY <1>10, <1>s, ListsKept DEF GetGroups, Simple
<1>11. CASE GetDomains
  BY <1>11, GetDomainsKept
<1>12. CASE GetProjects
  BY <1>12, GetProjectsKept
<1>13. CASE GetProjectsNamed
  BY <1>13, GetProjectsNamedKept
<1>14. CASE GetRuntimes
  BY <1>14, GetRuntimesKept
<1>15. CASE GetContainers
  BY <1>15, GetContainersKept
<1>16. CASE Info
  BY <1>16, InfoKept
<1>17. CASE Profile
  BY <1>17, ProfileKept
<1>18. CASE OthersCreateOrDelete
  BY <1>18, OthersKept
<1>19. CASE UNCHANGED readVars
  <2>1. /\ Fixed /\ UNCHANGED <<reading, runtimes, todo, rows, cut>>
    BY <1>19 DEF readVars, Fixed
  <2>2. ReadShape' /\ RowsSound'
    BY <2>1, RowsSame DEF ReadSound, ReadShape, Fixed, Candidates, Kinds
  <2>3. reading = "done" => AllShown'
    <3>a. \A t : Named(t)' <=> Named(t)
      BY <2>1, ScopeSame
    <3>b. \A r, e : Runs(r, e)' <=> Runs(r, e)
      BY <2>1, <3>a, ScopeSame DEF Runs
    <3>c. (NoName' <=> NoName) /\ \A e : Meant(e)' <=> Meant(e)
      BY <2>1, ScopeSame, MeantSame
    <3>d. UNCHANGED <<query, context, cut, throughout, ever>>
      BY <2>1 DEF Fixed
    <3>e. {r \in ever : r.kind = "instance" /\ Named({r.title, r.service})}'
            = {r \in ever : r.kind = "instance" /\ Named({r.title, r.service})}
      BY <3>a, <3>d
    <3>1. \A e : Expected(e)' <=> Expected(e)
      BY <3>b, <3>c, <3>d, <3>e DEF Expected
    <3> QED
      BY <2>1, <3>1 DEF ReadSound, AllShown, Fixed
  <2>4. ProjectsToCome' <=> ProjectsToCome
    BY <2>1, MeantSame DEF ProjectsToCome, Fixed
  <2>5. ContainersToCome' <=> ContainersToCome
    BY <2>1 DEF ContainersToCome, Fixed, Named, NoName, ProjectScope, ClusterOf
  <2>6. ProfilesToCome' <=> ProfilesToCome
    BY <2>1, MeantSame DEF ProfilesToCome, Fixed, Profiles
  <2> QED
    BY <2>1, <2>2, <2>3, <2>4, <2>5, <2>6 DEF ReadSound, Fixed
<1> QED
  BY <1>1, <1>2, <1>3, <1>4, <1>5, <1>6, <1>7, <1>8, <1>9, <1>10, <1>11, <1>12, <1>13, <1>14, <1>15,
     <1>16, <1>17, <1>18, <1>19 DEF ReadNext

\* galaxy get and galaxy info (newCmd..., optionsContainer.run, Options.Run): whatever
\* others create and delete between the requests, a listing that succeeds has what was
\* meant and was there, each once, and all that was there throughout.
THEOREM ListingsAreTrue == ReadSpec => []ListedIsThere
<1>1. ReadSound => ListedIsThere
  BY DEF ReadSound, RowsSound, AllShown, ListedIsThere
<1> QED
  BY <1>1, ReadStarts, ReadStep, PTL DEF ReadSpec

=============================================================================
