------------------------------ MODULE ProjectFile ------------------------------
(***************************************************************************)
(* Which project of the API a directory stands for: galaxy init, switch    *)
(* project and delete project (cmd/initproject, cmd/switchCmd, cmd/delete, *)
(* pkg/galaxycfg).  The file .galaxy/project.yaml lists projects, one of   *)
(* them the default; it lies in the working tree, where git and others     *)
(* change it as well.                                                      *)
(***************************************************************************)
EXTENDS Naturals, Sequences

CONSTANTS
    ProjectIds,
    Urls,              \* of git repositories
    NoRepository,      \* of an image project, and of a directory without git
    NoProject,
    NoFile,
    ProjectFiles,      \* the files a directory may come with
    MaxTasks,          \* bounds the commands run one after another
    MaxOthers          \* bounds what others do

VARIABLES
    projectFile,       \* NoFile, or [default, listed]
    tree,              \* [remote, empty]: the directory as a git working tree
    catalog,           \* the projects at the API: [develop, repo] of each
    task,              \* the command: what it has loaded, asked and been told
    tasks, others

projectVars == <<projectFile, tree, catalog, task, tasks, others>>

Sources == Urls \union {NoRepository}
Listed == [id : ProjectIds, src : Sources]
Ids(f) == IF f = NoFile THEN {} ELSE {f.listed[i].id : i \in DOMAIN f.listed}

ASSUME ProjectAssumption ==
    /\ MaxTasks \in Nat /\ MaxOthers \in Nat
    /\ NoRepository \notin Urls /\ NoFile \in ProjectFiles
    /\ NoProject \notin ProjectIds \union [develop : BOOLEAN, repo : Sources]
    /\ NoFile \notin [default : ProjectIds, listed : Seq(Listed)]
    /\ \A f \in ProjectFiles \ {NoFile} :
          /\ f \in [default : ProjectIds, listed : Seq(Listed)]
          /\ f.listed # <<>> /\ f.default \in Ids(f)

Project(develop, url) == [develop |-> develop, repo |-> IF develop THEN url ELSE NoRepository]
Projects0 == {Project(d, u) : d \in BOOLEAN, u \in Urls}

Begin(command) == [command |-> command, at |-> "start", loaded |-> NoFile, id |-> NoProject,
                   src |-> NoRepository, fresh |-> TRUE]

ProjectInit ==
    /\ projectFile \in ProjectFiles
    /\ tree \in [remote : Sources, empty : {FALSE}] \union {[remote |-> NoRepository, empty |-> TRUE]}
    /\ tree.empty => projectFile = NoFile
    /\ catalog \in [ProjectIds -> {NoProject} \union Projects0]
    /\ task \in {Begin(c) : c \in {"init", "switch", "delete"}}
    /\ tasks = 0 /\ others = 0

Does(t) == task' = t
At(command, at) == task.command = command /\ task.at = at
ApiSame == UNCHANGED <<tree, catalog, tasks, others>>

\* Every request may fail and every question be given up, before anything is
\* saved; the command ends there.
GiveUpTask ==
    /\ task.at \notin {"start", "done", "failed"}
    /\ Does([task EXCEPT !.at = "failed"])
    /\ ApiSame /\ UNCHANGED projectFile

\* The configuration is loaded when the command starts.
LoadProject ==
    /\ task.at = "start"
    /\ Does([task EXCEPT !.at = "select", !.loaded = projectFile])
    /\ ApiSame /\ UNCHANGED projectFile

\* ProjectConfig.Save: without a default the first one listed is it.
SaveProjects(listed, default) ==
    projectFile' = [listed |-> listed, default |-> IF default = NoProject THEN listed[1].id ELSE default]

-----------------------------------------------------------------------------
(* init                                                                      *)

\* SelectedProjectByGroupId: one of the projects there are, or a new one; the
\* flag --create, or that there are none, means a new one.
SelectProject ==
    /\ At("init", "select")
    /\ \/ \E p \in ProjectIds :
             /\ catalog[p] # NoProject
             /\ Does([task EXCEPT !.at = "basic", !.id = p])
       \/ Does([task EXCEPT !.at = IF tree.remote = NoRepository THEN "clone" ELSE "create",
                            !.src = tree.remote])
    /\ ApiSame /\ UNCHANGED projectFile

\* Basic: a project that builds from an image is bound without a repository.
ReadBasic ==
    /\ At("init", "basic")
    /\ LET p == catalog[task.id]
       IN Does([task EXCEPT !.at = IF p = NoProject THEN "failed"
                                   ELSE IF p.develop THEN "repository" ELSE "save"])
    /\ ApiSame /\ UNCHANGED projectFile

\* Variant for the mutation runs: any working tree will do.
NotCompared(repo) == IF tree.remote = NoRepository THEN "clone" ELSE "save"

\* configureExistingWorkingTree compares it with the remote of the working tree,
\* cloneExistingProject clones it.
Compared(repo) ==
    IF tree.remote = NoRepository THEN "clone"
    ELSE IF tree.remote = repo THEN "save" ELSE "failed"

\* Repository: that of the project as it is by now.
ReadRepository ==
    /\ At("init", "repository")
    /\ LET p == catalog[task.id]
           known == p # NoProject /\ p.repo # NoRepository
       IN Does([task EXCEPT
             !.src = IF known THEN p.repo ELSE NoRepository,
             !.at = IF known THEN Compared(p.repo) ELSE "failed"])
    /\ ApiSame /\ UNCHANGED projectFile

\* GitClone, only into an empty directory; of the project's repository, or of
\* one the user enters for the project that is created next.
CloneRepository ==
    /\ At("init", "clone")
    /\ tree.empty
    /\ \E u \in IF task.id = NoProject THEN Urls ELSE {task.src} :
          /\ tree' = [remote |-> u, empty |-> FALSE]
          /\ Does([task EXCEPT !.src = u, !.at = IF task.id = NoProject THEN "create" ELSE "save"])
    /\ UNCHANGED <<projectFile, catalog, tasks, others>>

\* CreateProject; the answer may be lost.
CreateProject ==
    /\ At("init", "create")
    /\ \E p \in ProjectIds, at \in {"save", "failed"} :
          /\ catalog[p] = NoProject
          /\ catalog' = [catalog EXCEPT ![p] = Project(TRUE, task.src)]
          /\ Does([task EXCEPT !.at = at, !.id = p])
    /\ UNCHANGED <<projectFile, tree, tasks, others>>

\* SaveGalaxyProjectConfigForServer: one project, and no default.
SaveInit ==
    /\ At("init", "save")
    /\ SaveProjects(<<[id |-> task.id, src |-> task.src]>>, NoProject)
    /\ Does([task EXCEPT !.at = "done"])
    /\ tree' = [tree EXCEPT !.empty = FALSE]
    /\ UNCHANGED <<catalog, tasks, others>>

-----------------------------------------------------------------------------
(* switch project                                                            *)

\* The file as it was loaded, with another default; nothing to do for one.
SwitchProject ==
    /\ At("switch", "select")
    /\ task.loaded # NoFile
    /\ \/ /\ Len(task.loaded.listed) = 1
          /\ UNCHANGED projectFile
       \/ \E p \in Ids(task.loaded) : SaveProjects(task.loaded.listed, p)
    /\ Does([task EXCEPT !.at = "done"])
    /\ tree' = [tree EXCEPT !.empty = @ /\ projectFile' = NoFile]
    /\ UNCHANGED <<catalog, tasks, others>>

-----------------------------------------------------------------------------
(* delete project                                                            *)

\* It is found by its name at the API and confirmed twice; the answer to the
\* deletion may be lost.
DeleteProject ==
    /\ At("delete", "select")
    /\ \E p \in ProjectIds, at \in {"remove", "failed"} :
          /\ catalog[p] # NoProject
          /\ catalog' = [catalog EXCEPT ![p] = NoProject]
          /\ Does([task EXCEPT !.at = at, !.id = p])
    /\ UNCHANGED <<projectFile, tree, tasks, others>>

\* RemoveProject.  Of several projects none is taken out of the list, and the
\* first becomes the default; a file that was not there when the command started
\* makes it panic.
Forgotten(f, p) ==
    IF Len(f.listed) = 1 /\ f.listed[1].id = p THEN NoFile
    ELSE [f EXCEPT !.default = f.listed[1].id]

RemoveProject ==
    /\ At("delete", "remove")
    /\ IF projectFile = NoFile THEN UNCHANGED projectFile /\ Does([task EXCEPT !.at = "done"])
       ELSE IF task.loaded = NoFile THEN UNCHANGED projectFile /\ Does([task EXCEPT !.at = "failed"])
       ELSE /\ projectFile' = Forgotten(task.loaded, task.id)
            /\ Does([task EXCEPT !.at = "done"])
    /\ ApiSame

-----------------------------------------------------------------------------
NextTask ==
    /\ task.at \in {"done", "failed"} /\ tasks < MaxTasks
    /\ tasks' = tasks + 1
    /\ \E c \in {"init", "switch", "delete"} : Does(Begin(c))
    /\ UNCHANGED <<projectFile, tree, catalog, others>>

\* Others use the API, or change the file: git checkout, another command.
OthersAct ==
    /\ others < MaxOthers
    /\ others' = others + 1
    /\ \/ /\ \E p \in ProjectIds : catalog' \in {[catalog EXCEPT ![p] = q] : q \in {NoProject} \union Projects0}
          /\ UNCHANGED <<projectFile, tree>>
       \/ /\ projectFile' \in ProjectFiles
          /\ tree' = [tree EXCEPT !.empty = @ /\ projectFile' = NoFile]
          /\ UNCHANGED catalog
    /\ Does([task EXCEPT !.fresh = FALSE])
    /\ UNCHANGED tasks

ProjectNext ==
    \/ LoadProject \/ GiveUpTask \/ NextTask \/ OthersAct
    \/ SelectProject \/ ReadBasic \/ ReadRepository \/ CloneRepository \/ CreateProject \/ SaveInit
    \/ SwitchProject \/ DeleteProject \/ RemoveProject

ProjectSpec == ProjectInit /\ [][ProjectNext]_projectVars

-----------------------------------------------------------------------------
(* The project of a directory (init, switch project, delete project).  Through *)
(* any sequence of commands, some of them failing half way, and whatever       *)
(* others do, the default of the file is one of the projects it lists.  After  *)
(* an init during which nobody else did anything the file lists exactly the    *)
(* project that was chosen or created, it exists, and one that has a repository*)
(* is bound to a working tree of that repository.                              *)
DirectoryIsBound ==
    /\ projectFile # NoFile => projectFile.default \in Ids(projectFile)
    /\ At("init", "done") /\ task.fresh =>
         /\ Ids(projectFile) = {task.id} /\ catalog[task.id] # NoProject
         /\ catalog[task.id].repo = projectFile.listed[1].src
         /\ catalog[task.id].develop => tree.remote = catalog[task.id].repo

=============================================================================
