------------------------------ MODULE ProjectSync ------------------------------
(***************************************************************************)
(* galaxy sync (cmd/projectdiff/sync.go): the files Git reports as changed *)
(* are written, or deleted, one request at a time in a running container.  *)
(*                                                                         *)
(* The working tree is read three times (by git, by the plan and right     *)
(* before each file is sent) and the container at least twice (by the      *)
(* check of the targets and by the write), while the developer goes on     *)
(* editing and others go on changing the container.                        *)
(***************************************************************************)
EXTENDS Naturals, Sequences

CONSTANTS
    Order,        \* the paths, sorted as gitChangedFiles sorts them
    Above,        \* Above[p]: the paths that are a directory on the way to p
    Ours,         \* what the developer's files contain
    Theirs,       \* what the container's files contain before the command
    MaxChanges    \* bound: changes of the tree or of the container by others

Paths == {Order[k] : k \in DOMAIN Order}

ASSUME SyncAssumption ==
    /\ Order \in Seq(Paths) /\ Order # <<>>
    /\ \A j, k \in DOMAIN Order : Order[j] = Order[k] => j = k
    /\ Above \in [Paths -> SUBSET Paths]
    /\ \A j, k \in DOMAIN Order : Order[j] \in Above[Order[k]] => j < k
    /\ \A p \in Paths : \A q \in Above[p] : Above[q] \subseteq Above[p]
    /\ (Ours \union Theirs) \cap {"absent", "dir", "error"} = {}
    /\ MaxChanges \in Nat

VARIABLES
    pc,           \* where the command is
    local,        \* the working tree: a node for each path
    remote,       \* the container below the remote root, likewise
    item,         \* item[p]: the changedFile of p, and later its syncItem
    pos,          \* position of the loop that is running, in Order
    sent,         \* sent[p]: what os.ReadFile returned for p
    start,        \* history: the container as the command found it
    foreign,      \* history: the paths others have changed in the container
    wrote,        \* history: a request of the command has changed the container
    changes       \* bound: see MaxChanges

vars == <<pc, local, remote, item, pos, sent, start, foreign, wrote, changes>>

Contents == Ours \union Theirs

\* "dir" is any node that is there and is not a regular file.
Trees(contents) ==
    {t \in [Paths -> contents \union {"absent", "dir"}] :
        \A p \in Paths : t[p] # "absent" => \A q \in Above[p] : t[q] = "dir"}

\* A commit or the index holds files, and no file below a file.
GitTrees == {t \in [Paths -> Contents \union {"absent"}] :
                \A p \in Paths : t[p] # "absent" => \A q \in Above[p] : t[q] = "absent"}

Action == {"skip", "delete", "write"}

Ended == {"synced", "planned", "nothing", "conflict", "failed"}

SyncTypeOK ==
    /\ pc \in {"start", "target", "plan", "check", "item", "read", "send"} \union Ended
    /\ local \in Trees(Ours)
    /\ remote \in Trees(Contents)
    /\ item \in [Paths -> {"none", "deleted", "changed"} \union Action]
    /\ pos \in 1 .. Len(Order)
    /\ sent \in [Paths -> Ours \union {"absent"}]
    /\ start \in Trees(Theirs)
    /\ foreign \subseteq Paths
    /\ wrote \in BOOLEAN
    /\ changes \in 0 .. MaxChanges

SyncInit ==
    /\ pc = "start"
    /\ local \in Trees(Ours)
    /\ remote \in Trees(Theirs)
    /\ item = [p \in Paths |-> "none"]
    /\ pos = 1
    /\ sent = [p \in Paths |-> "absent"]
    /\ start = remote
    /\ foreign = {}
    /\ wrote = FALSE
    /\ changes = 0

-----------------------------------------------------------------------------
(* What Git reports.                                                       *)

\* The file at p in the working tree, if there is one.
WorkFile(p) == IF local[p] \in Ours THEN local[p] ELSE "absent"

\* os.Stat: below a file it fails otherwise than with "does not exist".
Stat(p) == IF \E q \in Above[p] : local[q] \in Ours THEN "error" ELSE local[p]

\* git status --porcelain --no-renames: "D" in one of the two columns.
WorktreeEntry(head, index, p) ==
    IF \/ head[p] # "absent" /\ index[p] = "absent"
       \/ index[p] # "absent" /\ WorkFile(p) = "absent"
      THEN "deleted"
    ELSE IF head[p] # index[p] \/ index[p] # WorkFile(p) THEN "changed"
    ELSE "none"

\* git diff --name-only <commit>: to it, a file outside the index is deleted.
DiffersFrom(base, index, p) ==
    base[p] # IF index[p] = "absent" THEN "absent" ELSE WorkFile(p)

\* treeToWorktreeStatus.
CommitEntry(base, index, p) ==
    IF ~ DiffersFrom(base, index, p) THEN "none"
    ELSE IF base[p] # "absent" /\ Stat(p) = "absent" THEN "deleted"
    ELSE "changed"

End(outcome) ==
    /\ pc' = outcome
    /\ UNCHANGED <<item, pos, sent>>

\* gitChangedFiles and the ignore rules.
ReadChanges ==
    /\ pc = "start"
    /\ \/ pc' = "failed" /\ UNCHANGED item
       \/ /\ \E head, index \in GitTrees :
                item' \in {[p \in Paths |-> WorktreeEntry(head, index, p)],
                           [p \in Paths |-> CommitEntry(head, index, p)]}
          /\ pc' = IF \E p \in Paths : item'[p] # "none" THEN "target" ELSE "nothing"
    /\ UNCHANGED <<local, remote, pos, sent, start, foreign, wrote, changes>>

\* selectTarget, which may ask, and resolveRemoteRoot: remote is what is below
\* that root in that container.
SelectTarget ==
    /\ pc = "target"
    /\ pc' \in {"plan", "failed"}
    /\ UNCHANGED <<local, remote, item, pos, sent, start, foreign, wrote, changes>>

-----------------------------------------------------------------------------
(* The plan and its check.                                                 *)

\* Variant for the mutation runs: each target is checked right before it is
\* written.
AdvanceItemByItem(loop, next) ==
    IF loop = "check" THEN pos' = pos /\ pc' = "item"
    ELSE IF pos = Len(Order) THEN pos' = 1 /\ pc' = next
    ELSE pos' = pos + 1 /\ pc' = (IF loop = "item" THEN "check" ELSE loop)

\* The loop goes on at the next path, or the next loop begins.
Advance(loop, next) ==
    IF pos < Len(Order) THEN pos' = pos + 1 /\ pc' = loop
                        ELSE pos' = 1 /\ pc' = next

\* buildSyncItems for one file.  A changed file may be ignored or, when it is
\* gone, spared for want of --delete.
ItemActions(p) ==
    {"skip"} \union (IF Stat(p) \in Ours THEN {"write"} ELSE {})
             \union (IF Stat(p) = "absent" /\ item[p] = "deleted" THEN {"delete"} ELSE {})

PlanItem ==
    /\ pc = "plan"
    /\ LET p == Order[pos] IN
       \/ /\ item[p] = "none"
          /\ UNCHANGED item
          /\ Advance("plan", "check")
       \/ /\ item[p] # "none"
          /\ item' \in {[item EXCEPT ![p] = action] : action \in ItemActions(p)}
          /\ Advance("plan", "check")
       \/ /\ item[p] # "none" /\ Stat(p) = "error"
          /\ pc' = "failed"
          /\ UNCHANGED <<item, pos>>
    /\ UNCHANGED <<local, remote, sent, start, foreign, wrote, changes>>

Acts(p) == item[p] \in {"delete", "write"}

\* Variant for the mutation runs: only what is deleted is checked.
CheckItemOfDeletes ==
    /\ pc = "check"
    /\ LET p == Order[pos] IN
       \/ item[p] = "delete" /\ remote[p] = "dir" /\ End("conflict")
       \/ Acts(p) /\ End("failed")
       \/ /\ ~ (item[p] = "delete" /\ remote[p] = "dir")
          /\ Advance("check", "item")
          /\ UNCHANGED <<item, sent>>
    /\ UNCHANGED <<local, remote, start, foreign, wrote, changes>>

\* checkSyncTargetDirectories for one item.
CheckItem ==
    /\ pc = "check"
    /\ LET p == Order[pos] IN
       \/ Acts(p) /\ remote[p] = "dir" /\ End("conflict")
       \/ Acts(p) /\ End("failed")
       \/ /\ ~ (Acts(p) /\ remote[p] = "dir")
          /\ Advance("check", "item")
          /\ UNCHANGED <<item, sent>>
    /\ UNCHANGED <<local, remote, start, foreign, wrote, changes>>

-----------------------------------------------------------------------------
(* The loop over the items.                                                *)

Pending == \E p \in Paths : Acts(p)

\* A dry run, or one without anything to do, ends where the loop would begin.
ShowPlan ==
    /\ pc = "item" /\ pos = 1
    /\ End("planned")
    /\ UNCHANGED <<local, remote, start, foreign, wrote, changes>>

AtItem == pc = "item" /\ (pos = 1 => Pending)

\* A request that turns the container into t.
Put(t) == remote' = t /\ wrote' = (wrote \/ t # remote)

SkipItem ==
    /\ AtItem
    /\ ~ Acts(Order[pos])
    /\ Advance("item", "synced")
    /\ UNCHANGED <<local, remote, item, sent, start, foreign, wrote, changes>>

\* removeRemoteFile: rm -f, which removes no directory.  Whether a path below a
\* file counts as not there depends on the rm of the container.
DeleteItem ==
    /\ AtItem
    /\ LET p == Order[pos] IN
       /\ item[p] = "delete"
       /\ \/ /\ remote[p] # "dir"
             /\ Put([remote EXCEPT ![p] = "absent"])
             /\ \/ Advance("item", "synced") /\ UNCHANGED <<item, sent>>
                \/ End("failed")
          \/ End("failed") /\ UNCHANGED <<remote, wrote>>
    /\ UNCHANGED <<local, start, foreign, changes>>

WithParents(p) == [q \in Paths |-> IF q \in Above[p] THEN "dir" ELSE remote[q]]

\* ensureRemoteDirectory: mkdir -p, which fails at a file on the way.
MakeDirectory ==
    /\ AtItem
    /\ LET p == Order[pos] IN
       /\ item[p] = "write"
       /\ \/ /\ \A q \in Above[p] : remote[q] \notin Contents
             /\ Put(WithParents(p))
             /\ pc' \in {"read", "failed"}
          \/ pc' = "failed" /\ UNCHANGED <<remote, wrote>>
    /\ UNCHANGED <<local, item, pos, sent, start, foreign, changes>>

\* Variant for the mutation runs: a file that cannot be read is passed over.
ReadLocalOrSkip ==
    /\ pc = "read"
    /\ LET p == Order[pos] IN
       \/ /\ local[p] \in Ours
          /\ sent' = [sent EXCEPT ![p] = local[p]]
          /\ pc' = "send"
          /\ UNCHANGED pos
       \/ Advance("item", "synced") /\ UNCHANGED sent
    /\ UNCHANGED <<local, remote, item, start, foreign, wrote, changes>>

\* Variant for the mutation runs: what os.ReadFile returned is sent anyhow.
ReadLocalUnchecked ==
    /\ pc = "read"
    /\ sent' = [sent EXCEPT ![Order[pos]] = local[Order[pos]]]
    /\ pc' = "send"
    /\ UNCHANGED <<local, remote, item, pos, start, foreign, wrote, changes>>

\* os.ReadFile: the file may be another one by now, or gone.
ReadLocal ==
    /\ pc = "read"
    /\ LET p == Order[pos] IN
       \/ /\ local[p] \in Ours
          /\ sent' = [sent EXCEPT ![p] = local[p]]
          /\ pc' = "send"
       \/ pc' = "failed" /\ UNCHANGED sent
    /\ UNCHANGED <<local, remote, item, pos, start, foreign, wrote, changes>>

\* The container with the file at p.  A directory there may lose its contents.
Written(p) ==
    [q \in Paths |-> IF q = p THEN sent[p]
                     ELSE IF p \in Above[q] THEN "absent"
                     ELSE remote[q]]

\* WriteFile: two different requests for an empty and any other content.
SendFile ==
    /\ pc = "send"
    /\ LET p == Order[pos] IN
       \/ /\ \A q \in Above[p] : remote[q] = "dir"
          /\ Put(Written(p))
          /\ \/ Advance("item", "synced") /\ UNCHANGED <<item, sent>>
             \/ End("failed")
       \/ End("failed") /\ UNCHANGED <<remote, wrote>>
    /\ UNCHANGED <<local, start, foreign, changes>>

Sync ==
    \/ ReadChanges \/ SelectTarget \/ PlanItem \/ CheckItem \/ ShowPlan \/ SkipItem
    \/ DeleteItem \/ MakeDirectory \/ ReadLocal \/ SendFile

-----------------------------------------------------------------------------
\* The developer saves a file or checks out another branch.
EditLocal ==
    /\ pc \notin Ended
    /\ changes < MaxChanges
    /\ changes' = changes + 1
    /\ local' \in Trees(Ours)
    /\ UNCHANGED <<pc, remote, item, pos, sent, start, foreign, wrote>>

\* The application, or another developer's sync, changes the container.
OthersWrite ==
    /\ pc \notin Ended
    /\ changes < MaxChanges
    /\ changes' = changes + 1
    /\ remote' \in {t \in Trees(Contents) :
                      \A p \in Paths : t[p] # remote[p] => t[p] \notin Ours}
    /\ foreign' = foreign \union {p \in Paths : remote'[p] # remote[p]}
    /\ UNCHANGED <<pc, local, item, pos, sent, start, wrote>>

SyncNext == Sync \/ EditLocal \/ OthersWrite

SyncSpec == SyncInit /\ [][SyncNext]_vars

-----------------------------------------------------------------------------
(* Properties.                                                             *)

\* A dry run, and a run that stops at a target that is a directory, have
\* changed nothing, as both messages say (sync.go:184, 330, 332; README.md:134
\* and 136): all targets are checked before the first is written.
ReportedUntouched == pc \in {"planned", "conflict"} => ~ wrote

\* "同步完成" means that every planned file has been sent and is there, that no
\* planned deletion has left a file, and that nothing else has changed but
\* directories that the new files need; paths others wrote to are theirs.
SuccessMeansSynced ==
    pc = "synced" =>
        \A p \in Paths \ foreign :
            /\ item[p] = "write" => sent[p] # "absent" /\ remote[p] = sent[p]
            /\ item[p] = "delete" => remote[p] \notin Contents
            /\ ~ Acts(p) =>
                  \/ remote[p] = start[p]
                  \/ /\ start[p] = "absent" /\ remote[p] = "dir"
                     /\ \E q \in Paths : item[q] = "write" /\ p \in Above[q]

\* A write never replaces a directory of the container, unless others have made
\* it since the check (sync.go:332, "写入文件可能清空目录内容").
DirectoriesKept ==
    [][changes' = changes =>
         \A p \in Paths \ foreign : remote[p] = "dir" => remote'[p] = "dir"]_vars

=============================================================================
