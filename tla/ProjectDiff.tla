------------------------------ MODULE ProjectDiff ------------------------------
(***************************************************************************)
(* galaxy diff (cmd/projectdiff/diff.go): the files Git reports as changed *)
(* are compared with those of a running container.  It has its beginning   *)
(* in common with galaxy sync (ProjectSync) and writes nothing; per file   *)
(* the working tree is read once and the container asked twice.            *)
(***************************************************************************)
EXTENDS ProjectSync

VARIABLES
    diffing,      \* "off", the step for the file in hand, "compared", "failed"
    hold,         \* what readLocalFile returned for it
    verdict,      \* verdict[p]: what is shown of p
    sawLocal,     \* history: sawLocal[p]: what p has been in the working tree
    sawRemote     \* history: sawRemote[p]: what it has been in the container

diffVars == <<diffing, hold, verdict, sawLocal, sawRemote>>

\* What a command that looks for a regular file finds.
RemoteFile(p) == IF remote[p] \in Contents THEN remote[p] ELSE "absent"

DiffInit ==
    /\ diffing = "off" /\ hold = "absent"
    /\ verdict = [p \in Paths |-> "none"]
    /\ sawLocal = [p \in Paths |-> {WorkFile(p)}]
    /\ sawRemote = [p \in Paths |-> {RemoteFile(p)}]

-----------------------------------------------------------------------------
Seen == UNCHANGED <<local, remote, start, foreign, wrote, changes, sawLocal, sawRemote>>

DiffFails == diffing' = "failed" /\ UNCHANGED <<hold, verdict, pos>>

\* gitChangedFiles, selectTarget and resolveRemoteRoot are those of sync.
StartDiff ==
    /\ \/ ReadChanges \/ SelectTarget
    /\ diffing' = IF pc' = "plan" THEN "local" ELSE "off"
    /\ UNCHANGED <<hold, verdict, sawLocal, sawRemote>>

NextFile ==
    IF pos < Len(Order) THEN pos' = pos + 1 /\ diffing' = "local"
                        ELSE pos' = pos /\ diffing' = "compared"

\* Variant for the mutation runs: what Git calls deleted is not looked for.
CompareLocalAsReported ==
    /\ diffing = "local"
    /\ LET p == Order[pos] IN
       \/ item[p] = "none" /\ NextFile /\ UNCHANGED <<hold, verdict>>
       \/ /\ item[p] # "none" /\ Stat(p) \in Ours \union {"absent"}
          /\ hold' = IF item[p] = "deleted" THEN "absent" ELSE Stat(p)
          /\ diffing' = "exists"
          /\ UNCHANGED <<verdict, pos>>
       \/ item[p] # "none" /\ DiffFails
    /\ UNCHANGED <<pc, item, sent>> /\ Seen

\* readLocalFile, for a path that Git has reported.
CompareLocal ==
    /\ diffing = "local"
    /\ LET p == Order[pos] IN
       \/ item[p] = "none" /\ NextFile /\ UNCHANGED <<hold, verdict>>
       \/ /\ item[p] # "none" /\ Stat(p) \in Ours \union {"absent"}
          /\ hold' = Stat(p)
          /\ diffing' = "exists"
          /\ UNCHANGED <<verdict, pos>>
       \/ item[p] # "none" /\ DiffFails
    /\ UNCHANGED <<pc, item, sent>> /\ Seen

Judge(v) == verdict' = [verdict EXCEPT ![Order[pos]] = v] /\ NextFile /\ UNCHANGED hold

\* remoteFileExists: test -f.
CompareExists ==
    /\ diffing = "exists"
    /\ \/ RemoteFile(Order[pos]) # "absent" /\ diffing' = "content" /\ UNCHANGED <<hold, verdict, pos>>
       \/ RemoteFile(Order[pos]) = "absent"
          /\ Judge(IF hold = "absent" THEN "both absent" ELSE "missing")
       \/ DiffFails
    /\ UNCHANGED <<pc, item, sent>> /\ Seen

\* ReadFile, and the comparison.
CompareContent ==
    /\ diffing = "content"
    /\ \/ /\ RemoteFile(Order[pos]) # "absent"
          /\ Judge(IF hold = "absent" THEN "deleted"
                   ELSE IF hold = RemoteFile(Order[pos]) THEN "same" ELSE "different")
       \/ DiffFails
    /\ UNCHANGED <<pc, item, sent>> /\ Seen

-----------------------------------------------------------------------------
DiffEnded == diffing \in {"compared", "failed"} \/ pc \in Ended

Look ==
    /\ sawLocal' = [p \in Paths |-> sawLocal[p] \union {WorkFile(p)'}]
    /\ sawRemote' = [p \in Paths |-> sawRemote[p] \union {RemoteFile(p)'}]
    /\ UNCHANGED <<diffing, hold, verdict>>

\* Somebody syncs the working tree, or a part of it, to the container.
OthersSync ==
    /\ changes < MaxChanges
    /\ changes' = changes + 1
    /\ remote' \in {t \in Trees(Contents) : \A p \in Paths : t[p] \in {remote[p], local[p]}}
    /\ foreign' = foreign \union {p \in Paths : remote'[p] # remote[p]}
    /\ UNCHANGED <<pc, local, item, pos, sent, start, wrote>>

MeanwhileDiff ==
    /\ ~ DiffEnded
    /\ EditLocal \/ OthersWrite \/ OthersSync
    /\ Look

DiffNext == StartDiff \/ CompareLocal \/ CompareExists \/ CompareContent \/ MeanwhileDiff

DiffSpec == SyncInit /\ DiffInit /\ [][DiffNext]_<<vars, diffVars>>

-----------------------------------------------------------------------------
(* galaxy diff.  However tree and container change: every file that Git        *)
(* reported has a verdict, it is about contents that both sides had during the *)
(* run, a file that differed all the time is not called the same and one that  *)
(* was the same all the time not different; and the container was not touched. *)
ComparedTruly ==
    /\ ~ wrote /\ \A p \in Paths \ foreign : remote[p] = start[p]
    /\ diffing = "compared" => \A p \in Paths :
          LET ours == sawLocal[p] \ {"absent"}
              theirs == sawRemote[p] \ {"absent"}
          IN CASE verdict[p] = "none" -> item[p] = "none"
               [] verdict[p] = "same" -> ours \intersect theirs # {}
               [] verdict[p] = "different" -> \E c \in ours, d \in theirs : c # d
               [] verdict[p] = "deleted" -> "absent" \in sawLocal[p] /\ theirs # {}
               [] verdict[p] = "missing" -> ours # {} /\ "absent" \in sawRemote[p]
               [] verdict[p] = "both absent" ->
                     "absent" \in sawLocal[p] /\ "absent" \in sawRemote[p]

=============================================================================
