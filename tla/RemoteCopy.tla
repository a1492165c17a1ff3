-------------------------------- MODULE RemoteCopy --------------------------------
(***************************************************************************)
(* galaxy cp (cmd/cp): a file or a directory is copied into a running      *)
(* container, or out of one, with a request per directory and file, while  *)
(* others change both sides.                                               *)
(***************************************************************************)
EXTENDS Naturals, Sequences, FiniteSets

CONSTANTS
    CopyPaths,    \* the sequence of paths, as a walk visits them; the first is what is copied
    Within,       \* Within[p]: the paths that are a directory on the way to p
    Into,         \* Into[p]: where a file goes that is copied onto the directory p
    Elsewhere,    \* a path that is none of these
    Inner, Outer, \* what files contain, at the source and at the destination
    Fleets,       \* [runtimes, containers] of the project, and which is named, by a flag or not
    MaxTouches    \* bounds what others do

VARIABLES
    from, to,     \* the tree at the source and the one at the destination
    upload,       \* the direction
    target,       \* the container
    copying,      \* "select", "first", "visit", "read", "write", "done", "failed"
    pending,      \* what is still to be visited: path |-> type
    got,          \* what was read of the file in hand
    printed,      \* history: path |-> content of each file reported as copied
    to0,          \* history: the destination as the command found it
    touched,      \* history: the paths that others have changed there
    touches       \* bound: see MaxTouches

copyVars == <<from, to, upload, target, copying, pending, got, printed, to0, touched, touches>>

Spots == {CopyPaths[k] : k \in DOMAIN CopyPaths}
Root == CopyPaths[1]
Texts == Inner \union Outer

ASSUME CopyAssumption ==
    /\ CopyPaths # <<>> /\ CopyPaths \in Seq(Spots) /\ Within \in [Spots -> SUBSET Spots]
    /\ \A p \in Spots : p # Root => Root \in Within[p]
    /\ \A j, k \in DOMAIN CopyPaths : CopyPaths[j] \in Within[CopyPaths[k]] => j < k
    /\ \A p \in Spots : \A q \in Within[p] :
          /\ Within[q] \subseteq Within[p]
          /\ \A r \in Within[p] : r = q \/ r \in Within[q] \/ q \in Within[r]
    /\ Elsewhere \notin Spots /\ Into \in [Spots -> Spots \union {Elsewhere}]
    /\ \A p \in Spots : Into[p] \in Spots => Within[Into[p]] = Within[p] \union {p}
    /\ Texts \intersect {"absent", "dir", "link"} = {} /\ Inner \intersect Outer = {}
    /\ MaxTouches \in Nat

\* "link": a symbolic link to a directory, or anything else that is no file.
NodeTrees(nodes) ==
    {t \in [Spots -> nodes] :
        \A p \in Spots : t[p] # "absent" => \A q \in Within[p] : t[q] = "dir"}

CopyInit ==
    /\ from \in NodeTrees(Inner \union {"absent", "dir", "link"})
    /\ to \in NodeTrees(Outer \union {"absent", "dir"})
    /\ upload \in BOOLEAN
    /\ ~upload => from[Root] # "link"
    /\ target = [name |-> ""]
    /\ copying = "select" /\ pending = [p \in {} |-> "any"] /\ got = "absent"
    /\ printed = [p \in {} |-> "absent"]
    /\ to0 = to /\ touched = {} /\ touches = 0

TreesSame == UNCHANGED <<from, to, upload, to0, touched, touches>>

-----------------------------------------------------------------------------
(* Which container (selectTarget, also of galaxy exec).                      *)

\* A container is running, in a cluster of a runtime; a name given is its own,
\* or, unless it was given by the flag, that of its runtime.
Suitable(f) ==
    LET clusters == {r.cluster : r \in f.runtimes}
        service == {r.service : r \in {x \in f.runtimes : ~f.flag /\ f.named \in {x.name, x.service}}}
    IN {i \in DOMAIN f.containers :
          LET c == f.containers[i]
          IN /\ c.running /\ c.cluster \in clusters
             /\ f.named \in {"", c.name} \/ c.service \in service}

SelectContainer ==
    /\ copying = "select"
    /\ \E f \in Fleets : target' \in {f.containers[i] : i \in Suitable(f)}
    /\ copying' = "first"
    /\ TreesSame /\ UNCHANGED <<pending, got, printed>>

-----------------------------------------------------------------------------
\* The next one to visit, in the order of the walk.
FirstOf(S) == CopyPaths[CHOOSE k \in DOMAIN CopyPaths :
                          CopyPaths[k] \in S /\ \A j \in DOMAIN CopyPaths : CopyPaths[j] \in S => k <= j]
Top == FirstOf(DOMAIN pending)
NoneLeft == DOMAIN pending = {}

\* An upload asks for the type of what it visits, a download was told by the list.
TypeListed(p) == IF upload THEN "any" ELSE from[p]

\* Variant for the mutation runs: what is in a directory is not visited.
NoChildren(p) == {}

\* What is in a directory.
Children(p) ==
    {q \in Spots : p \in Within[q] /\ from[q] # "absent" /\ \A r \in Within[q] : r = p \/ r \in Within[p]}

\* The first one is visited, and the paths S are still to be.
Replaces(S) ==
    pending' = [q \in (DOMAIN pending \ {Top}) \union S |-> IF q \in S THEN TypeListed(q) ELSE pending[q]]

\* os.Stat follows a link, the walk does not: below a link there is nothing.
\* The other way round the container tests for a directory.
VisitFirst ==
    /\ copying = "first"
    /\ from[Root] # "absent"
    /\ pending' = [p \in {Root} |-> TypeListed(p)]
    /\ copying' = "visit"
    /\ TreesSame /\ UNCHANGED <<target, got, printed>>

\* mkdir -p, MkdirAll: fails at a file on the way.
Makes(S) ==
    /\ \A q \in S : to[q] \in {"absent", "dir"}
    /\ to' = [q \in Spots |-> IF q \in S THEN "dir" ELSE to[q]]

TopType == IF pending[Top] = "any" THEN from[Top] ELSE pending[Top]

\* A directory is made, and then listed, which may fail: downloadDir, the function
\* of the walk.  download tests what was listed as a file once more.
VisitDirectory ==
    /\ copying = "visit" /\ ~NoneLeft
    /\ TopType = "dir" \/ (TopType \in Inner /\ from[Top] \in {"dir", "link"})
    /\ Makes(Within[Top] \union {Top})
    /\ \/ /\ from[Top] \in {"dir", "link"}
          /\ Replaces(Children(Top))
          /\ UNCHANGED copying
       \/ copying' = "failed" /\ UNCHANGED pending
    /\ UNCHANGED <<from, upload, target, got, printed, to0, touched, touches>>

\* What is neither a file nor a directory is left out.
SkipOther ==
    /\ copying = "visit" /\ ~NoneLeft
    /\ TopType \notin Inner \union {"dir", "absent"}
    /\ Replaces({})
    /\ TreesSame /\ UNCHANGED <<target, copying, got, printed>>

ReadCopied ==
    /\ copying = "visit" /\ ~NoneLeft
    /\ TopType \in Inner /\ from[Top] \in Inner
    /\ got' = from[Top]
    /\ copying' = "write"
    /\ TreesSame /\ UNCHANGED <<target, pending, printed>>

\* download puts a file into a directory of its name; upload cannot write there.
Landing(p, tree) == IF ~upload /\ tree[p] = "dir" THEN Into[p] ELSE p

MakeCopyParents ==
    /\ copying = "write"
    /\ Makes(Within[Top])
    /\ copying' \in {"put", "failed"}
    /\ UNCHANGED <<from, upload, target, pending, got, printed, to0, touched, touches>>

Reported(p) == [q \in DOMAIN printed \union {p} |-> IF q = p THEN got ELSE printed[q]]

\* The file is written as a whole; the answer to the request may be lost.
PutCopy ==
    /\ copying = "put"
    /\ LET p == Landing(Top, to)
       IN /\ IF p = Elsewhere THEN copying' = "visit" /\ UNCHANGED <<to, printed>>
             ELSE /\ to[p] # "dir" /\ \A q \in Within[p] : to[q] = "dir"
                  /\ to' = [to EXCEPT ![p] = got]
                  /\ \/ copying' = "visit" /\ printed' = Reported(p)
                     \/ copying' = "failed" /\ UNCHANGED printed
          /\ Replaces({}) /\ got' = "absent"
    /\ UNCHANGED <<from, upload, target, to0, touched, touches>>

EndCopy ==
    /\ copying = "visit" /\ NoneLeft
    /\ copying' = "done"
    /\ TreesSame /\ UNCHANGED <<target, pending, got, printed>>

\* The first error ends the command.
FailCopy ==
    /\ copying \notin {"done", "failed"}
    /\ copying' = "failed"
    /\ TreesSame /\ UNCHANGED <<target, pending, got, printed>>

\* Others change one of the sides.
TouchTrees ==
    /\ copying \in {"first", "visit", "write", "put"} /\ touches < MaxTouches
    /\ touches' = touches + 1
    /\ \/ /\ from' \in NodeTrees(Inner \union {"absent", "dir", "link"})
          /\ UNCHANGED <<to, touched>>
       \/ /\ to' \in NodeTrees(Outer \union {"absent", "dir"})
          /\ touched' = touched \union {p \in Spots : to'[p] # to[p]}
          /\ UNCHANGED from
    /\ UNCHANGED <<upload, target, copying, pending, got, printed, to0>>

CopyNext ==
    \/ SelectContainer \/ VisitFirst \/ VisitDirectory \/ SkipOther \/ ReadCopied
    \/ MakeCopyParents \/ PutCopy \/ EndCopy \/ FailCopy \/ TouchTrees

CopySpec == CopyInit /\ [][CopyNext]_copyVars

-----------------------------------------------------------------------------
Landings(p) == Landing(p, to0)

(* What galaxy cp leaves (upload, download).  At the destination nothing is    *)
(* ever lost: what has changed there is a file of the source, or a directory   *)
(* that was needed, but for what others did; every file it has reported is     *)
(* there with the content it was read with, and no other one, unless the       *)
(* command failed.  When it ends well and nobody interfered, all files and     *)
(* directories of the source are there; links, and all that is below one that  *)
(* was named, are left out.                                                    *)
CopiedFaithfully ==
    /\ \A p \in Spots \ touched :
         /\ to[p] \in {to0[p]} \union Inner \union {"dir"}
         /\ to[p] = "dir" => to0[p] \in {"absent", "dir"}
         /\ p \in DOMAIN printed => to[p] = printed[p]
         /\ to[p] \in Inner => to0[p] # "dir" /\ (p \in DOMAIN printed \/ copying = "failed")
    /\ copying = "done" /\ touches = 0 =>
         \A p \in Spots :
            /\ from[p] = "dir" => to[p] = "dir"
            /\ from[p] \in Inner /\ Landings(p) # Elsewhere => to[Landings(p)] = from[p]
            /\ to[p] # to0[p] =>
                 \E q \in Spots : /\ from[q] \in Inner \union {"dir"}
                                  /\ p \in {q, Landings(q)} \union Within[q]

=============================================================================
