------------------------------- MODULE SelfUpgrade -------------------------------
(***************************************************************************)
(* galaxy upgrade (cmd/upgrade): the new executable is downloaded to a     *)
(* temporary file that is named after its version, compared with the       *)
(* checksum of the platform, renamed over the running one, and only then   *)
(* made executable.  Nothing keeps two upgrades from each other.           *)
(***************************************************************************)
EXTENDS Naturals

CONSTANTS
    Upgrades,       \* runs of the command
    Versions,       \* that the platform offers, one of them installed
    Current         \* the one that is running

VARIABLES
    upgrade,        \* [at, version, file] of each run: where it is, what it writes to
    node,           \* node[u], the file u creates: [whole, runs (may be executed), opener]
    temporary,      \* temporary[v]: whose file is at the path of v
    installed,      \* whose file is the executable
    clash           \* history: two runs of one version at the same time

upgradeVars == <<upgrade, node, temporary, installed, clash>>

Shipped == "shipped"      \* the executable there was before
NoOne == "nobody"

ASSUME UpgradeAssumption ==
    /\ Current \in Versions
    /\ {Shipped, NoOne} \intersect Upgrades = {}

UpgradeInit ==
    /\ upgrade = [u \in Upgrades |-> [at |-> "idle", version |-> Current, file |-> u]]
    /\ node = [u \in Upgrades \union {Shipped} |-> [whole |-> u = Shipped, runs |-> u = Shipped, opener |-> u]]
    /\ temporary = [v \in Versions |-> NoOne]
    /\ installed = Shipped
    /\ clash = FALSE

Under(u) == upgrade[u].at \notin {"idle", "done", "failed", "halfway"}
Steps(u, at) == upgrade' = [upgrade EXCEPT ![u].at = at]
Path(u) == upgrade[u].version
FilesSame == UNCHANGED <<node, temporary, installed>>

\* Run: the platform tells the version; for the one that is running there is
\* nothing to do.
AskVersion(u) ==
    /\ upgrade[u].at = "idle"
    /\ \E v \in Versions :
          /\ upgrade' = [upgrade EXCEPT ![u] = [at |-> IF v = Current THEN "done" ELSE "look",
                                               version |-> v, file |-> u]]
          /\ clash' = (clash \/ \E w \in Upgrades \ {u} : Under(w) /\ Path(w) = v)
    /\ FilesSame

\* Download: a file that is there is removed; one that another run has created
\* since is emptied, and then both write to it.
RemoveOld(u) ==
    /\ upgrade[u].at = "look"
    /\ temporary' = [temporary EXCEPT ![Path(u)] = NoOne]
    /\ Steps(u, "open")
    /\ UNCHANGED <<node, installed, clash>>

CreateTemporary(u) ==
    /\ upgrade[u].at = "open"
    /\ LET f == IF temporary[Path(u)] = NoOne THEN u ELSE temporary[Path(u)]
       IN /\ temporary' = [temporary EXCEPT ![Path(u)] = f]
          /\ node' = [node EXCEPT ![f] = [@ EXCEPT !.whole = FALSE, !.opener = u]]
          /\ upgrade' = [upgrade EXCEPT ![u].at = "copy", ![u].file = f]
    /\ UNCHANGED <<installed, clash>>

\* io.Copy; what arrives may be something else than what was announced, and what
\* another run has emptied in between has a hole.
CopyDownload(u) ==
    /\ upgrade[u].at = "copy"
    /\ \E sound \in BOOLEAN :
          node' = [node EXCEPT ![upgrade[u].file].whole = @ \/ (sound /\ node[upgrade[u].file].opener = u)]
    /\ Steps(u, "check")
    /\ UNCHANGED <<temporary, installed, clash>>

\* Variant for the mutation runs: a file that is there passes.
CheckPresence(u) ==
    /\ upgrade[u].at = "check"
    /\ Steps(u, IF temporary[Path(u)] # NoOne THEN "move" ELSE "failed")
    /\ UNCHANGED clash /\ FilesSame

\* Check: the checksum of what is at the path; no file there is a panic.
CheckSum(u) ==
    /\ upgrade[u].at = "check"
    /\ Steps(u, IF temporary[Path(u)] # NoOne /\ node[temporary[Path(u)]].whole THEN "move" ELSE "failed")
    /\ UNCHANGED clash /\ FilesSame

\* Replace: the rename, then the mode.
MoveOver(u) ==
    /\ upgrade[u].at = "move"
    /\ IF temporary[Path(u)] = NoOne THEN Steps(u, "failed") /\ UNCHANGED <<temporary, installed>>
       ELSE /\ installed' = temporary[Path(u)]
            /\ temporary' = [temporary EXCEPT ![Path(u)] = NoOne]
            /\ Steps(u, "chmod")
    /\ UNCHANGED <<node, clash>>

MakeExecutable(u) ==
    /\ upgrade[u].at = "chmod"
    /\ node' = [node EXCEPT ![installed].runs = TRUE]
    /\ Steps(u, "done")
    /\ UNCHANGED <<temporary, installed, clash>>

\* A request or a file operation fails; or the process is killed.
StopUpgrade(u) ==
    /\ Under(u)
    /\ Steps(u, IF upgrade[u].at = "chmod" THEN "halfway" ELSE "failed")
    /\ UNCHANGED clash /\ FilesSame

UpgradeNext ==
    \E u \in Upgrades :
        \/ AskVersion(u) \/ RemoveOld(u) \/ CreateTemporary(u) \/ CopyDownload(u) \/ CheckSum(u)
        \/ MoveOver(u) \/ MakeExecutable(u) \/ StopUpgrade(u)

UpgradeSpec == UpgradeInit /\ [][UpgradeNext]_upgradeVars

-----------------------------------------------------------------------------
(* The executable (Download, Check, Replace).  Whatever arrives, and wherever  *)
(* a run fails or is killed, it is at all times the one that was there or one  *)
(* that has passed the check, with runs to different versions at once; it may  *)
(* be executed but while a run is between the rename and the mode, or was      *)
(* killed there.  Two runs to the same version share the temporary file, and   *)
(* then neither is true.                                                       *)
ExecutableIsWhole ==
    ~clash =>
        /\ node[installed].whole
        /\ (\A u \in Upgrades : upgrade[u].at \notin {"chmod", "halfway"}) => node[installed].runs
        /\ \A u \in Upgrades : upgrade[u].at = "done" /\ Path(u) # Current => installed # Shipped

=============================================================================
