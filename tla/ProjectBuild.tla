------------------------------ MODULE ProjectBuild ------------------------------
(***************************************************************************)
(* galaxy build and galaxy watch build (cmd/build, cmd/watch,              *)
(* service/build): which version is built, and how its log reaches the     *)
(* screen.  A goroutine fetches the log again and again, sends what is new *)
(* on a channel, and closes it; the command prints what it receives.       *)
(***************************************************************************)
EXTENDS Naturals, Sequences

CONSTANTS
    Tags,           \* the tags of the repository
    Heads,          \* <<branch, commit>>: what may be checked out
    Unnamed,        \* no branch, commit, tag or build
    Capacity,       \* of the channel, 512 in the code
    MaxText         \* bounds the log

VARIABLES
    head,           \* what is checked out
    naming,         \* how the user names the version: argument and flags
    version,        \* what the command has made of it
    ci,             \* the build at the API
    watcher,        \* where the goroutine is, what it fetched and sent
    channel,
    screen,         \* the pieces of log printed
    step            \* where the command is

buildVars == <<head, naming, version, ci, watcher, channel, screen, step>>

Branches == {h[1] : h \in Heads}
Commits == {h[2] : h \in Heads}
Missing == "missing"     \* a tag or commit the repository does not have

BuildStatus == {"pending", "running", "success", "failed"}
FinalStatus == {"success", "failed"}

ASSUME BuildAssumption ==
    /\ Capacity \in Nat \ {0} /\ MaxText \in Nat
    /\ Unnamed \notin Tags \union Branches \union Commits \union {Missing}
    /\ Missing \notin Tags \union Commits

Namings == [argument : {"none", "fast", "x#1", "x#y", "branch:commit", "tag"},
            tag : Tags \union {Unnamed, Missing},
            commit : Commits \union {Unnamed, Missing}]

NoVersion == [branch |-> Unnamed, commit |-> Unnamed, tag |-> Unnamed]
NoLog == [text |-> <<>>, status |-> "pending"]
Silent == [at |-> "idle", current |-> NoLog, sent |-> 0, broken |-> FALSE]
FirstLines(n) == [i \in 1 .. n |-> i]

\* A build is started by the command, or watched at any time of its life.
BuildInit ==
    /\ head \in Heads
    /\ version = NoVersion /\ watcher = Silent /\ channel = <<>> /\ screen = <<>>
    /\ \/ /\ step = "complete" /\ ci = NoLog
          /\ naming \in Namings
          /\ naming.argument \in {"branch:commit", "tag"} => naming.tag # Unnamed /\ naming.commit # Unnamed
       \/ /\ step = "connect"
          /\ naming = [argument |-> "none", tag |-> Unnamed, commit |-> Unnamed]
          /\ ci \in {[text |-> FirstLines(n), status |-> s] : n \in 0 .. MaxText, s \in BuildStatus}

Goes(s) == step' = s /\ UNCHANGED <<ci, watcher, channel, screen>>

-----------------------------------------------------------------------------
(* The version (Options.Complete, Validate).                                 *)

\* The flags, or the argument: "x#y" is neither a number nor refused, and a
\* version that names branch and commit leaves the flag --tag as it is.
CompleteVersion ==
    /\ step = "complete"
    /\ LET named == [NoVersion EXCEPT !.tag = naming.tag, !.commit = naming.commit]
       IN CASE naming.argument = "fast" ->
                  /\ version' = named /\ Goes("branch")
            [] naming.argument = "x#1" ->
                  /\ version' = named /\ Goes("request")
            [] naming.argument = "x#y" ->
                  /\ version' = named /\ Goes("validate")
            [] naming.argument = "branch:commit" ->
                  /\ \E b \in Branches : version' = [named EXCEPT !.branch = b]
                  /\ Goes("validate")
            [] naming.argument = "tag" \/ (naming.tag # Unnamed /\ naming.commit = Unnamed) ->
                  /\ version' = named                                   \* procTag
                  /\ Goes(IF naming.tag = Missing THEN "failed" ELSE "validate")
            [] naming.argument = "none" /\ naming.tag = Unnamed ->
                  /\ version' = named /\ Goes("branch")
            [] OTHER ->
                  /\ UNCHANGED version /\ Goes("failed")
    /\ UNCHANGED <<head, naming>>

\* procCommitID: first the branch that is checked out, then the commit, the one
\* of the flag if there is one.
ReadBranch ==
    /\ step = "branch"
    /\ version' = [version EXCEPT !.branch = head[1]]
    /\ Goes("commit")
    /\ UNCHANGED <<head, naming>>

ReadCommit ==
    /\ step = "commit"
    /\ version' = [version EXCEPT !.commit = IF @ = Unnamed THEN head[2] ELSE @]
    /\ Goes(IF version.commit = Missing THEN "failed"
            ELSE IF naming.argument = "fast" THEN "request" ELSE "validate")
    /\ UNCHANGED <<head, naming>>

\* A tag stands for branch and commit; a commit must exist.
ValidateVersion ==
    /\ step = "validate"
    /\ IF version.tag # Unnamed
       THEN /\ version' = [version EXCEPT !.branch = version.tag, !.commit = Unnamed]
            /\ Goes(IF version.tag = Missing THEN "failed" ELSE "request")
       ELSE /\ Goes(IF version.commit = Missing THEN "failed" ELSE "request")
            /\ UNCHANGED version
    /\ UNCHANGED <<head, naming>>

\* build and reBuild, the pipeline chosen; without a project, a pipeline or an
\* answer of the API the command fails.
RequestBuild ==
    /\ step = "request"
    /\ \E s \in {"connect", "failed"} : Goes(s)
    /\ UNCHANGED <<head, naming, version>>

\* git checkout or commit, in another terminal.
Checkout ==
    /\ step \in {"branch", "commit"}
    /\ head' \in Heads
    /\ UNCHANGED <<naming, version, ci, watcher, channel, screen, step>>

-----------------------------------------------------------------------------
(* The log (Service.BuildLogWatch).                                          *)

CommandSame == UNCHANGED <<head, naming, version>>

\* The API: the log of a build grows until the build is over.
CIWorks ==
    /\ step \in {"connect", "print"}
    /\ ci.status \notin FinalStatus
    /\ \/ Len(ci.text) < MaxText /\ ci' = [ci EXCEPT !.text = Append(@, Len(@) + 1)]
       \/ \E s \in BuildStatus \ {"pending", ci.status} : ci' = [ci EXCEPT !.status = s]
    /\ CommandSame /\ UNCHANGED <<watcher, channel, screen, step>>

\* The first request is made before the goroutine starts.
Connect ==
    /\ step = "connect"
    /\ \/ step' = "print" /\ watcher' = [watcher EXCEPT !.at = "send", !.current = ci]
       \/ step' = "failed" /\ UNCHANGED watcher
    /\ CommandSame /\ UNCHANGED <<ci, channel, screen>>

Free == Len(channel) < Capacity

\* Variant for the mutation runs: every answer is sent from its beginning.
SendAll ==
    /\ watcher.at = "send"
    /\ IF watcher.current.text = <<>> THEN UNCHANGED channel
       ELSE Free /\ channel' = Append(channel, watcher.current.text)
    /\ watcher' = [watcher EXCEPT !.at = "sent", !.sent = Len(watcher.current.text)]
    /\ CommandSame /\ UNCHANGED <<ci, screen, step>>

\* What follows what is already sent; the channel may be full.
SendNew ==
    /\ watcher.at = "send"
    /\ LET new == SubSeq(watcher.current.text, watcher.sent + 1, Len(watcher.current.text))
       IN IF new = <<>> THEN UNCHANGED channel /\ watcher' = [watcher EXCEPT !.at = "sent"]
          ELSE /\ Free
               /\ channel' = Append(channel, new)
               /\ watcher' = [watcher EXCEPT !.at = "sent", !.sent = Len(watcher.current.text)]
    /\ CommandSame /\ UNCHANGED <<ci, screen, step>>

\* The build is over: its error, if it has one, is the last thing sent.
CheckStatus ==
    /\ watcher.at = "sent"
    /\ watcher' = [watcher EXCEPT !.at = IF watcher.current.status \in FinalStatus THEN "closed" ELSE "sleep"]
    /\ CommandSame /\ UNCHANGED <<ci, channel, screen, step>>

\* The next request; an answer may carry no log.  An error is printed like a
\* line of the log, and the command ends as if the build were over.
FetchAgain ==
    /\ watcher.at = "sleep"
    /\ \/ watcher' = [watcher EXCEPT !.at = "send", !.current = ci]
       \/ UNCHANGED watcher
       \/ watcher' = [watcher EXCEPT !.at = "closed", !.broken = TRUE]
    /\ CommandSame /\ UNCHANGED <<ci, channel, screen, step>>

\* buildLog, BuildLogOutput: print what arrives until the channel is closed.
PrintPiece ==
    /\ step = "print"
    /\ channel # <<>>
    /\ screen' = screen \o Head(channel)
    /\ channel' = Tail(channel)
    /\ CommandSame /\ UNCHANGED <<ci, watcher, step>>

EndOfLog ==
    /\ step = "print"
    /\ watcher.at = "closed" /\ channel = <<>>
    /\ step' = "done"
    /\ CommandSame /\ UNCHANGED <<ci, watcher, channel, screen>>

BuildNext ==
    \/ CompleteVersion \/ ReadBranch \/ ReadCommit \/ ValidateVersion \/ RequestBuild \/ Checkout
    \/ CIWorks \/ Connect \/ SendNew \/ CheckStatus \/ FetchAgain \/ PrintPiece \/ EndOfLog

BuildSpec == BuildInit /\ [][BuildNext]_buildVars

-----------------------------------------------------------------------------
Relay == INSTANCE LogRelay WITH
    Status <- BuildStatus, Final <- FinalStatus,
    text <- ci.text, status <- ci.status, shown <- screen,
    told <- IF step = "failed" \/ (step = "done" /\ watcher.broken) THEN "interrupted"
            ELSE IF step = "done" THEN "complete" ELSE "watching"

(* The log on the screen (BuildLogWatch, buildLog): through offsets into a   *)
(* growing text, a bounded channel and a second goroutine, what is printed   *)
(* is at all times the log from its first line on, each line once and in     *)
(* order; the command ends either after all of the log of a build that is    *)
(* over, or because a request failed.                                        *)
ImplementsLogRelay == Relay!RelaySpec

=============================================================================
