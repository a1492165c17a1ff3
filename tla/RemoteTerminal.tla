----------------------------- MODULE RemoteTerminal -----------------------------
(***************************************************************************)
(* galaxy exec (cmd/exec, service/container, pkg/utils/term): one request  *)
(* that returns what the command printed, or a terminal over a WebSocket,  *)
(* with a goroutine for each direction and the user's terminal in raw      *)
(* mode.  Which container it is, is chosen as in RemoteCopy.               *)
(***************************************************************************)
EXTENDS Naturals

CONSTANT MaxPieces    \* bounds what is printed and typed

VARIABLES
    options,      \* [single, shell, tty]: no -i and no -t; the command is a shell;
                  \* there is a terminal
    exec,         \* where the command is
    terminal,     \* "cooked" or "raw"
    wire,         \* the WebSocket: "none", "open", or why it ends: "normal",
                  \* "away", "lost"
    program,      \* the command in the container: "none", "running", "passed", "failed"
    written,      \* what the container has written
    shown,        \* what of it is on the screen
    typist,       \* the goroutine that reads the input: "off", "on", "over"
    typed         \* what the container has received

terminalVars == <<options, exec, terminal, wire, program, written, shown, typist, typed>>

Exited == {"passed", "failed"}
ExecEnded == {"done", "failed", "signalled", "killed"}

ASSUME TerminalAssumption == MaxPieces \in Nat

TerminalInit ==
    /\ options \in [single : BOOLEAN, shell : BOOLEAN, tty : BOOLEAN]
    /\ exec = "start" /\ terminal = "cooked" /\ wire = "none" /\ program = "none"
    /\ written = 0 /\ shown = 0 /\ typist = "off" /\ typed = 0

To(from, to) == exec = from /\ exec' = to

-----------------------------------------------------------------------------
(* Without a terminal.                                                       *)

ExecOnce ==
    /\ options.single
    /\ \/ /\ \E r \in Exited, n \in 0 .. MaxPieces :
                /\ program' = r /\ written' = n /\ shown' = n
                /\ To("start", IF r = "passed" THEN "done" ELSE "failed")
       \/ To("start", "failed") /\ UNCHANGED <<program, written, shown>>
    /\ UNCHANGED <<options, terminal, wire, typist, typed>>

-----------------------------------------------------------------------------
(* Interactive.                                                              *)

\* The ticket, and the dial, after which a shell runs in the container.
DialTerminal ==
    /\ ~ options.single
    /\ \/ To("start", "command") /\ wire' = "open" /\ program' = "running"
       \/ To("start", "failed") /\ UNCHANGED <<wire, program>>
    /\ UNCHANGED <<options, terminal, written, shown, typist, typed>>

\* A command other than a shell is typed into the shell, followed by exit.
SendCommand ==
    /\ \/ To("command", "raw")
       \/ ~ options.shell /\ wire # "open" /\ To("command", "failed")
    /\ UNCHANGED <<options, terminal, wire, program, written, shown, typist, typed>>

\* TTY.Safe until it has its signal handler: MakeRaw.
MakeRaw ==
    /\ \/ To("raw", "guard") /\ terminal' = IF options.tty THEN "raw" ELSE "cooked"
       \/ options.tty /\ To("raw", "failed") /\ UNCHANGED terminal
    /\ UNCHANGED <<options, wire, program, written, shown, typist, typed>>

Guard ==
    /\ To("guard", "session")
    /\ typist' = "on"
    /\ UNCHANGED <<options, terminal, wire, program, written, shown, typed>>

\* The goroutine of the output: a message, unless the screen cannot be written
\* or the connection is lost; messages before a close are read before it.
ReadOutput ==
    /\ shown < written
    /\ \/ exec = "session" /\ shown' = shown + 1 /\ UNCHANGED exec
       \/ To("session", "restoreFailed") /\ UNCHANGED shown
    /\ UNCHANGED <<options, terminal, wire, program, written, typist, typed>>

\* A close of the kinds normal and going away is no error.
ReadClose ==
    /\ \/ shown = written /\ wire \in {"normal", "away"} /\ To("session", "restore")
       \/ wire = "lost" /\ To("session", "restoreFailed")
    /\ UNCHANGED <<options, terminal, wire, program, written, shown, typist, typed>>

\* Variant for the mutation runs: the end of the input ends the session.
TypeUntilEnd ==
    /\ typist = "on"
    /\ \/ wire = "open" /\ typed < MaxPieces /\ typed' = typed + 1 /\ UNCHANGED <<exec, typist>>
       \/ To("session", "restore") /\ typist' = "over" /\ UNCHANGED typed
    /\ UNCHANGED <<options, terminal, wire, program, written, shown>>

\* The goroutine of the input: a piece is sent; at its end, or when it cannot
\* be sent, the goroutine ends and tells nobody.
Type ==
    /\ typist = "on"
    /\ \/ wire = "open" /\ typed < MaxPieces /\ typed' = typed + 1 /\ UNCHANGED typist
       \/ typist' = "over" /\ UNCHANGED typed
    /\ UNCHANGED <<options, exec, terminal, wire, program, written, shown>>

\* Variant for the mutation runs: an error returns past the handler.
RestoreOnSuccess ==
    /\ \/ To("restore", "done") /\ terminal' = "cooked"
       \/ To("restoreFailed", "failed") /\ UNCHANGED terminal
    /\ UNCHANGED <<options, wire, program, written, shown, typist, typed>>

\* interrupt.Chain runs RestoreTerminal when the function has returned.
Restore ==
    /\ To("restore", "done") \/ To("restoreFailed", "failed")
    /\ terminal' = "cooked"
    /\ UNCHANGED <<options, wire, program, written, shown, typist, typed>>

\* SIGHUP, SIGINT, SIGTERM, SIGQUIT, once the handler is there.
Signalled ==
    /\ exec \in {"session", "restore", "restoreFailed"}
    /\ exec' = "signalled" /\ terminal' = "cooked"
    /\ UNCHANGED <<options, wire, program, written, shown, typist, typed>>

\* At any other moment, or for good.
KilledExec ==
    /\ exec \notin ExecEnded /\ exec' = "killed"
    /\ UNCHANGED <<options, terminal, wire, program, written, shown, typist, typed>>

-----------------------------------------------------------------------------
(* The container and the API.                                                *)

ContainerWrites ==
    /\ program = "running" /\ wire = "open" /\ written < MaxPieces /\ written' = written + 1
    /\ UNCHANGED <<options, exec, terminal, wire, program, shown, typist, typed>>

\* The shell exits, and the API closes behind what it has written.
ContainerExits ==
    /\ program = "running" /\ wire = "open"
    /\ program' \in Exited /\ wire' = "normal"
    /\ UNCHANGED <<options, exec, terminal, written, shown, typist, typed>>

\* The API is stopped, or the connection is lost.
WireEnds ==
    /\ wire = "open" /\ wire' \in {"away", "lost"}
    /\ UNCHANGED <<options, exec, terminal, program, written, shown, typist, typed>>

TerminalNext ==
    \/ ExecOnce \/ DialTerminal \/ SendCommand \/ MakeRaw \/ Guard
    \/ ReadOutput \/ ReadClose \/ Type \/ Restore \/ Signalled \/ KilledExec
    \/ ContainerWrites \/ ContainerExits \/ WireEnds

TerminalSpec == TerminalInit /\ [][TerminalNext]_terminalVars

-----------------------------------------------------------------------------
(* galaxy exec (Interactive, TTY.Safe).  However input and output, the end of  *)
(* the command in the container, failures and signals meet: the terminal is    *)
(* as it was unless the process was killed; and a command that ends well has   *)
(* shown all that the container wrote until it exited, unless the API was      *)
(* stopped, which is not told from the end of the command.                     *)
SessionIsShown ==
    /\ exec \in ExecEnded \ {"killed"} => terminal = "cooked"
    /\ exec = "done" /\ wire # "away" => program \in Exited /\ shown = written
    /\ exec = "done" /\ options.single => program = "passed"

=============================================================================
