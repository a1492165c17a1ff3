-------------------------------- MODULE LogRelay --------------------------------
(***************************************************************************)
(* What watching a build promises: the user is shown the log of the build  *)
(* from its beginning, in order and without a gap, and is told that it is  *)
(* complete only when the build is over and all of it was shown.           *)
(***************************************************************************)
EXTENDS Naturals, Sequences

CONSTANTS Status,     \* of a build
          Final       \* those it does not leave

VARIABLES
    text,             \* the log at the API
    status,
    shown,            \* what the user has seen of it
    told              \* "watching", "complete", "interrupted"

RelayInit ==
    /\ text \in Seq(Nat) /\ status \in Status
    /\ shown = <<>> /\ told = "watching"

\* The build goes on.
Produce ==
    /\ status \notin Final
    /\ status' \in Status
    /\ text' \in Seq(Nat) /\ Len(text') >= Len(text) /\ SubSeq(text', 1, Len(text)) = text
    /\ UNCHANGED <<shown, told>>

Show ==
    /\ told = "watching"
    /\ \E n \in Len(shown) + 1 .. Len(text) : shown' = SubSeq(text, 1, n)
    /\ UNCHANGED <<text, status, told>>

Conclude ==
    /\ told = "watching"
    /\ status \in Final /\ shown = text
    /\ told' = "complete"
    /\ UNCHANGED <<text, status, shown>>

Interrupt ==
    /\ told = "watching"
    /\ told' = "interrupted"
    /\ UNCHANGED <<text, status, shown>>

RelaySpec == RelayInit /\ [][Produce \/ Show \/ Conclude \/ Interrupt]_<<text, status, shown, told>>

=============================================================================
