--------------------------- MODULE WorkloadHandover ---------------------------
(***************************************************************************)
(* What the migration commands promise about the old workload, without     *)
(* saying how: its containers are stopped and started again only while the *)
(* migration is open, stay as they are once the new stack was accepted,    *)
(* and are deleted only after the new stack was seen ready.  Anybody else  *)
(* may stop and start containers, and is counted by drift.                 *)
(***************************************************************************)
EXTENDS Naturals

CONSTANTS Containers, Migrations, Source

VARIABLES
    container,    \* container[c]: state of an old container
    drift,        \* number of changes made by anybody else
    stage         \* stage[m]: "open", "accepted" or "ready"

hvars == <<container, drift, stage>>

Present == {"running", "restarting", "exited"}

Init ==
    /\ container \in [Containers -> Present]
    /\ drift = 0
    /\ stage = [m \in Migrations |-> "open"]

\* The containers in D, and no other, change from a state in From to To.
Move(D, From, To) ==
    container' = [c \in Containers |->
        IF c \in D /\ container[c] \in From THEN To ELSE container[c]]

Halt(m) ==
    /\ stage[m] = "open"
    /\ \E D \in SUBSET Source[m] : Move(D, {"running", "restarting"}, "exited")
    /\ UNCHANGED <<drift, stage>>

Revive(m) ==
    /\ stage[m] = "open"
    /\ \E D \in SUBSET Source[m] : Move(D, {"exited"}, "running")
    /\ UNCHANGED <<drift, stage>>

HandOver(m) ==
    /\ stage[m] = "open"
    /\ \E x \in {"accepted", "ready"} : stage' = [stage EXCEPT ![m] = x]
    /\ UNCHANGED <<container, drift>>

Discard(m) ==
    /\ stage[m] = "ready"
    /\ \E D \in SUBSET Source[m] : Move(D, {"exited"}, "removed")
    /\ UNCHANGED <<drift, stage>>

\* The migration is over; the next one starts open.
Close(m) ==
    /\ stage' = [stage EXCEPT ![m] = "open"]
    /\ UNCHANGED <<container, drift>>

Drift ==
    /\ drift' = drift + 1
    /\ \A c \in Containers :
          /\ container'[c] \in Present \union {"removed"}
          /\ container'[c] = "removed" <=> container[c] = "removed"
    /\ DOMAIN container' = Containers
    /\ UNCHANGED stage

Next ==
    \/ \E m \in Migrations :
          Halt(m) \/ Revive(m) \/ HandOver(m) \/ Discard(m) \/ Close(m)
    \/ Drift

Spec == Init /\ [][Next]_hvars

=============================================================================
