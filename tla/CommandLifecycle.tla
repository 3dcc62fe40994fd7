-------------------------- MODULE CommandLifecycle --------------------------
(***************************************************************************)
(* What the command queue promises of every command, without saying how:   *)
(* it is written once, it is open until it is closed, and closed is        *)
(* final.  A command is queued when a poll may serve it and parked when it *)
(* is waiting in a status no poll looks for; several commands may close    *)
(* together (one UPDATE of many rows).                                     *)
(***************************************************************************)
CONSTANT Commands

VARIABLE phase

Phases == {"absent", "queued", "parked", "closed"}

Init == phase = [c \in Commands |-> "absent"]

In(p) == {c \in Commands : phase[c] = p}

Enter(c, p) ==
    /\ phase[c] = "absent"
    /\ phase' = [phase EXCEPT ![c] = p]

Close(S) ==
    /\ S # {}
    /\ phase' = [c \in Commands |-> IF c \in S THEN "closed" ELSE phase[c]]

CloseSome(c, p) == \E S \in SUBSET In(p) : c \in S /\ Close(S)

Next ==
    \E c \in Commands, p \in {"queued", "parked"} :
        Enter(c, p) \/ CloseSome(c, p)

Spec == Init /\ [][Next]_phase

\* A queued command is not left open forever.
FairSpec == Spec /\ \A c \in Commands : WF_phase(CloseSome(c, "queued"))
=============================================================================
