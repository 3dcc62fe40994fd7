--------------------------- MODULE TokenLifecycle ---------------------------
(***************************************************************************)
(* What a session token is to the rest of the system: it is handed out at  *)
(* most once, it speaks for one holder as long as it lives, and once it    *)
(* has ended it never speaks for anybody again.  Several tokens may end    *)
(* together (one DELETE of many rows).                                     *)
(***************************************************************************)
CONSTANTS Tokens, Holders, Nobody

VARIABLES phase, holder

Init ==
    /\ phase = [t \in Tokens |-> "unused"]
    /\ holder = [t \in Tokens |-> Nobody]

Grant(t, h) ==
    /\ phase[t] = "unused"
    /\ phase' = [phase EXCEPT ![t] = "live"]
    /\ holder' = [holder EXCEPT ![t] = h]

End(S) ==
    /\ \A t \in S : phase[t] = "live"
    /\ phase' = [t \in Tokens |-> IF t \in S THEN "gone" ELSE phase[t]]
    /\ UNCHANGED holder

Next ==
    \/ \E t \in Tokens, h \in Holders : Grant(t, h)
    \/ \E S \in SUBSET Tokens : End(S)

Spec == Init /\ [][Next]_<<phase, holder>>
=============================================================================
