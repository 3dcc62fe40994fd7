--------------------------- MODULE MCCommandQueue ---------------------------
(* Small instances of CommandQueue: values for its constants, nothing else. *)
EXTENDS CommandQueue, TLC

CONSTANTS a1, a2, e1, e2, o1, o2, o3, m1, f1, p1, LongTtl

\* Commands are named for their kind: o (OPEN), m (MODIFY_SL), f (CLOSE_FULL)
\* and p (CLOSE_PARTIAL).
MCKindOf ==
    [c \in Commands |-> CASE c \in {o1, o2, o3} -> "OPEN"
                          [] c = m1 -> "MODIFY_SL"
                          [] c = f1 -> "CLOSE_FULL"
                          [] c = p1 -> "CLOSE_PARTIAL"]

\* m1 is for a2, everything else for a1.
MCAccountOf == [c \in Commands |-> IF c = m1 THEN a2 ELSE a1]

\* The code's 10, 5, 3 and 2 minutes, in their order.
MCTtl == [k \in Kinds |-> CASE k = "OPEN" -> LongTtl [] OTHER -> 1]
=============================================================================
