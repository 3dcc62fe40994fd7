---------------------------- MODULE MCQueuePairs ----------------------------
(***************************************************************************)
(* Two instances of CommandQueue in one run.  In the one a pair of request *)
(* threads polls and takes reports beside one engine, which may die; in    *)
(* the other a pair of engines, which do not, publishes beside one thread  *)
(* for an EA whose reports never come, and a CLOSE_FULL joins the OPENs.   *)
(***************************************************************************)
EXTENDS MCCommandQueue

VARIABLE pair

Busy == {w \in Workers : worker[w] # Idle}

\* Bounds: only e1 publishes, and only OPENs.
ThreadsOnly == engine'[e2] = Idle /\ status'[f1] = "ABSENT"

\* Bounds: one thread at a time, which takes no report, and no engine dies.
EnginesOnly ==
    /\ Cardinality(Busy') <= 1
    /\ \A w \in Workers : worker'[w].op \in {"idle", "fetch"}
    /\ ~ \E e \in Engines : OpenAbort(e)

PairsSpec ==
    /\ Init /\ pair \in {"threads", "engines"}
    /\ [][/\ Next
          /\ IF pair = "threads" THEN ThreadsOnly ELSE EnginesOnly
          /\ UNCHANGED pair]_<<vars, pair>>

\* CancelledHasSuccessor, of the engines that do not die.
PairHasSuccessor == pair = "engines" => CancelledHasSuccessor

PairsSymmetry == Permutations({o1, o2}) \cup Permutations(Workers)
=============================================================================
