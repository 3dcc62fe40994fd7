-------------------------- MODULE SupervisorProofs --------------------------
(***************************************************************************)
(* Proofs about Supervisor, for any positions, stops, prices and fee.      *)
(***************************************************************************)
EXTENDS Supervisor, TLAPS

(* ----------------------------- Stop levels ------------------------------ *)

LEMMA LevelFacts ==
    ASSUME NEW t \in Tickets
    PROVE  /\ Side(t) \in Sides
           /\ Entry(t) \in Int /\ Entry(t) \in Prices
           /\ InitialSl(Plan[t]) \in Int
           /\ Protective(t) \in Int
<1> DEFINE p == Plan[t]
<1>1. /\ p.side \in Sides /\ p.entry \in Int /\ p.entry \in Prices /\ p.distance \in Nat
      /\ p.structure \in Int \cup {NoLevel} /\ Fee \in Nat
  BY SupervisorConstantsOK
<1>2. InitialSl(p) \in Int
  BY <1>1 DEF InitialSl
<1>3. ProtectiveSl(p.side, p.entry) \in Int
  BY <1>1 DEF ProtectiveSl
<1> QED
  BY <1>1, <1>2, <1>3 DEF Side, Entry, Protective

\* A move that is due has its stop behind the price, from whatever stop the
\* risk is measured, if 0.8 of that risk is more than the fee buffer.
LEMMA MoveBehindPrice ==
    ASSUME NEW t \in Tickets, NEW current \in Int, NEW sl \in Int,
           4 * Abs(Entry(t) - sl) > 5 * Fee,
           Protection(Side(t), Entry(t), current, sl) = "modify"
    PROVE  Behind(Side(t), Protective(t), current)
<1>1. Progressed(Side(t), Entry(t), current, sl)
  BY DEF Protection
<1>2. 5 * Profit(Side(t), Entry(t), current) > 5 * Fee
  BY <1>1, LevelFacts, SupervisorConstantsOK DEF Progressed, Profit, Abs
<1> QED
  BY <1>2, LevelFacts, SupervisorConstantsOK DEF Profit, Behind, Protective, ProtectiveSl, Sides

(* ------------------------------- Types ---------------------------------- *)

PositionRows == [state : {"none", "open", "gone"}, sl : Int]

Supervising ==
    [at : {"signal", "reversal", "protect"}, ticket : Tickets,
     move : {"none", "raise", "modify"}, seen : Sides \cup {"none"}]

LEMMA RunKinds == RunStates = {IdleRun} \cup Supervising
BY DEF RunStates, Supervising

LEMMA SupervisingRun ==
    ASSUME run \in RunStates, run # IdleRun
    PROVE  run \in Supervising
BY RunKinds

\* A run that is somewhere is not at rest.
LEMMA RunSomewhere ==
    ASSUME run \in RunStates, run.at \in {"signal", "reversal", "protect"}
    PROVE  run \in Supervising /\ run # IdleRun
BY RunKinds DEF IdleRun

LEMMA RunReads ==
    ASSUME NEW r \in Supervising, NEW side \in Sides \cup {"none"}
    PROVE  /\ [r EXCEPT !.at = "reversal", !.seen = side] \in Supervising
           /\ [r EXCEPT !.at = "reversal"] \in Supervising
           /\ [r EXCEPT !.at = "protect", !.seen = "none"] \in Supervising
BY DEF Supervising

\* What ends is replaced by a row of the table's type.
LEMMA EndTypes ==
    ASSUME SupTypeOK, NEW ended \in SUBSET Tickets, End(ended)
    PROVE  /\ position' \in [Tickets -> PositionRows]
           /\ contrary' \subseteq Tickets
<1>1. ASSUME NEW t \in Tickets PROVE Gone(t) \in PositionRows /\ position[t] \in PositionRows
  BY LevelFacts DEF Gone, PositionRows, SupTypeOK
<1> QED
  BY <1>1 DEF End, SupTypeOK

LEMMA SetStopsTypes ==
    ASSUME SupTypeOK, NEW moved \in SUBSET Tickets, NEW level \in Int, SetStops(moved, level)
    PROVE  position' \in [Tickets -> PositionRows]
<1>1. ASSUME NEW t \in Tickets
      PROVE  [position[t] EXCEPT !.sl = level] \in PositionRows /\ position[t] \in PositionRows
  BY DEF PositionRows, SupTypeOK
<1> QED
  BY <1>1 DEF SetStops

LEMMA SupTypesInit == SupInit => SupTypeOK
<1> SUFFICES ASSUME SupInit PROVE SupTypeOK
  OBVIOUS
<1>1. \A t \in Tickets : NoPosition(t) \in PositionRows
  BY LevelFacts DEF NoPosition, PositionRows
<1> QED
  BY <1>1, SupervisorConstantsOK DEF SupInit, SupTypeOK, RunStates, PositionRows

LEMMA SupTypesStep == SupTypeOK /\ [SupNext]_supVars => SupTypeOK'
<1> SUFFICES ASSUME SupTypeOK, [SupNext]_supVars PROVE SupTypeOK'
  OBVIOUS
<1> USE SupervisorConstantsOK DEF SupTypeOK
<1>1. CASE PriceMove
  <2>1. PICK p \in Prices \ {price} :
           /\ price' = p
           /\ End({t \in OpenOnes : ~ Behind(Side(t), position[t].sl, p)})
           /\ UNCHANGED <<latest, commands, run>>
    BY <1>1 DEF PriceMove
  <2>2. {t \in OpenOnes : ~ Behind(Side(t), position[t].sl, p)} \in SUBSET Tickets
    BY DEF OpenOnes
  <2> QED
    BY <2>1, <2>2, EndTypes DEF PositionRows
<1>2. CASE DropCommand
  BY <1>2 DEF DropCommand
<1>3. ASSUME NEW side \in Sides \cup {"none"}, InsertSignal(side) PROVE SupTypeOK'
  BY <1>3 DEF InsertSignal, OpenOnes
<1>4. ASSUME NEW t \in Tickets, Open(t) PROVE SupTypeOK'
  BY <1>4 DEF Open
<1>5. ASSUME NEW t \in Tickets, MoveStopByHand(t) PROVE SupTypeOK'
  <2>1. PICK level \in Prices : SetStops({t}, level)
    BY <1>5 DEF MoveStopByHand
  <2> QED
    BY <1>5, <2>1, SetStopsTypes DEF MoveStopByHand, PositionRows
<1>6. CASE ExecuteClose
  <2>1. PICK c \in commands, closed \in SUBSET OpenOnes :
           /\ End(closed)
           /\ commands' \in {commands, commands \ {c}}
           /\ UNCHANGED <<price, latest, run>>
    BY <1>6 DEF ExecuteClose
  <2>2. closed \in SUBSET Tickets
    BY DEF OpenOnes
  <2> QED
    BY <2>1, <2>2, EndTypes DEF PositionRows
<1>7. CASE ExecuteModify
  <2>1. PICK c \in commands, moved \in SUBSET OpenOnes :
           /\ SetStops(moved, Protective(c.ticket))
           /\ commands' \in {commands, commands \ {c}}
           /\ UNCHANGED <<price, latest, run, contrary>>
    BY <1>7 DEF ExecuteModify
  <2>2. moved \in SUBSET Tickets /\ Protective(c.ticket) \in Int
    BY LevelFacts DEF OpenOnes, CommandRows
  <2> QED
    BY <2>1, <2>2, SetStopsTypes DEF PositionRows
<1>8. ASSUME NEW t \in Tickets, RunStart(t) PROVE SupTypeOK'
  <2>1. \A sl : RuleTwo(t, sl) \in {"none", "raise", "modify"}
    BY DEF RuleTwo, Protection
  <2> QED
    BY <1>8, <2>1 DEF RunStart, RunStates
<1>9. CASE ReadSignal
  BY <1>9, RunSomewhere, RunReads, RunKinds DEF ReadSignal
<1>10. CASE ReadSignalFails
  BY <1>10, RunSomewhere, RunReads, RunKinds DEF ReadSignalFails
<1>11. CASE NoReversal
  BY <1>11, RunSomewhere, RunReads, RunKinds DEF NoReversal
<1>12. CASE PublishClose \/ PublishCloseFails
  <2>1. run \in Supervising
    BY <1>12, RunSomewhere DEF PublishClose, PublishCloseFails
  <2>2. CloseFull(run.ticket) \in CommandRows
    BY <2>1 DEF Supervising, CloseFull, CommandRows
  <2>3. run' \in RunStates
    BY <1>12, <2>1, RunReads, RunKinds DEF PublishClose, PublishCloseFails
  <2> QED
    BY <1>12, <2>2, <2>3 DEF PublishClose, PublishCloseFails
<1>13. CASE Protect
  <2>1. ModifySl(run.ticket) \in CommandRows
    BY <1>13, RunSomewhere DEF Protect, Supervising, ModifySl, CommandRows
  <2> QED
    BY <1>13, <2>1 DEF Protect, RunStates
<1>14. CASE UNCHANGED supVars
  BY <1>14 DEF supVars
<1> QED
  BY <1>1, <1>2, <1>3, <1>4, <1>5, <1>6, <1>7, <1>8, <1>9, <1>10, <1>11, <1>12, <1>13,
     <1>14 DEF SupNext, SignalSides, Supervise

\* The types of the supervisor are kept by every step.
THEOREM SupTypes == SupSpec => []SupTypeOK
BY SupTypesInit, SupTypesStep, PTL DEF SupSpec

(* ---------------------- The inductive invariant ------------------------- *)

\* What holds of a position, whether or not a run is about it.
PositionInv(t) ==
    /\ IsOpen(t) /\ latest = Opposite(Side(t)) => t \in contrary
    /\ CloseFull(t) \in commands => position[t].state # "none" /\ (IsOpen(t) => t \in contrary)

\* What a run knows was true when it was read.
RunInv ==
    run # IdleRun =>
        /\ position[run.ticket].state # "none"
        /\ run.at = "signal" => run.seen = "none"
        /\ run.at = "reversal" /\ run.seen = Opposite(Side(run.ticket)) /\ IsOpen(run.ticket)
              => run.ticket \in contrary

SupInv == SupTypeOK /\ (\A t \in Tickets : PositionInv(t)) /\ RunInv

LEMMA SupInvInit == SupInit => SupInv
<1> SUFFICES ASSUME SupInit PROVE SupInv
  OBVIOUS
<1>1. SupTypeOK
  BY SupTypesInit
<1>2. ASSUME NEW t \in Tickets PROVE PositionInv(t)
  BY <1>2 DEF SupInit, PositionInv, NoPosition, IsOpen
<1>3. RunInv
  BY DEF SupInit, RunInv
<1> QED
  BY <1>1, <1>2, <1>3 DEF SupInv

\* What the steps outside a run do to a position: it stays as it is for the
\* history, or it opens, or it ends.
Stays(t) ==
    /\ position'[t].state = position[t].state
    /\ t \in contrary => t \in contrary'
Ends(t) == position[t].state = "open" /\ position'[t].state = "gone"

LEMMA EndMoves ==
    ASSUME SupTypeOK, NEW ended \in SUBSET OpenOnes, End(ended), NEW t \in Tickets
    PROVE  Stays(t) \/ Ends(t)
BY DEF SupTypeOK, End, Gone, OpenOnes, IsOpen, Stays, Ends

LEMMA SetStopsMoves ==
    ASSUME SupTypeOK, NEW moved, NEW level, SetStops(moved, level), UNCHANGED contrary,
           NEW t \in Tickets
    PROVE  Stays(t)
BY DEF SupTypeOK, SetStops, Stays

\* The steps of the market, the terminal and the operators, but for Open and
\* InsertSignal.
LEMMA OutsideMoves ==
    ASSUME SupTypeOK, NEW t \in Tickets,
           PriceMove \/ ExecuteClose \/ ExecuteModify \/ \E u \in Tickets : MoveStopByHand(u)
    PROVE  /\ Stays(t) \/ Ends(t)
           /\ UNCHANGED <<latest, run>>
           /\ commands' \subseteq commands
<1>1. CASE PriceMove
  BY <1>1, EndMoves DEF PriceMove
<1>2. CASE ExecuteClose
  BY <1>2, EndMoves DEF ExecuteClose
<1>3. CASE ExecuteModify
  BY <1>3, SetStopsMoves DEF ExecuteModify
<1>4. CASE \E u \in Tickets : MoveStopByHand(u)
  BY <1>4, SetStopsMoves DEF MoveStopByHand
<1> QED
  BY <1>1, <1>2, <1>3, <1>4

LEMMA PositionStep ==
    ASSUME SupInv, SupNext, NEW t \in Tickets
    PROVE  PositionInv(t)'
<1> USE DEF SupInv, SupTypeOK, PositionInv, IsOpen
<1>1. CASE PriceMove \/ ExecuteClose \/ ExecuteModify \/ \E u \in Tickets : MoveStopByHand(u)
  <2>1. /\ Stays(t) \/ Ends(t)
        /\ UNCHANGED <<latest, run>>
        /\ commands' \subseteq commands
    BY <1>1, OutsideMoves
  <2> QED
    BY <2>1 DEF Stays, Ends
<1>2. CASE DropCommand
  BY <1>2 DEF DropCommand
<1>3. ASSUME NEW side \in Sides \cup {"none"}, InsertSignal(side) PROVE PositionInv(t)'
  BY <1>3 DEF InsertSignal, OpenOnes
<1>4. ASSUME NEW u \in Tickets, Open(u) PROVE PositionInv(t)'
  BY <1>4 DEF Open
<1>5. ASSUME NEW u \in Tickets, RunStart(u) PROVE PositionInv(t)'
  BY <1>5 DEF RunStart
<1>6. CASE ReadSignal \/ ReadSignalFails \/ NoReversal
  BY <1>6 DEF ReadSignal, ReadSignalFails, NoReversal
<1>7. CASE PublishClose \/ PublishCloseFails
  <2>1. run \in Supervising /\ run # IdleRun /\ run.at = "reversal"
    BY <1>7, RunSomewhere DEF PublishClose, PublishCloseFails
  <2>2. run.seen = Opposite(Side(run.ticket))
    BY <1>7, <2>1 DEF PublishClose, PublishCloseFails, IsReversal, Opposite
  <2>3. run.ticket \in Tickets
    BY <2>1 DEF Supervising
  <2>4. /\ position[run.ticket].state # "none"
        /\ IsOpen(run.ticket) => run.ticket \in contrary
    BY <2>1, <2>2 DEF RunInv
  <2>5. CloseFull(t) \in commands' => CloseFull(t) \in commands \/ t = run.ticket
    BY <1>7, <2>1 DEF PublishClose, PublishCloseFails, CloseFull
  <2>6. UNCHANGED <<price, position, latest, contrary>>
    BY <1>7 DEF PublishClose, PublishCloseFails
  <2> QED
    BY <2>3, <2>4, <2>5, <2>6
<1>8. CASE Protect
  <2>1. CloseFull(t) \in commands' => CloseFull(t) \in commands
    BY <1>8 DEF Protect, CloseFull, ModifySl
  <2>2. UNCHANGED <<price, position, latest, contrary>>
    BY <1>8 DEF Protect
  <2> QED
    BY <2>1, <2>2
<1> QED
  BY <1>1, <1>2, <1>3, <1>4, <1>5, <1>6, <1>7, <1>8 DEF SupNext, SignalSides, Supervise

LEMMA RunStep ==
    ASSUME SupInv, SupNext
    PROVE  RunInv'
<1> USE DEF SupInv, SupTypeOK, IsOpen
<1>1. run # IdleRun => run \in Supervising /\ run.ticket \in Tickets
  BY SupervisingRun DEF Supervising
<1>2. ASSUME run' = run, contrary \subseteq contrary',
             \A t \in Tickets : /\ position[t].state # "none" => position'[t].state # "none"
                                /\ position[t].state # "none" /\ IsOpen(t)' => IsOpen(t)
      PROVE RunInv'
  BY <1>1, <1>2 DEF RunInv
<1>3. CASE PriceMove \/ ExecuteClose \/ ExecuteModify \/ \E u \in Tickets : MoveStopByHand(u)
  <2>1. \A t \in Tickets : Stays(t) \/ Ends(t)
    BY <1>3, OutsideMoves
  <2>2. run' = run
    BY <1>3 DEF PriceMove, ExecuteClose, ExecuteModify, MoveStopByHand
  <2> QED
    BY <1>1, <2>1, <2>2 DEF RunInv, Stays, Ends
<1>4. CASE DropCommand
  BY <1>2, <1>4 DEF DropCommand
<1>5. ASSUME NEW side \in Sides \cup {"none"}, InsertSignal(side) PROVE RunInv'
  BY <1>2, <1>5 DEF InsertSignal
<1>6. ASSUME NEW u \in Tickets, Open(u) PROVE RunInv'
  BY <1>2, <1>6 DEF Open
<1>7. ASSUME NEW u \in Tickets, RunStart(u) PROVE RunInv'
  BY <1>7 DEF RunStart, RunInv
<1>8. CASE ReadSignal \/ ReadSignalFails
  <2>1. run.at = "signal" /\ run \in Supervising /\ run # IdleRun
    BY <1>8, RunSomewhere DEF ReadSignal, ReadSignalFails
  <2>2. /\ run'.at = "reversal" /\ run'.ticket = run.ticket
        /\ run'.seen \in {latest, run.seen}
        /\ UNCHANGED <<position, latest, contrary>>
    BY <1>8, <2>1 DEF ReadSignal, ReadSignalFails, Supervising
  <2>3. run.ticket \in Tickets /\ Opposite(Side(run.ticket)) # "none"
    BY <1>1, <2>1 DEF Opposite
  <2> QED
    BY <2>1, <2>2, <2>3 DEF RunInv, PositionInv
<1>9. CASE NoReversal \/ PublishCloseFails
  <2>1. run.at = "reversal" /\ run \in Supervising /\ run # IdleRun
    BY <1>9, RunSomewhere DEF NoReversal, PublishCloseFails
  <2>2. /\ run'.at = "protect" /\ run'.ticket = run.ticket
        /\ UNCHANGED <<position, contrary>>
    BY <1>9, <2>1 DEF NoReversal, PublishCloseFails, Supervising
  <2> QED
    BY <2>1, <2>2 DEF RunInv
<1>10. CASE PublishClose \/ Protect
  BY <1>10 DEF PublishClose, Protect, RunInv
<1> QED
  BY <1>3, <1>4, <1>5, <1>6, <1>7, <1>8, <1>9, <1>10 DEF SupNext, SignalSides, Supervise

LEMMA SupInvStep == SupInv /\ [SupNext]_supVars => SupInv'
<1> SUFFICES ASSUME SupInv, [SupNext]_supVars PROVE SupInv'
  OBVIOUS
<1>1. CASE SupNext
  BY <1>1, SupTypesStep, PositionStep, RunStep DEF SupInv
<1>2. CASE UNCHANGED supVars
  BY <1>2 DEF supVars, SupInv, SupTypeOK, PositionInv, RunInv, IsOpen
<1> QED
  BY <1>1, <1>2

THEOREM SupInvHolds == SupSpec => []SupInv
BY SupInvInit, SupInvStep, PTL DEF SupSpec

(* ------------------------------ Theorems -------------------------------- *)

\* However late a run commits its close, and whatever became of other positions
\* meanwhile, the open position the row is for was contradicted in its life.
THEOREM ClosesWereContradicted == SupSpec => []ClosesAreContradicted
<1>1. SupInv => ClosesAreContradicted
  BY DEF SupInv, PositionInv, ClosesAreContradicted
<1> QED
  BY <1>1, SupInvHolds, PTL

\* A run asks only for stops that are behind the price it was started with,
\* from the first stop and from one that was moved, unless 0.8 of the risk is
\* within the fee buffer.
THEOREM MovesAreBehind == SupSpec => []MovesStayBehindPrice
<1>1. SupTypeOK => MovesStayBehindPrice
  <2> SUFFICES ASSUME SupTypeOK, NEW t \in OpenOnes, NEW sl \in PayloadStops(t),
                      RuleTwo(t, sl) = "modify", ~ (4 * Abs(Entry(t) - sl) <= 5 * Fee)
               PROVE  Behind(Side(t), Protective(t), price)
    BY DEF MovesStayBehindPrice
  <2>1. t \in Tickets /\ price \in Int
    BY SupervisorConstantsOK DEF OpenOnes, SupTypeOK
  <2>2. sl \in Int
    BY <2>1, LevelFacts DEF PayloadStops, SupTypeOK
  <2>3. 4 * Abs(Entry(t) - sl) > 5 * Fee
    BY <2>1, <2>2, LevelFacts, SupervisorConstantsOK DEF Abs
  <2> QED
    BY <2>1, <2>2, <2>3, MoveBehindPrice DEF RuleTwo
<1> QED
  BY <1>1, SupTypes, PTL

(* ---------------------- Contradicted positions end ------------------------ *)

\* SupFairness with the guards written out, as ENABLED is beyond this prover.
\* WF_supVars(Supervise): a run that was started can always go on.
RunsEnd == []<>(run = IdleRun) \/ []<><<Supervise>>_supVars

\* The guards of the steps that SupFairness is strong about, and those steps.
MayStart(t) == run = IdleRun /\ IsOpen(t)
MayRead(t) == RunOf(t) /\ run.at = "signal"
MayPublish(t) ==
    RunOf(t) /\ run.at = "reversal" /\ IsReversal(Side(run.ticket), run.seen)
MayClose == (\E u \in Tickets : CloseFull(u) \in commands) /\ OpenOnes # {}

SupervisedFairly(t) ==
    /\ []<>MayStart(t) => []<><<RunStart(t)>>_supVars
    /\ []<>MayRead(t) => []<><<RunOf(t) /\ ReadSignal>>_supVars
    /\ []<>MayPublish(t) => []<><<RunOf(t) /\ PublishClose>>_supVars

ClosedFairly == []<>MayClose => []<><<EverythingCloses>>_supVars

\* A run goes through its stages in one direction, and nothing else moves it.
LEMMA RunGoesOn ==
    ASSUME SupTypeOK, [SupNext]_supVars
    PROVE  /\ run.at = "signal" => (run.at = "signal")' \/ (run.at = "reversal")'
           /\ run.at = "reversal"
                 => (run.at = "reversal")' \/ (run.at = "protect")' \/ (run = IdleRun)'
           /\ run.at = "protect" => (run.at = "protect")' \/ (run = IdleRun)'
           /\ Supervise => \/ run.at = "signal" /\ (run.at = "reversal")'
                           \/ run.at = "reversal" /\ (run.at = "protect")'
                           \/ (run = IdleRun)'
<1>1. Supervise => \/ run.at = "signal" /\ run'.at = "reversal"
                   \/ run.at = "reversal" /\ (run'.at = "protect" \/ run' = IdleRun)
                   \/ run.at = "protect" /\ run' = IdleRun
  <2>1. CASE ReadSignal \/ ReadSignalFails \/ NoReversal \/ PublishCloseFails
    <3>1. run \in Supervising
      BY <2>1, RunSomewhere
      DEF SupTypeOK, ReadSignal, ReadSignalFails, NoReversal, PublishCloseFails
    <3> QED
      BY <2>1, <3>1
      DEF Supervising, ReadSignal, ReadSignalFails, NoReversal, PublishCloseFails
  <2>2. CASE PublishClose \/ Protect
    BY <2>2 DEF PublishClose, Protect
  <2> QED
    BY <2>1, <2>2 DEF Supervise
<1>2. ASSUME NEW t \in Tickets, RunStart(t) PROVE run.at = "idle"
  BY <1>2 DEF RunStart, IdleRun
<1>3. Supervise \/ run' = run \/ \E t \in Tickets : RunStart(t)
  BY DEF SupNext, PriceMove, DropCommand, InsertSignal, Open, MoveStopByHand, ExecuteClose,
         ExecuteModify, supVars
<1> QED
  BY <1>1, <1>2, <1>3

\* What the steps of a position's own chain bring about.
LEMMA ChainSteps ==
    ASSUME NEW t \in Tickets, SupTypeOK
    PROVE  /\ RunStart(t) => MayRead(t)'
           /\ (RunOf(t) /\ ReadSignal) /\ latest = Opposite(Side(t)) => MayPublish(t)'
           /\ (RunOf(t) /\ PublishClose) => (CloseFull(t) \in commands)'
           /\ IsOpen(t) /\ EverythingCloses => ~(IsOpen(t))'
<1>1. RunStart(t) => MayRead(t)'
  BY DEF RunStart, MayRead, RunOf, IdleRun
<1>2. ASSUME RunOf(t), ReadSignal, latest = Opposite(Side(t)) PROVE MayPublish(t)'
  <2>1. run \in Supervising /\ run.ticket = t
    BY <1>2, SupervisingRun DEF SupTypeOK, RunOf
  <2>2. run'.at = "reversal" /\ run'.ticket = t /\ run'.seen = Opposite(Side(t))
    BY <1>2, <2>1 DEF ReadSignal, Supervising
  <2>3. IsReversal(Side(t), Opposite(Side(t)))
    BY LevelFacts DEF IsReversal, Opposite, Sides
  <2> QED
    BY <2>2, <2>3 DEF MayPublish, RunOf, IdleRun
<1>3. RunOf(t) /\ PublishClose => (CloseFull(t) \in commands)'
  BY DEF RunOf, PublishClose
<1>4. IsOpen(t) /\ EverythingCloses => ~(IsOpen(t))'
  BY DEF EverythingCloses, OpenOnes, IsOpen
<1> QED
  BY <1>1, <1>2, <1>3, <1>4

(***************************************************************************)
(* A position that goes on being contradicted ends, for any number of      *)
(* positions and any commands that get lost: the next run on it publishes  *)
(* the close again, and in the end the EA, told to close often enough,     *)
(* closes everything there is.                                             *)
(***************************************************************************)
THEOREM ContradictedOnesEnd ==
    /\ SupSpec /\ RunsEnd /\ ClosedFairly
    /\ \A t \in Tickets : SupervisedFairly(t)
    => ContradictedEnd
<1>1. SupTypeOK => \/ run = IdleRun \/ run.at = "signal" \/ run.at = "reversal"
                   \/ run.at = "protect"
  BY RunKinds DEF SupTypeOK, Supervising
<1> DEFINE I == run = IdleRun
           S == run.at = "signal"
           V == run.at = "reversal"
           P == run.at = "protect"
<1>2. SupTypeOK => (I \/ S \/ V \/ P) /\ ~(S /\ V) /\ ~(S /\ P) /\ ~(V /\ P)
  BY <1>1
<1>3. SupTypeOK /\ [SupNext]_supVars
      => /\ S => S' \/ V'
         /\ V => V' \/ P' \/ I'
         /\ P => P' \/ I'
         /\ Supervise => (S /\ V') \/ (V /\ P') \/ I'
  BY RunGoesOn
<1> HIDE DEF S, V, P
<1>4. SupSpec /\ RunsEnd => []<>(run = IdleRun)
  BY <1>2, <1>3, SupTypes, PTL DEF SupSpec, RunsEnd
<1>5. ASSUME NEW t \in Tickets
      PROVE  SupSpec /\ RunsEnd /\ ClosedFairly /\ SupervisedFairly(t)
             => ((IsOpen(t) /\ latest = Opposite(Side(t)))
                    ~> (~ IsOpen(t) \/ latest # Opposite(Side(t))))
  <2> DEFINE O == IsOpen(t)
             L == latest = Opposite(Side(t))
             N == latest # Opposite(Side(t))
             C == CloseFull(t) \in commands
  <2>1. O /\ run = IdleRun => MayStart(t)
    BY DEF MayStart
  <2>2. O /\ C => MayClose
    BY DEF MayClose, OpenOnes
  <2>3. SupTypeOK => /\ RunStart(t) => MayRead(t)'
                     /\ (RunOf(t) /\ ReadSignal) /\ L => MayPublish(t)'
                     /\ (RunOf(t) /\ PublishClose) => C'
                     /\ O /\ EverythingCloses => ~O'
    BY ChainSteps
  <2>4. L \/ N
    OBVIOUS
  <2> HIDE DEF O, L, N, C
  <2>5. SupSpec /\ RunsEnd /\ ClosedFairly /\ SupervisedFairly(t) => ((O /\ L) ~> (~O \/ N))
    BY <1>4, <2>1, <2>2, <2>3, <2>4, SupTypes, PTL
       DEF SupSpec, SupervisedFairly, ClosedFairly
  <2> QED
    BY <2>5 DEF O, L, N
<1>6. QED
  BY <1>5 DEF ContradictedEnd
=============================================================================
